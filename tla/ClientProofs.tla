----------------------------- MODULE ClientProofs ---------------------------
(***************************************************************************)
(* Theorems about the browser and what serves it: the bet panel            *)
(* (BetPanel), the LP panel (LpDesk), the relay's RPC proxy (RpcProxy),    *)
(* the reader of event logs (EventLogs), and what the relay posts and      *)
(* shows (RelayPush, LiveFeed); for any vaults, wallets, amounts, frames,  *)
(* logs and sockets.                                                       *)
(***************************************************************************)
EXTENDS BetPanel, LpDesk, RpcProxy, EventLogs, LiveFeed, KaboomMathTheorems, FiniteSetTheorems, FunctionTheorems

-----------------------------------------------------------------------------
(* BetPanel: the capacity of a vault *)

\* A vault whose edge leaves something to win, as all are; BetPanel's NoReading is one.
VaultReading == [assets : Nat, outstanding : Nat, paused : BOOLEAN, edge : 0..(BPS - 1)]

LEMMA ObligationsNat ==
  ASSUME NEW v \in VaultReading, NEW a \in Nat
  PROVE  obligations(v, a) \in Nat /\ health(v, a) \in Nat
<1>1. units_to_assets(UnitsPending, a, UnitsIssued) \in Nat BY PanelAssumption, UnitsToAssetsNat
<1>2. obligations(v, a) \in Nat BY <1>1 DEF obligations, VaultReading
<1>3. health(v, a) \in Nat
  BY PanelAssumption, HealthIsFree DEF health, VaultReading
<1>4. QED BY <1>2, <1>3

LEMMA CapNat ==
  ASSUME NEW v \in VaultReading, NEW a \in Nat, NEW bps \in Nat
  PROVE  cap_of(v, bps, a) \in Nat
<1> USE BpsAssumption
<1>1. bps * health(v, a) \in Nat BY ObligationsNat
<1>2. (bps * health(v, a)) \div BPS \in Nat BY <1>1
<1>3. QED BY <1>2, MulDivNat DEF cap_of

\* The larger amount is the healthier, unless the rounding of what is owed to
\* LPs says otherwise.
LEMMA HealthGrows ==
  ASSUME NEW v \in VaultReading, NEW a \in Nat, NEW b \in Nat \ {0}, b <= a,
         obligations(v, a) * b <= obligations(v, b) * a
  PROVE  health(v, b) <= health(v, a)
<1>1. v.outstanding \in Nat /\ a \in Nat \ {0} /\ UnitsPending \in Nat /\ UnitsIssued \in Nat
  BY PanelAssumption DEF VaultReading
<1>2. (v.outstanding + units_to_assets(UnitsPending, a, UnitsIssued)) * b
          <= (v.outstanding + units_to_assets(UnitsPending, b, UnitsIssued)) * a
  BY DEF obligations
<1> DEFINE out == v.outstanding
<1> HIDE DEF out
<1>3. calc_health_bps(b, out, UnitsPending, UnitsIssued) <= calc_health_bps(a, out, UnitsPending, UnitsIssued)
  BY <1>1, <1>2, HealthMonotone DEF out
<1>4. QED BY <1>3 DEF health, out

\* And so is the cap: larger in the larger amount.
LEMMA CapGrows ==
  ASSUME NEW v \in VaultReading, NEW a \in Nat, NEW b \in Nat \ {0}, b <= a, NEW bps \in Nat,
         obligations(v, a) * b <= obligations(v, b) * a
  PROVE  cap_of(v, bps, b) <= cap_of(v, bps, a)
<1> USE BpsAssumption
<1> DEFINE ha == health(v, a)
           hb == health(v, b)
           sa == mul_div_floor(bps, ha, BPS)
           sb == mul_div_floor(bps, hb, BPS)
<1>1. ha \in Nat /\ hb \in Nat /\ hb <= ha BY ObligationsNat, HealthGrows
<1>2. cap_of(v, bps, a) = mul_div_floor(a, sa, BPS) /\ cap_of(v, bps, b) = mul_div_floor(b, sb, BPS)
  BY DEF cap_of, mul_div_floor
<1> HIDE DEF ha, hb
<1>3. sa \in Nat /\ sb \in Nat BY <1>1, MulDivNat
<1>4. sb <= sa
  <2>1. bps <= bps OBVIOUS
  <2>2. QED BY <1>1, <2>1, FloorGrows
<1> HIDE DEF sa, sb
<1>5. QED BY <1>2, <1>3, <1>4, FloorGrows

\* What is full pays something.
LEMMA FullPays ==
  ASSUME NEW mines \in MINE_OPTIONS, NEW edge \in 0..(BPS - 1)
  PROVE  calc_multiplier(GRID_SIZE - mines, mines, edge) \in Nat \ {0}
<1> USE GridAssumption, BpsAssumption
<1> DEFINE full == calc_multiplier(GRID_SIZE - mines, mines, edge)
<1>1. mines \in 1..(GRID_SIZE - 1) /\ edge \in 0..BPS BY PanelAssumption
<1>2. multiplier_defined(GRID_SIZE - mines, mines) BY <1>1 DEF multiplier_defined
<1>3. full \in Nat BY <1>1, <1>2, CalcMultiplierNat
<1>4. GRID_SIZE * (BPS - edge) <= full BY <1>1, FullClearMultiplier
<1>5. BPS - edge \in Nat \ {0} BY <1>1
<1> HIDE DEF full
<1>6. 1 * (BPS - edge) <= GRID_SIZE * (BPS - edge) BY <1>5, TimesMonotone
<1>7. 1 * (BPS - edge) = BPS - edge /\ GRID_SIZE * (BPS - edge) \in Nat BY <1>5
<1>8. full # 0 BY <1>3, <1>4, <1>5, <1>6, <1>7
<1>9. QED BY <1>3, <1>8 DEF full

-----------------------------------------------------------------------------
(* BetPanel: what the panel may hold *)

Ended == {"idle", "won", "lost"}

PanelState == [status : Ended \cup {"starting", "playing", "revealing", "cashing"}, bet : Nat,
               mines : MINE_OPTIONS, safe : Nat, pendingClose : BOOLEAN, lock : BOOLEAN]

\* The start whose click the lock is set by, or a later one: between the click and the
\* start the board stays that of no round, and from the start on it is locked itself.
PanelInv ==
    /\ vault \in VaultStates /\ wallet \in Wallets /\ balance \in Nat
    /\ reading \in VaultReading
    /\ panel \in PanelState
    /\ start \in [stage : {"none", "preflight", "sent"}, from : Ended, bet : Nat, mines : Nat]
    /\ start.stage # "none" => start.mines \in MINE_OPTIONS
    /\ round \in [live : BOOLEAN, over : BOOLEAN, bet : Nat, mines : Nat, safe : Nat]
    /\ round.live => round.mines \in MINE_OPTIONS
    /\ EngageHeard
    /\ start.stage = "preflight" => panel.status \in Ended /\ ~panel.pendingClose
    /\ start.stage = "sent" => panel.status = "starting" /\ ~panel.pendingClose

LEMMA MaxBetNat ==
  ASSUME NEW v \in VaultReading, NEW mines \in MINE_OPTIONS
  PROVE  maxBet(v, mines) \in Nat
<1> USE PanelAssumption, BpsAssumption
<1> DEFINE full == calc_multiplier(GRID_SIZE - mines, mines, v.edge)
<1>1. available(v) \in Nat BY SaturatingSub DEF available, VaultReading
<1>2. full \in Nat \ {0} BY FullPays DEF VaultReading
<1>3. payout_cap_bps \in Nat BY DEF payout_cap_bps, vrf_payout_bps, min2
<1>4. cap_of(v, MaxBetBps, available(v)) \in Nat /\ cap_of(v, payout_cap_bps, available(v)) \in Nat
  BY <1>1, <1>3, CapNat
<1> HIDE DEF full
<1>5. (cap_of(v, payout_cap_bps, available(v)) * BPS) \div full \in Nat
  <2>1. cap_of(v, payout_cap_bps, available(v)) * BPS \in Nat BY <1>4
  <2>2. QED BY <1>2, <2>1
<1>6. min2(cap_of(v, MaxBetBps, available(v)), (cap_of(v, payout_cap_bps, available(v)) * BPS) \div full) \in Nat
  BY <1>4, <1>5, Min2
<1>7. QED BY <1>6 DEF maxBet, full

LEMMA SnapNat ==
  ASSUME NEW b \in Nat PROVE snapDownToNiceBet(b) \in Nat
<1>1. \A s \in Nat \ {0} : b % s \in 0..(s - 1) /\ b % s <= b OBVIOUS
<1>2. \A s \in Nat \ {0} : b - (b % s) \in Nat BY <1>1
<1>3. QED BY <1>2, PanelAssumption DEF snapDownToNiceBet

\* An idle selection is moved among the counts on offer.
LEMMA CoverableIsOffered ==
  ASSUME NEW v \in VaultReading, NEW n \in MINE_OPTIONS
  PROVE  coverableMineCount(v, n) \in MINE_OPTIONS
<1> DEFINE covered == {m \in MINE_OPTIONS : maxBet(v, m) >= MIN_BET}
<1>1. coverableMineCount(v, n) = IF uncovered(v, n) /\ covered # {}
                                 THEN CHOOSE m \in covered : \A o \in covered : m <= o ELSE n
  BY DEF coverableMineCount
<1>2. covered \subseteq Nat /\ covered \subseteq MINE_OPTIONS
  <2>1. MINE_OPTIONS \subseteq Nat BY PanelAssumption, GridAssumption
  <2>2. QED BY <2>1
<1> HIDE DEF covered
<1>3. covered # {} => (CHOOSE m \in covered : \A o \in covered : m <= o) \in covered
  BY <1>2, NatMin
<1>4. QED BY <1>1, <1>2, <1>3

\* The effects leave the board as it is told: the count may move while idle, and
\* the lock follows the board's whenever that changes.
LEMMA SettledIs ==
  ASSUME NEW p \in PanelState, NEW v \in VaultReading
  PROVE  LET s == settled(p, v)
         IN  /\ s \in PanelState
             /\ s.status = p.status /\ s.bet = p.bet /\ s.pendingClose = p.pendingClose
             /\ isLocked(s) = isLocked(p)
             /\ s.lock = IF isLocked(p) # isLocked(panel) THEN isLocked(p) ELSE p.lock
<1>1. coverableMineCount(v, p.mines) \in MINE_OPTIONS BY CoverableIsOffered DEF PanelState
<1>2. isLocked(p) \in BOOLEAN BY DEF isLocked
<1> DEFINE s == settled(p, v)
<1>3. /\ s \in PanelState /\ s.status = p.status /\ s.bet = p.bet /\ s.pendingClose = p.pendingClose
      /\ s.lock = IF isLocked(p) # isLocked(panel) THEN isLocked(p) ELSE p.lock
  BY <1>1, <1>2 DEF settled, PanelState
<1>4. isLocked(s) = isLocked(p) BY <1>3 DEF isLocked
<1>5. QED BY <1>3, <1>4

LEMMA PanelInitInv == PanelInit => PanelInv
<1> SUFFICES ASSUME PanelInit PROVE PanelInv OBVIOUS
<1> USE PanelAssumption, BpsAssumption
<1>1. panel \in PanelState /\ ~panel.lock
  BY DEF PanelInit, new_panel, PanelState, Ended
<1>2. reading \in VaultReading BY DEF PanelInit, NoReading, VaultReading
<1>3. /\ start \in [stage : {"none", "preflight", "sent"}, from : Ended, bet : Nat, mines : Nat]
      /\ start.stage = "none"
  BY DEF PanelInit, no_start, Ended
<1>4. round \in [live : BOOLEAN, over : BOOLEAN, bet : Nat, mines : Nat, safe : Nat] /\ ~round.live
  BY DEF PanelInit, no_round
<1>5. QED BY <1>1, <1>2, <1>3, <1>4 DEF PanelInit, PanelInv, EngageHeard

\* The shape of a step that moves the board only: what is left of the invariant.
LEMMA ShowsKeeps ==
  ASSUME PanelInv, NEW p \in PanelState, shows(p), UNCHANGED readings, UNCHANGED world, UNCHANGED start,
         round' \in [live : BOOLEAN, over : BOOLEAN, bet : Nat, mines : Nat, safe : Nat],
         round'.live => round'.mines \in MINE_OPTIONS,
         p.lock = panel.lock,
         start.stage = "preflight" => p.status \in Ended /\ ~p.pendingClose,
         start.stage = "sent" => p.status = "starting" /\ ~p.pendingClose
  PROVE  PanelInv'
<1> DEFINE s == settled(p, reading)
<1>1. reading \in VaultReading /\ panel' = s BY DEF PanelInv, shows
<1>2. /\ s \in PanelState
      /\ s.status = p.status /\ s.pendingClose = p.pendingClose /\ isLocked(s) = isLocked(p)
      /\ s.lock = IF isLocked(p) # isLocked(panel) THEN isLocked(p) ELSE p.lock
  BY <1>1, SettledIs
<1> HIDE DEF s
<1>3. panel'.lock /\ ~isLocked(panel') => panel.lock /\ ~isLocked(panel)
  BY <1>1, <1>2 DEF PanelState, PanelInv
<1>4. EngageHeard' BY <1>3 DEF PanelInv, EngageHeard
<1>5. QED BY <1>1, <1>2, <1>4 DEF PanelInv, readings, world

RoundType == [live : BOOLEAN, over : BOOLEAN, bet : Nat, mines : Nat, safe : Nat]

\* The player's edits of the bet and of the count.
LEMMA EditsKeep ==
  ASSUME PanelInv, NEW bet \in Nat, NEW mines \in MINE_OPTIONS, edits(bet, mines)
  PROVE  PanelInv'
<1> DEFINE p == [panel EXCEPT !.bet = bet, !.mines = mines]
<1>1. p \in PanelState /\ p.lock = panel.lock /\ p.status = panel.status /\ p.pendingClose = panel.pendingClose
  BY DEF PanelInv, PanelState
<1>2. shows(p) /\ UNCHANGED readings /\ UNCHANGED world /\ UNCHANGED start /\ round' = round BY DEF edits
<1> HIDE DEF p
<1>3. QED BY <1>1, <1>2, ShowsKeeps DEF PanelInv

LEMMA BettingKeeps ==
  ASSUME PanelInv, set_bet \/ half \/ twice \/ max_bet \/ choose_mines
  PROVE  PanelInv'
<1> USE PanelAssumption
<1>1. panel.bet \in Nat /\ panel.mines \in MINE_OPTIONS /\ reading \in VaultReading /\ MIN_BET \in Nat
      /\ Typed \subseteq Nat /\ balance \in Nat /\ START_OVERHEAD \in Nat
  BY DEF PanelInv, PanelState
<1>2. maxBet(reading, panel.mines) \in Nat BY <1>1, MaxBetNat
<1>3. \A a, b \in Nat : max2(a, b) \in Nat BY DEF max2
<1>4. CASE set_bet
  <2>1. PICK b \in Typed : edits(b, panel.mines) BY <1>4 DEF set_bet
  <2>2. QED BY <1>1, <2>1, EditsKeep
<1>5. CASE half
  <2>1. panel.bet \div 2 \in Nat BY <1>1
  <2>2. max2(MIN_BET, panel.bet \div 2) \in Nat BY <1>1, <1>3, <2>1
  <2>3. QED BY <1>1, <1>5, <2>2, EditsKeep DEF half
<1>6. CASE twice
  <2>1. max2(MIN_BET, snapDownToNiceBet(maxBet(reading, panel.mines))) \in Nat BY <1>1, <1>2, <1>3, SnapNat
  <2>2. panel.bet * 2 \in Nat BY <1>1
  <2>3. QED BY <1>1, <1>6, <2>1, <2>2, EditsKeep DEF twice
<1>7. CASE max_bet
  <2>1. affordable \in Nat BY <1>1, SaturatingSub DEF affordable
  <2>2. min2(maxBet(reading, panel.mines), affordable) \in Nat BY <1>2, <2>1, Min2
  <2>3. max2(MIN_BET, snapDownToNiceBet(min2(maxBet(reading, panel.mines), affordable))) \in Nat
    BY <1>1, <1>3, <2>2, SnapNat
  <2>4. QED BY <1>1, <1>7, <2>3, EditsKeep DEF max_bet
<1>8. CASE choose_mines
  <2>1. PICK n \in MINE_OPTIONS : edits(panel.bet, n) BY <1>8 DEF choose_mines
  <2>2. QED BY <1>1, <2>1, EditsKeep
<1>9. QED BY <1>4, <1>5, <1>6, <1>7, <1>8

\* What the chain and the polls do changes no lock.
LEMMA PollsKeep ==
  ASSUME PanelInv, poll_vault \/ poll_wallet \/ world_moves
  PROVE  PanelInv'
<1> USE PanelAssumption
<1>1. VaultStates \subseteq VaultReading /\ Wallets \subseteq Nat BY DEF VaultReading
<1>2. CASE poll_vault
  <2>1. vault \in VaultReading /\ panel \in PanelState BY <1>1 DEF PanelInv
  <2>2. panel' = settled(panel, vault) /\ reading' = vault BY <1>2 DEF poll_vault
  <2>3. /\ panel' \in PanelState /\ panel'.status = panel.status
        /\ panel'.pendingClose = panel.pendingClose /\ isLocked(panel') = isLocked(panel) /\ panel'.lock = panel.lock
    BY <2>1, <2>2, SettledIs
  <2>4. QED BY <1>2, <2>1, <2>2, <2>3 DEF PanelInv, poll_vault, EngageHeard, world
<1>3. CASE poll_wallet
  BY <1>1, <1>3 DEF poll_wallet, PanelInv, EngageHeard, world, isLocked
<1>4. CASE world_moves
  BY <1>4 DEF world_moves, PanelInv, EngageHeard, readings, isLocked
<1>5. QED BY <1>2, <1>3, <1>4

\* A click sets the lock and its start is under way.
LEMMA ClickKeeps ==
  ASSUME PanelInv, click_engage
  PROVE  PanelInv'
<1> USE PanelAssumption, GridAssumption
<1>1. panel.status \in Ended /\ ~panel.pendingClose
  BY DEF click_engage, let_through, offered, isLocked, Ended
<1>2. MINE_OPTIONS \subseteq Nat OBVIOUS
<1>3. start' \in [stage : {"none", "preflight", "sent"}, from : Ended, bet : Nat, mines : Nat]
      /\ start'.stage = "preflight" /\ start'.mines \in MINE_OPTIONS
  BY <1>1, <1>2 DEF click_engage, PanelInv, PanelState
<1>4. panel' \in PanelState /\ panel'.status = panel.status /\ panel'.pendingClose = panel.pendingClose
  BY DEF click_engage, PanelInv, PanelState
<1>5. QED BY <1>1, <1>3, <1>4 DEF PanelInv, click_engage, world, readings, EngageHeard

\* A start that ends, or is sent: a board told `p` that is released as it ought.
LEMMA StartKeeps ==
  ASSUME PanelInv, start_preflight \/ start_lands \/ start_fails
  PROVE  PanelInv'
<1> USE PanelAssumption, GridAssumption
<1>1. panel \in PanelState /\ reading \in VaultReading /\ start.from \in Ended /\ start.stage # "none"
      /\ MINE_OPTIONS \subseteq Nat /\ start.mines \in MINE_OPTIONS /\ start.bet \in Nat
  BY DEF PanelInv, start_preflight, start_lands, start_fails
<1>2. CASE start_preflight /\ ~round.live
  <2> DEFINE p == [panel EXCEPT !.status = "starting"]
  <2>1. p \in PanelState /\ p.status = "starting" /\ p.pendingClose = panel.pendingClose /\ isLocked(p)
    BY <1>1 DEF PanelState, isLocked
  <2>2. panel' = settled(p, reading) /\ start' = [start EXCEPT !.stage = "sent"] /\ ~panel.pendingClose
        /\ UNCHANGED <<world, readings, round>>
    BY <1>2 DEF start_preflight, shows, PanelInv
  <2> HIDE DEF p
  <2>3. panel' \in PanelState /\ panel'.status = "starting" /\ ~panel'.pendingClose /\ isLocked(panel')
    BY <1>1, <2>1, <2>2, SettledIs
  <2>4. start' \in [stage : {"none", "preflight", "sent"}, from : Ended, bet : Nat, mines : Nat]
        /\ start'.stage = "sent" /\ start'.mines \in MINE_OPTIONS
    BY <1>1, <2>2 DEF PanelInv
  <2>5. QED BY <2>2, <2>3, <2>4 DEF PanelInv, EngageHeard, world, readings
<1>3. ASSUME NEW p \in PanelState, shows(released(p)), start_ends, UNCHANGED <<world, readings>>,
             p.status \in {"idle", "playing"}, ~p.pendingClose,
             round' \in RoundType, round'.live => round'.mines \in MINE_OPTIONS
      PROVE  PanelInv'
  <2> DEFINE q == released(p)
  <2>1. q \in PanelState /\ q.status = p.status /\ q.pendingClose = p.pendingClose /\ ~isLocked(q)
        /\ (q.lock => start.from # "idle")
    BY <1>3 DEF PanelState, released, isLocked
  <2>2. panel' = settled(q, reading) BY <1>3 DEF shows
  <2> HIDE DEF q
  <2>3. panel' \in PanelState /\ (panel'.lock => q.lock)
    BY <1>1, <2>1, <2>2, SettledIs
  <2>4. start' \in [stage : {"none", "preflight", "sent"}, from : Ended, bet : Nat, mines : Nat]
        /\ start'.stage = "none" /\ start'.from = start.from
    BY <1>1, <1>3 DEF start_ends, no_start
  <2>5. EngageHeard' BY <1>1, <2>1, <2>3, <2>4 DEF EngageHeard, Ended
  <2>6. QED BY <1>3, <2>3, <2>4, <2>5 DEF PanelInv, RoundType, world, readings
<1>4. CASE start_preflight /\ round.live
  <2> DEFINE p == [panel EXCEPT !.status = "idle"]
  <2>1. p \in PanelState /\ p.status = "idle" /\ ~p.pendingClose
    BY <1>1, <1>4 DEF PanelState, PanelInv, start_preflight, Ended
  <2>2. QED BY <1>3, <1>4, <2>1 DEF start_preflight, PanelInv, RoundType
<1>5. CASE start_fails
  <2> DEFINE p == [panel EXCEPT !.status = "idle"]
  <2>1. p \in PanelState /\ p.status = "idle" /\ ~p.pendingClose
    BY <1>1, <1>5 DEF PanelState, PanelInv, start_fails, Ended
  <2>2. QED BY <1>3, <1>5, <2>1 DEF start_fails, PanelInv, RoundType
<1>6. CASE start_lands
  <2> DEFINE p == [panel EXCEPT !.status = "playing", !.safe = 0]
  <2>1. p \in PanelState /\ p.status = "playing" /\ ~p.pendingClose
    BY <1>1, <1>6 DEF PanelState, PanelInv, start_lands, Ended
  <2>2. round' \in RoundType /\ round'.mines \in MINE_OPTIONS
    BY <1>1, <1>6 DEF start_lands, no_round, RoundType
  <2>3. QED BY <1>3, <1>6, <2>1, <2>2 DEF start_lands
<1>7. QED BY <1>2, <1>4, <1>5, <1>6

\* The round's own steps: none while a start is under way but for the answers of
\* earlier ones, and none touches the lock but through the board's.
LEMMA RoundKeeps ==
  ASSUME PanelInv, reveal \/ safe_reveal \/ mine_reveal \/ draw_fails \/ cashes_out \/ settle_flow
                   \/ cron_settles \/ play_again
  PROVE  PanelInv'
<1>1. panel \in PanelState /\ round \in RoundType /\ round.safe + 1 \in Nat /\ panel.safe + 1 \in Nat
  BY DEF PanelInv, PanelState, RoundType
<1>2. ASSUME NEW p \in PanelState, NEW r \in RoundType, turns(p, r), p.lock = panel.lock,
             r.live => r.mines \in MINE_OPTIONS,
             start.stage = "preflight" => p.status \in Ended /\ ~p.pendingClose,
             start.stage = "sent" => p.status = "starting" /\ ~p.pendingClose
      PROVE  PanelInv'
  BY <1>2, ShowsKeeps DEF turns, RoundType, readings, world
<1>3. ASSUME panel.status \in {"playing", "revealing", "cashing"} \/ panel.pendingClose
      PROVE  start.stage = "none"
  BY <1>3 DEF PanelInv, Ended
<1>4. ASSUME NEW p \in PanelState, NEW r \in RoundType, turns(p, r), p.lock = panel.lock,
             r.live => r.mines \in MINE_OPTIONS, start.stage = "none"
      PROVE  PanelInv'
  BY <1>2, <1>4
<1>5. no_round \in RoundType /\ ~no_round.live BY DEF no_round, RoundType
<1>6. round.live => round.mines \in MINE_OPTIONS BY DEF PanelInv
<1>7. CASE reveal
  <2>1. [panel EXCEPT !.status = "revealing"] \in PanelState
        /\ [panel EXCEPT !.status = "revealing"].lock = panel.lock BY <1>1 DEF PanelState
  <2>2. QED BY <1>1, <1>3, <1>4, <1>6, <1>7, <2>1 DEF reveal
<1>8. CASE safe_reveal
  <2>1. PICK st \in {"won", "playing"}, done \in BOOLEAN :
          turns([panel EXCEPT !.safe = @ + 1, !.status = st, !.pendingClose = done],
                [round EXCEPT !.safe = round.safe + 1, !.over = done])
    BY <1>8 DEF safe_reveal
  <2> DEFINE p == [panel EXCEPT !.safe = @ + 1, !.status = st, !.pendingClose = done]
             r == [round EXCEPT !.safe = round.safe + 1, !.over = done]
  <2>2. p \in PanelState /\ p.lock = panel.lock BY <1>1, <2>1 DEF PanelState, Ended
  <2>3. r \in RoundType /\ r.live = round.live /\ r.mines = round.mines BY <1>1, <2>1 DEF RoundType
  <2>4. panel.status = "revealing" BY <1>8 DEF safe_reveal
  <2>5. turns(p, r) BY <2>1
  <2> HIDE DEF p, r
  <2>6. QED BY <1>3, <1>4, <1>6, <2>2, <2>3, <2>4, <2>5
<1>9. CASE mine_reveal
  <2> DEFINE p == [panel EXCEPT !.status = "lost", !.pendingClose = TRUE]
             r == [round EXCEPT !.over = TRUE]
  <2>1. p \in PanelState /\ p.lock = panel.lock /\ r \in RoundType /\ r.live = round.live /\ r.mines = round.mines
    BY <1>1 DEF PanelState, RoundType, Ended
  <2>2. QED BY <1>3, <1>4, <1>6, <1>9, <2>1 DEF mine_reveal
<1>10. CASE draw_fails
  <2>1. [panel EXCEPT !.status = "playing"] \in PanelState
        /\ [panel EXCEPT !.status = "playing"].lock = panel.lock BY <1>1 DEF PanelState
  <2>2. QED BY <1>1, <1>3, <1>4, <1>6, <1>10, <2>1 DEF draw_fails
<1>11. CASE cashes_out
  <2> DEFINE p == [panel EXCEPT !.status = "cashing", !.pendingClose = TRUE]
             r == [round EXCEPT !.over = TRUE]
  <2>1. p \in PanelState /\ p.lock = panel.lock /\ r \in RoundType /\ r.live = round.live /\ r.mines = round.mines
    BY <1>1 DEF PanelState, RoundType
  <2>2. QED BY <1>3, <1>4, <1>6, <1>11, <2>1 DEF cashes_out
<1>12. CASE settle_flow
  <2> DEFINE p == [panel EXCEPT !.pendingClose = FALSE, !.status = IF @ = "cashing" THEN "won" ELSE @]
             q == [panel EXCEPT !.pendingClose = FALSE]
  <2>1. p \in PanelState /\ p.lock = panel.lock /\ q \in PanelState /\ q.lock = panel.lock
    BY <1>1 DEF PanelState, Ended
  <2>2. (turns(p, no_round) \/ turns(q, round)) /\ panel.pendingClose BY <1>12 DEF settle_flow
  <2> HIDE DEF p, q
  <2>3. QED BY <1>1, <1>3, <1>4, <1>5, <1>6, <2>1, <2>2
<1>13. CASE cron_settles
  BY <1>1, <1>2, <1>5, <1>13 DEF cron_settles, PanelInv
<1>14. CASE play_again
  <2> DEFINE p == [panel EXCEPT !.status = "idle", !.safe = 0]
  <2>1. p \in PanelState /\ p.lock = panel.lock /\ p.status = "idle" /\ p.pendingClose = panel.pendingClose
    BY <1>1 DEF PanelState, Ended
  <2>2. start.stage # "sent" /\ turns(p, round) BY <1>14 DEF play_again, PanelInv
  <2> HIDE DEF p
  <2>3. QED BY <1>1, <1>2, <1>6, <2>1, <2>2 DEF PanelInv, Ended
<1>15. QED BY <1>7, <1>8, <1>9, <1>10, <1>11, <1>12, <1>13, <1>14

\* The button's clock, and a page opened again.
LEMMA PageKeeps ==
  ASSUME PanelInv, lock_ceiling \/ reload
  PROVE  PanelInv'
<1> USE PanelAssumption, BpsAssumption
<1>1. CASE lock_ceiling
  <2>1. /\ panel' \in PanelState /\ ~panel'.lock /\ panel'.status = panel.status
        /\ panel'.pendingClose = panel.pendingClose
    BY <1>1 DEF lock_ceiling, PanelInv, PanelState
  <2>2. QED BY <1>1, <2>1 DEF lock_ceiling, PanelInv, EngageHeard, world, readings
<1>2. CASE reload
  <2>1. new_panel \in PanelState /\ ~new_panel.lock BY DEF new_panel, PanelState, Ended
  <2>2. panel' \in PanelState /\ ~panel'.lock
    BY <1>2, <2>1 DEF reload, PanelInv, PanelState
  <2>3. reading' \in VaultReading BY <1>2 DEF reload, NoReading, VaultReading
  <2>4. start' \in [stage : {"none", "preflight", "sent"}, from : Ended, bet : Nat, mines : Nat]
        /\ start'.stage = "none"
    BY <1>2 DEF reload, no_start, Ended
  <2>5. QED BY <1>2, <2>2, <2>3, <2>4 DEF reload, PanelInv, EngageHeard, world
<1>3. QED BY <1>1, <1>2

\* The panel knows what it waits for, whatever the player, the vault and the
\* answers do, in any order.
THEOREM PanelInvariant == PanelSpec => []PanelInv
<1>1. PanelInv /\ [PanelNext]_panelVars => PanelInv'
  <2>1. CASE UNCHANGED panelVars
    BY <2>1 DEF panelVars, PanelInv, EngageHeard, isLocked
  <2>2. CASE PanelNext
    BY <2>2, PollsKeep, BettingKeeps, ClickKeeps, StartKeeps, RoundKeeps, PageKeeps DEF PanelNext
  <2>3. QED BY <2>1, <2>2
<1>2. QED BY <1>1, PanelInitInv, PTL DEF PanelSpec

\* A click on Engage is not swallowed (BetControls.tsx, game-store.ts): what
\* releases the lock of a click is not lost, however polls, settlements and
\* reloads fall between the click and the answer.
THEOREM EngageStaysHeard == PanelSpec => []EngageHeard
BY PanelInvariant, PTL DEF PanelInv

\* The panel bounds a bet by what is left of the vault, never more than by all of it.
LEMMA InvAdmits ==
  ASSUME PanelInv
  PROVE  EngageIsAdmitted
<1> USE PanelAssumption, BpsAssumption
<1> SUFFICES ASSUME let_through, reading = vault, balance = wallet, rounds_alike(vault)
             PROVE  start_admitted(vault, panel.bet, panel.mines) /\ panel.bet + START_OVERHEAD <= wallet
  BY DEF EngageIsAdmitted
<1>1. vault \in VaultReading /\ panel.bet \in Nat /\ panel.mines \in MINE_OPTIONS
  BY DEF PanelInv, PanelState
<1> DEFINE a == vault.assets
           b == available(vault)
           full == calc_multiplier(GRID_SIZE - panel.mines, panel.mines, vault.edge)
           bound == cap_of(vault, vrf_payout_bps, b)
<1>2. a \in Nat /\ b \in Nat /\ b <= a BY <1>1, SaturatingSub DEF VaultReading, available
<1>3. ~vault.paused /\ b # 0 /\ panel.bet <= maxBet(vault, panel.mines) /\ refusal(vault) = "ok"
  BY DEF let_through, offered, refusal
<1>4. full \in Nat \ {0} BY <1>1, FullPays DEF VaultReading
<1>5. vrf_payout_bps \in Nat /\ payout_cap_bps = vrf_payout_bps BY DEF vrf_payout_bps, payout_cap_bps, min2
<1>6. bound \in Nat /\ cap_of(vault, MaxBetBps, b) \in Nat BY <1>1, <1>2, <1>5, CapNat
<1>7. maxBet(vault, panel.mines) = min2(cap_of(vault, MaxBetBps, b), (bound * BPS) \div full)
  BY <1>3, <1>5 DEF maxBet
<1>8. cap_of(vault, MaxBetBps, b) <= cap_of(vault, MaxBetBps, a) /\ bound <= cap_of(vault, vrf_payout_bps, a)
  BY <1>1, <1>2, <1>3, <1>5, CapGrows DEF rounds_alike
<1>9. cap_of(vault, MaxBetBps, a) \in Nat /\ cap_of(vault, vrf_payout_bps, a) \in Nat
  BY <1>1, <1>2, <1>5, CapNat
<1> HIDE DEF a, b, full, bound
<1> DEFINE q == mul_div_floor(bound, BPS, full)
<1>10. q \in Nat /\ q * full <= bound * BPS BY <1>4, <1>6, MulDivNat, MulDivFloor
<1>11. maxBet(vault, panel.mines) = min2(cap_of(vault, MaxBetBps, b), q) BY <1>7 DEF mul_div_floor
<1> HIDE DEF q
<1>12. panel.bet <= cap_of(vault, MaxBetBps, b) /\ panel.bet <= q
  BY <1>1, <1>3, <1>6, <1>10, <1>11 DEF min2
<1>13. panel.bet <= cap_of(vault, MaxBetBps, a) BY <1>1, <1>6, <1>8, <1>9, <1>12
<1>14. mul_div_floor(panel.bet, full, BPS) <= bound
  <2>1. panel.bet * full <= q * full BY <1>1, <1>4, <1>10, <1>12, TimesMonotone
  <2>2. mul_div_floor(panel.bet, full, BPS) \in Nat
        /\ mul_div_floor(panel.bet, full, BPS) * BPS <= panel.bet * full
    BY <1>1, <1>4, MulDivNat, MulDivFloor
  <2> DEFINE w == mul_div_floor(panel.bet, full, BPS)
  <2> HIDE DEF w
  <2>3. panel.bet * full \in Nat /\ q * full \in Nat /\ bound * BPS \in Nat /\ w * BPS \in Nat
    BY <1>1, <1>4, <1>6, <1>10, <2>2 DEF w
  <2>4. w * BPS <= bound * BPS BY <1>10, <2>1, <2>2, <2>3 DEF w
  <2>5. QED BY <1>6, <2>2, <2>4, TimesCancel DEF w
<1>15. worst_case_payout(panel.bet, panel.mines, vault.edge) <= cap_of(vault, vrf_payout_bps, a)
  <2>1. worst_case_payout(panel.bet, panel.mines, vault.edge) = mul_div_floor(panel.bet, full, BPS)
    BY DEF worst_case_payout, full
  <2>2. mul_div_floor(panel.bet, full, BPS) \in Nat BY <1>1, <1>4, MulDivNat
  <2>3. QED BY <1>6, <1>8, <1>9, <1>14, <2>1, <2>2
<1>16. panel.bet >= MIN_BET /\ panel.bet + START_OVERHEAD <= wallet BY DEF let_through
<1>17. QED BY <1>3, <1>13, <1>15, <1>16 DEF start_admitted, a

\* BetControls.tsx:414: a bet Engage lets through is one start_game_vrf admits,
\* for every vault, bet and board, whenever the readings are those of the moment
\* and what LPs are owed is rounded alike.
THEOREM EngageStaysAdmitted == PanelSpec => []EngageIsAdmitted
BY PanelInvariant, InvAdmits, PTL

-----------------------------------------------------------------------------
(* LpDesk *)

Order == [kind : {"deposit", "request", "cancel", "complete", "restart"}, arg : Amounts \cup Units \cup {0},
          last : Int, state : {"sent", "processed", "confirmed", "failed"}]

\* A transaction lands in the block under way, so one that is not confirmed yet
\* was valid until now; when the panel takes its last look, and after, the order
\* it asks about is past its height.
PastItsHeight == txs # <<>> /\ height > tx.last

DeskType == height \in Nat /\ txs \in Seq(Order) /\ desk \in {"idle", "polling", "last_look"}

ValidUntilNow == \A k \in DOMAIN txs : txs[k].state = "processed" => height < txs[k].last

AsksInTime ==
    /\ desk # "idle" => txs # <<>>
    /\ desk = "last_look" => PastItsHeight
    /\ desk = "idle" /\ told = "expired" => PastItsHeight /\ tx.state \in {"sent", "failed"}

DeskInv == DeskType /\ ValidUntilNow /\ AsksInTime

LEMMA DeskInitInv == DeskInit => DeskInv
BY DEF DeskInit, DeskInv, DeskType, ValidUntilNow, AsksInTime

\* Steps of the vault and of the slot counter are not the panel's business.
LEMMA DeskQuiet ==
    ASSUME DeskInv, UNCHANGED <<height, txs, desk, told>>
    PROVE  DeskInv'
BY DEF DeskInv, DeskType, ValidUntilNow, AsksInTime, PastItsHeight, tx

\* The transaction the panel asks about is the last one.
LEMMA AskedTx ==
    ASSUME DeskType
    PROVE  /\ DOMAIN txs = 1..Len(txs) /\ Len(txs) \in Nat /\ \A k \in 1..Len(txs) : txs[k] \in Order
           /\ txs = <<>> <=> Len(txs) = 0
           /\ txs # <<>> => Len(txs) \in 1..Len(txs) /\ tx = txs[Len(txs)]
<1>1. txs \in Seq(Order) BY DEF DeskType
<1> QED BY <1>1 DEF tx

LEMMA AskedTxNext == DeskType' =>
    (/\ DOMAIN txs = 1..Len(txs) /\ Len(txs) \in Nat /\ \A k \in 1..Len(txs) : txs[k] \in Order
     /\ txs = <<>> <=> Len(txs) = 0
     /\ txs # <<>> => Len(txs) \in 1..Len(txs) /\ tx = txs[Len(txs)])'
BY AskedTx, PTL

LEMMA OrderFields ==
    ASSUME NEW o \in Order
    PROVE  o.last \in Int /\ o.state \in {"sent", "processed", "confirmed", "failed"}
BY DEF Order

LEMMA OrderBecomes ==
    ASSUME NEW o \in Order, NEW s \in {"sent", "processed", "confirmed", "failed"}
    PROVE  /\ [o EXCEPT !.state = s] \in Order
           /\ [o EXCEPT !.state = s].last = o.last
           /\ [o EXCEPT !.state = s].state = s
BY DEF Order

\* A block confirms what was processed.
LEMMA BlockConfirms ==
    ASSUME DeskType, next_block
    PROVE  /\ height' = height + 1 /\ UNCHANGED <<desk, told>>
           /\ txs' \in Seq(Order) /\ Len(txs') = Len(txs) /\ DOMAIN txs' = 1..Len(txs)
           /\ \A k \in 1..Len(txs) : /\ txs'[k].last = txs[k].last /\ txs'[k].state # "processed"
                                     /\ txs[k].state # "processed" => txs'[k].state = txs[k].state
<1> DEFINE n == Len(txs)
           state(k) == IF txs[k].state = "processed" THEN "confirmed" ELSE txs[k].state
           after(k) == [txs[k] EXCEPT !.state = state(k)]
<1>1. n \in Nat /\ DOMAIN txs = 1..n /\ \A k \in 1..n : txs[k] \in Order BY AskedTx
<1>2. height' = height + 1 /\ UNCHANGED <<desk, told>> BY DEF next_block
<1>3. txs' = [k \in 1..n |-> after(k)] BY <1>1 DEF next_block, becomes
<1> HIDE DEF n
<1>4. ASSUME NEW k \in 1..n
      PROVE  after(k) \in Order /\ after(k).last = txs[k].last /\ after(k).state = state(k)
  <2>1. txs[k] \in Order BY <1>1
  <2>2. state(k) \in {"sent", "processed", "confirmed", "failed"} BY <2>1, OrderFields
  <2> HIDE DEF state
  <2> QED BY <2>1, <2>2, OrderBecomes
<1>5. \A k \in 1..n : state(k) # "processed" /\ (txs[k].state # "processed" => state(k) = txs[k].state)
  OBVIOUS
<1> HIDE DEF after, state
<1>6. txs' \in [1..n -> Order] BY <1>3, <1>4
<1>7. txs' \in Seq(Order) /\ Len(txs') = n /\ DOMAIN txs' = 1..n BY <1>1, <1>6
<1>8. \A k \in 1..n : txs'[k] = after(k) BY <1>3
<1> QED BY <1>2, <1>4, <1>5, <1>7, <1>8 DEF n

LEMMA BlockKeeps ==
    ASSUME DeskInv, next_block
    PROVE  DeskInv'
<1> DEFINE n == Len(txs)
<1>1. DeskType /\ ValidUntilNow /\ AsksInTime BY DEF DeskInv
<1>2. height \in Nat /\ desk \in {"idle", "polling", "last_look"} BY <1>1 DEF DeskType
<1>3. height' = height + 1 /\ UNCHANGED <<desk, told>> BY <1>1, BlockConfirms
<1>4. txs' \in Seq(Order) /\ Len(txs') = n /\ DOMAIN txs' = 1..n BY <1>1, BlockConfirms
<1>5. \A k \in 1..n : /\ txs'[k].last = txs[k].last /\ txs'[k].state # "processed"
                      /\ txs[k].state # "processed" => txs'[k].state = txs[k].state
  BY <1>1, BlockConfirms
<1>6. n \in Nat /\ \A k \in 1..n : txs[k] \in Order BY <1>1, AskedTx
<1>7. DeskType' BY <1>2, <1>3, <1>4 DEF DeskType
<1>8. ValidUntilNow' BY <1>4, <1>5 DEF ValidUntilNow
<1>9. PastItsHeight => PastItsHeight' /\ (tx.state \in {"sent", "failed"} => tx'.state \in {"sent", "failed"})
  <2> SUFFICES ASSUME PastItsHeight
               PROVE  PastItsHeight' /\ (tx.state \in {"sent", "failed"} => tx'.state \in {"sent", "failed"})
    OBVIOUS
  <2>1. n \in 1..n /\ tx = txs[n] BY <1>1, AskedTx DEF PastItsHeight
  <2>2. txs' # <<>> /\ tx' = txs'[n] BY <1>4, <1>6, <1>7, <2>1, AskedTxNext
  <2> HIDE DEF n
  <2>3. tx'.last = txs[n].last BY <1>5, <2>1, <2>2
  <2>4. txs[n].last \in Int BY <1>6, <2>1, OrderFields
  <2>5. height > txs[n].last BY <2>1 DEF PastItsHeight
  <2>6. height' > tx'.last
    <3> DEFINE last == txs[n].last
    <3>1. last \in Int /\ height > last BY <2>4, <2>5
    <3> HIDE DEF last
    <3>2. height' > last BY <1>2, <1>3, <3>1
    <3> QED BY <2>3, <3>2 DEF last
  <2>7. tx.state \in {"sent", "failed"} => tx'.state = tx.state BY <1>5, <2>1, <2>2
  <2> QED BY <2>2, <2>6, <2>7 DEF PastItsHeight
<1>10. txs # <<>> => txs' # <<>> BY <1>1, <1>4, <1>7, AskedTx, AskedTxNext
<1>11. AsksInTime' BY <1>1, <1>3, <1>9, <1>10 DEF AsksInTime
<1> QED BY <1>7, <1>8, <1>11 DEF DeskInv

LEMMA LandsKeeps ==
    ASSUME DeskInv, tx_lands
    PROVE  DeskInv'
<1> DEFINE n == Len(txs)
<1>1. DeskType /\ ValidUntilNow /\ AsksInTime BY DEF DeskInv
<1>2. n \in Nat /\ DOMAIN txs = 1..n /\ \A k \in 1..n : txs[k] \in Order BY <1>1, AskedTx
<1>3. PICK k \in DOMAIN txs, state \in {"processed", "failed"} :
        /\ height < txs[k].last
        /\ txs' = [txs EXCEPT ![k] = [txs[k] EXCEPT !.state = state]]
        /\ UNCHANGED <<height, desk, told>>
  BY DEF tx_lands, becomes, slotVars
<1>4. txs[k] \in Order BY <1>2
<1> DEFINE r == [txs[k] EXCEPT !.state = state]
<1>5. r \in Order /\ r.state = state /\ r.last = txs[k].last
  <2>1. state \in {"sent", "processed", "confirmed", "failed"} BY <1>3
  <2> QED BY <1>4, <2>1, OrderBecomes
<1> HIDE DEF r, n
<1>6. txs' = [txs EXCEPT ![k] = r] BY <1>3 DEF r
<1>7. txs \in Seq(Order) BY <1>1 DEF DeskType
<1>8. /\ txs' \in Seq(Order) /\ Len(txs') = n /\ DOMAIN txs' = 1..n
      /\ txs'[k] = r /\ \A j \in 1..n \ {k} : txs'[j] = txs[j]
  BY <1>2, <1>5, <1>6, <1>7 DEF n
<1>9. DeskType' BY <1>1, <1>3, <1>8 DEF DeskType
<1>10. ValidUntilNow' BY <1>1, <1>2, <1>3, <1>5, <1>8 DEF ValidUntilNow
<1>11. PastItsHeight => PastItsHeight' /\ tx' = tx
  <2> SUFFICES ASSUME PastItsHeight PROVE PastItsHeight' /\ tx' = tx OBVIOUS
  <2>1. n \in 1..n /\ tx = txs[n] BY <1>1, AskedTx DEF PastItsHeight, n
  <2>2. height > txs[n].last /\ txs[n].last \in Int /\ txs[k].last \in Int
    BY <1>2, <1>4, <2>1, OrderFields DEF PastItsHeight
  <2>3. height \in Nat BY <1>1 DEF DeskType
  <2>4. k # n BY <1>3, <2>2, <2>3
  <2>5. txs' # <<>> /\ tx' = txs'[n] BY <1>2, <1>8, <1>9, <2>1, AskedTxNext
  <2>6. tx' = tx BY <1>8, <2>1, <2>4, <2>5
  <2> QED BY <1>3, <2>5, <2>6 DEF PastItsHeight
<1>12. txs # <<>> => txs' # <<>> BY <1>1, <1>8, <1>9, AskedTx, AskedTxNext DEF n
<1>13. AsksInTime' BY <1>1, <1>3, <1>11, <1>12 DEF AsksInTime
<1> QED BY <1>9, <1>10, <1>13 DEF DeskInv

LEMMA OrderKeeps ==
    ASSUME DeskInv, order
    PROVE  DeskInv'
<1>1. DeskType /\ ValidUntilNow /\ AsksInTime BY DEF DeskInv
<1>2. CASE UNCHANGED <<height, txs, desk>> /\ told' = "refused"
  BY <1>1, <1>2 DEF DeskInv, DeskType, ValidUntilNow, AsksInTime, PastItsHeight, tx
<1>3. CASE \E o \in Orders :
             /\ txs' = Append(txs, [kind |-> o[1], arg |-> o[2], last |-> height + Validity, state |-> "sent"])
             /\ UNCHANGED height
             /\ (desk' = "polling" /\ UNCHANGED told) \/ (desk' = "idle" /\ told' = "unsent")
  <2>1. PICK o \in Orders :
             /\ txs' = Append(txs, [kind |-> o[1], arg |-> o[2], last |-> height + Validity, state |-> "sent"])
             /\ UNCHANGED height
             /\ (desk' = "polling" /\ UNCHANGED told) \/ (desk' = "idle" /\ told' = "unsent")
    BY <1>3
  <2> DEFINE e == [kind |-> o[1], arg |-> o[2], last |-> height + Validity, state |-> "sent"]
             n == Len(txs)
  <2>2. o[1] \in {"deposit", "request", "cancel", "complete", "restart"} /\ o[2] \in Amounts \cup Units \cup {0}
    BY DEF Orders
  <2>3. height + Validity \in Int
    <3>1. height \in Nat BY <1>1 DEF DeskType
    <3> QED BY <3>1, DeskAssumption
  <2>4. e \in Order /\ e.state = "sent" BY <2>2, <2>3 DEF Order
  <2> HIDE DEF e
  <2>5. txs' = Append(txs, e) /\ txs \in Seq(Order) BY <1>1, <2>1 DEF e, DeskType
  <2>6. /\ txs' \in Seq(Order) /\ txs' # <<>> /\ n \in Nat /\ DOMAIN txs = 1..n /\ DOMAIN txs' = 1..(n + 1)
        /\ txs'[n + 1] = e /\ \A k \in 1..n : txs'[k] = txs[k]
    BY <2>4, <2>5
  <2> HIDE DEF n
  <2>7. DeskType' BY <1>1, <2>1, <2>6 DEF DeskType
  <2>8. ValidUntilNow' BY <1>1, <2>1, <2>4, <2>6 DEF ValidUntilNow
  <2>9. AsksInTime' BY <2>1, <2>6 DEF AsksInTime
  <2> QED BY <2>7, <2>8, <2>9 DEF DeskInv
<1> QED BY <1>2, <1>3 DEF order, slotVars

LEMMA LookKeeps ==
    ASSUME DeskInv, last_look
    PROVE  DeskInv'
<1> DEFINE n == Len(txs)
<1>1. DeskType /\ ValidUntilNow /\ AsksInTime BY DEF DeskInv
<1>2. desk = "last_look" /\ UNCHANGED <<height, txs>> BY DEF last_look, slotVars
<1>3. PastItsHeight /\ PastItsHeight' /\ tx' = tx BY <1>1, <1>2 DEF AsksInTime, PastItsHeight, tx
<1>4. n \in 1..n /\ DOMAIN txs = 1..n /\ tx = txs[n] /\ txs[n] \in Order
  BY <1>1, <1>3, AskedTx DEF PastItsHeight
<1> HIDE DEF n
<1>5. tx.state # "processed"
  <2>1. txs[n].last \in Int BY <1>4, OrderFields
  <2>2. height \in Nat BY <1>1 DEF DeskType
  <2>3. height > txs[n].last BY <1>3, <1>4 DEF PastItsHeight
  <2>4. txs[n].state # "processed" BY <1>1, <1>4, <2>1, <2>2, <2>3 DEF ValidUntilNow
  <2> QED BY <1>4, <2>4
<1>6. tx.state # "confirmed" => tx.state \in {"sent", "failed"} BY <1>4, <1>5, OrderFields
<1>7. DeskType' /\ ValidUntilNow'
  BY <1>1, <1>2 DEF DeskType, ValidUntilNow, last_look, tells, goes_on
<1>8. AsksInTime' BY <1>2, <1>3, <1>6 DEF last_look, tells, goes_on, AsksInTime, PastItsHeight
<1> QED BY <1>7, <1>8 DEF DeskInv

LEMMA DeskNextInv == DeskInv /\ [DeskNext]_deskVars => DeskInv'
<1> SUFFICES ASSUME DeskInv, [DeskNext]_deskVars PROVE DeskInv' OBVIOUS
<1>1. CASE UNCHANGED deskVars \/ skip_slot \/ others_move \/ crank_completes
  BY <1>1, DeskQuiet DEF deskVars, skip_slot, others_move, crank_completes, slotVars
<1>2. CASE next_block BY <1>2, BlockKeeps
<1>3. CASE tx_lands BY <1>3, LandsKeeps
<1>4. CASE order BY <1>4, OrderKeeps
<1>5. CASE poll_status \/ poll_height \/ deadline
  BY <1>5 DEF poll_status, poll_height, deadline, height_read, tells, goes_on,
              slotVars, DeskInv, DeskType, ValidUntilNow, AsksInTime, PastItsHeight, tx
<1>6. CASE last_look BY <1>6, LookKeeps
<1> QED BY <1>1, <1>2, <1>3, <1>4, <1>5, <1>6 DEF DeskNext

\* An order the panel calls expired has not been executed and never will be, for
\* any blocks, skipped slots, failed polls and late looks (lib/confirm.ts).
THEOREM ExpiredStaysOut == DeskSpec => []ExpiredNeverLands
<1>1. DeskInv => ExpiredNeverLands BY DEF DeskInv, AsksInTime, ExpiredNeverLands
<1>2. DeskInv /\ [DeskNext]_deskVars => DeskInv' BY DeskNextInv
<1> QED BY <1>1, <1>2, DeskInitInv, PTL DEF DeskSpec

\* The user's units are among those of the vault, and the pending ones among
\* the vault's pending ones.
Pool == [assets : Nat, total : Nat, house : Nat, outstanding : Nat, pending : Nat]

Position == [units : Nat, pending : Nat, unlock : Nat]

BooksHold(p, q) ==
    /\ p \in Pool /\ q \in Position
    /\ q.units + q.pending <= p.total /\ q.pending <= p.pending

Books == BooksHold(pool, pos) /\ skipped \in Nat

LEMMA BooksParts ==
    ASSUME Books
    PROVE  /\ pool.assets \in Nat /\ pool.total \in Nat /\ pool.house \in Nat
           /\ pool.outstanding \in Nat /\ pool.pending \in Nat
           /\ pos.units \in Nat /\ pos.pending \in Nat /\ pos.unlock \in Nat
           /\ pos.units + pos.pending <= pool.total /\ pos.pending <= pool.pending
BY DEF Books, BooksHold, Pool, Position

\* A vault of others, with the user's units on top.
LEMMA WithPositionHolds ==
    ASSUME NEW p \in Pools, NEW q \in Position
    PROVE  BooksHold(with_position(p, q), q)
<1>1. p \in Pool BY DeskAssumption DEF Pool
<1>2. q.units \in Nat /\ q.pending \in Nat /\ p.total \in Nat /\ p.pending \in Nat BY <1>1 DEF Pool, Position
<1> DEFINE t == p.total + q.units + q.pending
           w == p.pending + q.pending
<1>3. t \in Nat /\ w \in Nat /\ q.units + q.pending <= t /\ q.pending <= w BY <1>2
<1>4. with_position(p, q) = [p EXCEPT !.total = t, !.pending = w] BY DEF with_position
<1> HIDE DEF t, w
<1>5. /\ with_position(p, q) \in Pool
      /\ with_position(p, q).total = t /\ with_position(p, q).pending = w
  BY <1>1, <1>3, <1>4 DEF Pool
<1> QED BY <1>3, <1>5 DEF BooksHold

LEMMA InitBooks == DeskInit => Books
<1> SUFFICES ASSUME DeskInit PROVE Books OBVIOUS
<1>1. pos \in Position BY DeskAssumption DEF DeskInit, Position
<1>2. PICK p \in Pools : pool = with_position(p, pos) BY DEF DeskInit
<1>3. skipped \in Nat BY DEF DeskInit
<1> QED BY <1>1, <1>2, <1>3, WithPositionHolds DEF Books

LEMMA DepositBooks ==
    ASSUME Books, NEW amount \in Nat, pool.total > 0 => pool.assets > 0,
           applies("deposit", amount)
    PROVE  BooksHold(pool, pos)'
<1> DEFINE minted == deposit_to_units(amount, pool.assets, pool.total)
<1>1. pos' = [pos EXCEPT !.units = @ + minted] /\ pool' = deposited(pool, amount, minted)
  BY DEF applies
<1>2. minted \in Nat
  <2>1. CASE pool.total = 0 BY <2>1 DEF deposit_to_units
  <2>2. CASE pool.total # 0
    <3>1. pool.assets \in Nat \ {0} /\ pool.total \in Nat BY <2>2, BooksParts
    <3>2. mul_div_floor(amount, pool.total, pool.assets) \in Nat BY <3>1, MulDivNat
    <3> QED BY <2>2, <3>2 DEF deposit_to_units
  <2> QED BY <2>1, <2>2
<1> HIDE DEF minted
<1>3. pos' = [pos EXCEPT !.units = @ + minted] /\ pool' = [pool EXCEPT !.assets = @ + amount, !.total = @ + minted]
  BY <1>1 DEF deposited
<1>4. pool \in Pool /\ pos \in Position BY DEF Books, BooksHold
<1> DEFINE assets == pool.assets + amount
           total == pool.total + minted
           units == pos.units + minted
<1>5. /\ pool' \in Pool /\ pool'.total = pool.total + minted /\ pool'.pending = pool.pending
      /\ pos' \in Position /\ pos'.units = pos.units + minted /\ pos'.pending = pos.pending
  <2>1. assets \in Nat /\ total \in Nat /\ units \in Nat BY <1>2, BooksParts
  <2>2. pool' = [pool EXCEPT !.assets = assets, !.total = total] /\ pos' = [pos EXCEPT !.units = units]
    BY <1>3
  <2> HIDE DEF assets, total, units
  <2>3. pool' \in Pool /\ pool'.total = total /\ pool'.pending = pool.pending
    BY <1>4, <2>1, <2>2 DEF Pool
  <2>4. pos' \in Position /\ pos'.units = units /\ pos'.pending = pos.pending
    BY <1>4, <2>1, <2>2 DEF Position
  <2> QED BY <2>3, <2>4 DEF total, units
<1>6. pos'.units + pos'.pending <= pool'.total /\ pos'.pending <= pool'.pending
  BY <1>2, <1>5, BooksParts
<1> QED BY <1>5, <1>6 DEF BooksHold

LEMMA RequestBooks ==
    ASSUME Books, height \in Nat, NEW units \in Nat, NEW held \in Nat, units <= held,
           held <= pos.units + pos.pending, requested(units, held)
    PROVE  BooksHold(pool, pos)'
<1> DEFINE due == slot_now + WITHDRAW_COOLDOWN_SLOTS
           left == held - units
           all == pool.pending - pos.pending + units
<1>1. due \in Nat
  <2>1. skipped \in Nat /\ WITHDRAW_COOLDOWN_SLOTS \in Nat BY DeskAssumption DEF Books
  <2> QED BY <2>1 DEF slot_now
<1>2. left \in Nat /\ all \in Nat /\ left + units <= pool.total /\ units <= all BY BooksParts
<1>3. pos' = [units |-> left, pending |-> units, unlock |-> due] /\ pool' = [pool EXCEPT !.pending = all]
  BY DEF requested
<1> HIDE DEF due, left, all
<1>4. pool \in Pool BY DEF Books, BooksHold
<1>5. /\ pool' \in Pool /\ pool'.total = pool.total /\ pool'.pending = all
      /\ pos' \in Position /\ pos'.units = left /\ pos'.pending = units
  BY <1>1, <1>2, <1>3, <1>4 DEF Pool, Position
<1> QED BY <1>2, <1>5 DEF BooksHold

LEMMA CancelBooks ==
    ASSUME Books, applies("cancel", 0)
    PROVE  BooksHold(pool, pos)'
<1> DEFINE all == pool.pending - pos.pending
           sum == pos.units + pos.pending
<1>1. all \in Nat /\ sum \in Nat /\ sum + 0 <= pool.total BY BooksParts
<1>2. pos' = [units |-> sum, pending |-> 0, unlock |-> 0] /\ pool' = [pool EXCEPT !.pending = all]
  BY DEF applies
<1> HIDE DEF all, sum
<1>3. pool \in Pool BY DEF Books, BooksHold
<1>4. /\ pool' \in Pool /\ pool'.total = pool.total /\ pool'.pending = all
      /\ pos' \in Position /\ pos'.units = sum /\ pos'.pending = 0
  BY <1>1, <1>2, <1>3 DEF Pool, Position
<1> QED BY <1>1, <1>4 DEF BooksHold

LEMMA CompleteBooks ==
    ASSUME Books, completed
    PROVE  BooksHold(pool, pos)'
<1> DEFINE value == units_to_assets(pos.pending, pool.assets, pool.total)
           held == pool.assets - value
           total == pool.total - pos.pending
           all == pool.pending - pos.pending
<1>1. pos.pending <= pool.total BY BooksParts
<1>2. value \in Nat /\ value <= pool.assets BY <1>1, BooksParts, UnitsToAssetsNat, ShareBound
<1>3. held \in Nat /\ total \in Nat /\ all \in Nat /\ pos.units + 0 <= total
  <2> HIDE DEF value
  <2> QED BY <1>1, <1>2, BooksParts
<1>4. /\ pos' = [pos EXCEPT !.pending = 0, !.unlock = 0]
      /\ pool' = [pool EXCEPT !.assets = held, !.total = total, !.pending = all]
  BY DEF completed
<1> HIDE DEF value, held, total, all
<1>5. pool \in Pool /\ pos \in Position BY DEF Books, BooksHold
<1>6. /\ pool' \in Pool /\ pool'.total = total /\ pool'.pending = all
      /\ pos' \in Position /\ pos'.units = pos.units /\ pos'.pending = 0
  BY <1>3, <1>4, <1>5 DEF Pool, Position
<1> QED BY <1>3, <1>6 DEF BooksHold

\* Whatever lands keeps them.
LEMMA LandsBooks ==
    ASSUME DeskType, Books, tx_lands
    PROVE  Books'
<1>1. PICK k \in DOMAIN txs :
        IF passes(txs[k].kind, txs[k].arg) THEN applies(txs[k].kind, txs[k].arg) ELSE UNCHANGED <<pool, pos>>
  BY DEF tx_lands
<1>2. UNCHANGED skipped BY DEF tx_lands, slotVars
<1>3. txs[k] \in Order BY AskedTx
<1> DEFINE kind == txs[k].kind
           arg == txs[k].arg
<1>4. kind \in {"deposit", "request", "cancel", "complete", "restart"} /\ arg \in Nat
  <2>1. Amounts \cup Units \cup {0} \subseteq Nat BY DeskAssumption
  <2> QED BY <1>3, <2>1 DEF Order
<1>5. height \in Nat BY DEF DeskType
<1> HIDE DEF kind, arg
<1>6. BooksHold(pool, pos)'
  <2>1. CASE UNCHANGED <<pool, pos>> BY <2>1 DEF Books, BooksHold
  <2>2. CASE passes(kind, arg) /\ applies(kind, arg)
    <3>1. CASE kind = "deposit"
      <4>1. pool.total > 0 => pool.assets > 0 BY <2>2, <3>1 DEF passes, deposit_passes
      <4> QED BY <1>4, <2>2, <3>1, <4>1, DepositBooks
    <3>2. CASE kind = "request"
      <4>1. arg <= pos.units /\ requested(arg, pos.units)
        BY <2>2, <3>2 DEF passes, request_passes, applies
      <4> QED BY <1>4, <1>5, <4>1, BooksParts, RequestBooks
    <3>3. CASE kind = "cancel"
      <4>1. applies("cancel", 0) BY <2>2, <3>3 DEF applies
      <4> QED BY <4>1, CancelBooks
    <3>4. CASE kind = "complete"
      <4>1. completed BY <2>2, <3>4 DEF applies
      <4> QED BY <4>1, CompleteBooks
    <3>5. CASE kind = "restart"
      <4>1. arg <= pos.units + pos.pending /\ requested(arg, pos.units + pos.pending)
        BY <2>2, <3>5 DEF passes, applies
      <4> QED BY <1>4, <1>5, <4>1, BooksParts, RequestBooks
    <3> QED BY <1>4, <3>1, <3>2, <3>3, <3>4, <3>5
  <2> QED BY <1>1, <2>1, <2>2 DEF kind, arg
<1> QED BY <1>2, <1>6 DEF Books

LEMMA NextBooks == DeskInv /\ Books /\ [DeskNext]_deskVars => Books'
<1> SUFFICES ASSUME DeskInv, Books, [DeskNext]_deskVars PROVE Books' OBVIOUS
<1>1. DeskType BY DEF DeskInv
<1>2. CASE UNCHANGED <<pool, pos, skipped>> BY <1>2 DEF Books, BooksHold
<1>3. CASE skip_slot BY <1>3 DEF skip_slot, Books, BooksHold
<1>4. CASE tx_lands BY <1>1, <1>4, LandsBooks
<1>5. CASE others_move
  <2>1. PICK p \in Pools : pool' = with_position(p, pos) BY <1>5 DEF others_move
  <2>2. UNCHANGED <<pos, skipped>> /\ pos \in Position BY <1>5 DEF others_move, slotVars, Books, BooksHold
  <2> QED BY <2>1, <2>2, WithPositionHolds DEF Books
<1>6. CASE crank_completes
  <2>1. completed /\ UNCHANGED skipped BY <1>6 DEF crank_completes, slotVars
  <2> QED BY <2>1, CompleteBooks DEF Books
<1>7. UNCHANGED deskVars \/ next_block \/ order \/ poll_status \/ poll_height \/ last_look \/ deadline
         => UNCHANGED <<pool, pos, skipped>>
  BY DEF deskVars, next_block, order, poll_status, poll_height, last_look, deadline, slotVars
<1> QED BY <1>2, <1>3, <1>4, <1>5, <1>6, <1>7 DEF DeskNext

\* The program takes what the route lets through of what the panel offers.
LEMMA CapKept ==
    ASSUME Books, NEW amount \in Nat, route_accepts(amount), priced(pool), owed_alike(pool, amount)
    PROVE  LET minted == deposit_to_units(amount, pool.assets, pool.total)
               after  == deposited(pool, amount, minted)
               value  == units_to_assets(pos.units + minted + pos.pending, after.assets, after.total)
           IN  /\ minted \in Nat \ {0}
               /\ enforce_user_position_cap(value, after.assets, health_of(after), MaxUserPositionBps)
<1> USE BpsAssumption
<1> DEFINE A == pool.assets
           T == pool.total
           u == pos.units + pos.pending
           m == mul_div_floor(amount, T, A)
           after == deposited(pool, amount, m)
           max == MaxUserPositionBps
           hb == calc_health_bps(A, pool.outstanding, pool.pending, T)
           ha == calc_health_bps(A + amount, pool.outstanding, pool.pending, T + m)
           was == units_to_assets(u, A, T)
           is == units_to_assets(u + m, A + amount, T + m)
<1>1. /\ A \in Nat \ {0} /\ T \in Nat \ {0} /\ u \in Nat /\ u <= T
      /\ pos.units \in Nat /\ pos.pending \in Nat /\ pool.outstanding \in Nat /\ pool.pending \in Nat
  BY BooksParts DEF priced
<1>2. max \in Nat BY DeskAssumption
<1>3. deposit_to_units(amount, A, T) = m BY <1>1 DEF deposit_to_units
<1>4. m \in Nat BY <1>1, MulDivNat
<1>5. m # 0
  <2>1. A <= MinLpDeposit * T /\ MinLpDeposit <= amount /\ MinLpDeposit \in Nat
    BY DeskAssumption DEF priced, route_accepts
  <2> HIDE DEF A, T
  <2>2. MinLpDeposit * T <= amount * T BY <1>1, <2>1, TimesMonotone
  <2>3. MinLpDeposit * T \in Nat /\ amount * T \in Nat /\ 1 * A = A BY <1>1, <2>1
  <2>4. 1 * A <= amount * T BY <1>1, <2>1, <2>2, <2>3
  <2>5. 1 <= m BY <1>1, <2>4, MulDivFloor
  <2> QED BY <1>4, <2>5
<1> HIDE DEF m
<1>6. after.assets = A + amount /\ after.total = T + m /\ after.outstanding = pool.outstanding
      /\ after.pending = pool.pending
  <2>1. pool \in Pool BY DEF Books, BooksHold
  <2> QED BY <2>1 DEF deposited, Pool
<1>7. health_of(after) = ha /\ health_of(pool) = hb BY <1>6 DEF health_of
<1>8. owed(after) * A <= owed(pool) * after.assets BY <1>3 DEF owed_alike
<1> HIDE DEF after
<1>9. (pool.outstanding + units_to_assets(pool.pending, A + amount, T + m)) * A
         <= (pool.outstanding + units_to_assets(pool.pending, A, T)) * (A + amount)
  BY <1>6, <1>8 DEF owed
<1> DEFINE out == pool.outstanding
           pend == pool.pending
<1>10. A + amount \in Nat \ {0} /\ T + m \in Nat /\ out \in Nat /\ pend \in Nat BY <1>1, <1>4
<1>11. hb <= ha
  <2>1. (out + units_to_assets(pend, A + amount, T + m)) * A
           <= (out + units_to_assets(pend, A, T)) * (A + amount)
    BY <1>9
  <2> DEFINE b == A + amount
             s == T + m
  <2>2. b \in Nat \ {0} /\ s \in Nat /\ T \in Nat BY <1>1, <1>10
  <2> HIDE DEF out, pend, A, T, b, s
  <2>3. (out + units_to_assets(pend, b, s)) * A <= (out + units_to_assets(pend, A, T)) * b BY <2>1 DEF b, s
  <2>4. calc_health_bps(A, out, pend, T) <= calc_health_bps(b, out, pend, s)
    BY <1>1, <1>10, <2>2, <2>3, HealthMonotone
  <2> QED BY <2>4 DEF b, s, out, pend
<1>12. is <= was + amount
  <2> HIDE DEF A, T, u
  <2> QED BY <1>1, PositionGrows DEF m
<1>13. was + amount <= position_cap(pool) BY DEF route_accepts
<1>14. hb \in Nat /\ ha \in Nat
  <2> HIDE DEF A, T
  <2> QED BY <1>1, <1>10, HealthIsFree
<1>15. was \in Nat /\ is \in Nat
  <2>1. u + m \in Nat BY <1>1, <1>4
  <2> HIDE DEF A, T, u
  <2> QED BY <1>1, <1>10, <2>1, UnitsToAssetsNat
<1>16. pos.units + m + pos.pending = u + m BY <1>1, <1>4
<1>17. enforce_user_position_cap(is, A + amount, ha, max)
  <2>1. CASE max = 0 BY <2>1 DEF enforce_user_position_cap
  <2>2. CASE max # 0
    <3> DEFINE cb == mul_div_floor(A, max, BPS)
               ca == mul_div_floor(A + amount, max, BPS)
    <3>1. position_cap(pool) = mul_div_floor(cb, hb, BPS) BY <1>7, <2>2 DEF position_cap
    <3>2. A + amount \in Nat /\ A \in Nat /\ A <= A + amount /\ max <= max BY <1>1, <1>2
    <3> DEFINE b == A + amount
    <3> HIDE DEF A, b, max, ha, hb, is, was
    <3>3. A <= b /\ A \in Nat /\ b \in Nat /\ max <= max BY <3>2 DEF b
    <3>4. mul_div_floor(A, max, BPS) <= mul_div_floor(b, max, BPS) BY <1>2, <3>3, FloorGrows
    <3>5. mul_div_floor(A, max, BPS) \in Nat /\ mul_div_floor(b, max, BPS) \in Nat BY <1>2, <3>3, MulDivNat
    <3>6. cb <= ca /\ cb \in Nat /\ ca \in Nat BY <3>4, <3>5 DEF b
    <3> HIDE DEF cb, ca
    <3>7. mul_div_floor(cb, hb, BPS) <= mul_div_floor(ca, ha, BPS) BY <1>11, <1>14, <3>6, FloorGrows
    <3>8. mul_div_floor(cb, hb, BPS) \in Nat /\ mul_div_floor(ca, ha, BPS) \in Nat BY <1>14, <3>6, MulDivNat
    <3>9. is <= mul_div_floor(ca, ha, BPS) BY <1>12, <1>13, <1>15, <3>1, <3>7, <3>8
    <3> QED BY <3>9 DEF enforce_user_position_cap, ca
  <2> QED BY <2>1, <2>2
<1> HIDE DEF ha, hb, is, was
<1>18. /\ deposited(pool, amount, deposit_to_units(amount, pool.assets, pool.total)) = after
       /\ deposit_to_units(amount, pool.assets, pool.total) = m
  BY <1>3 DEF after
<1> QED
  <2>1. units_to_assets(pos.units + m + pos.pending, after.assets, after.total) = is
    BY <1>6, <1>16 DEF is
  <2> QED BY <1>4, <1>5, <1>6, <1>7, <1>17, <1>18, <2>1

\* A deposit within what the house's share leaves room for keeps that share.
LEMMA FloorKept ==
    ASSUME Books, NEW amount \in Nat \ {0}, amount <= maxDepositLamports(pool), priced(pool)
    PROVE  LET minted == deposit_to_units(amount, pool.assets, pool.total)
           IN  enforce_house_floor(pool.house, user_units(deposited(pool, amount, minted)), MinHouseShareBps)
<1> USE BpsAssumption
<1> DEFINE A == pool.assets
           T == pool.total
           m == mul_div_floor(amount, T, A)
           min == MinHouseShareBps
           house == pool.house
           users == user_units(pool)
           room == house_room(pool)
           cap == position_cap(pool)
           by_floor == IF room <= 0 THEN 0 ELSE amount_for(pool, room)
<1>1. A \in Nat \ {0} /\ T \in Nat \ {0} /\ house \in Nat BY BooksParts DEF priced
<1>2. min \in 0..BPS BY DeskAssumption
<1>3. m \in Nat /\ deposit_to_units(amount, A, T) = m
  <2>1. m \in Nat BY <1>1, MulDivNat
  <2> QED BY <1>1, <2>1 DEF deposit_to_units
<1>4. users \in Int BY <1>1, DeskAssumption DEF user_units
<1> HIDE DEF m
<1>5. user_units(deposited(pool, amount, m)) = users + m
  <2>1. pool \in Pool BY DEF Books, BooksHold
  <2>2. /\ deposited(pool, amount, m).total = T + m
        /\ deposited(pool, amount, m).house = house
    BY <2>1 DEF deposited, Pool
  <2>3. SeedUnits \in Nat /\ HousePending \in Nat BY DeskAssumption
  <2> QED BY <1>1, <1>3, <2>2, <2>3 DEF user_units
<1> SUFFICES enforce_house_floor(house, users + m, min) BY <1>3, <1>5
<1>6. CASE min = 0 BY <1>6 DEF enforce_house_floor
<1>7. CASE min # 0
  <2>1. min \in Nat \ {0} /\ BPS - min \in Nat /\ min > 0 BY <1>2, <1>7
  <2> DEFINE q == mul_div_floor(house, BPS - min, min)
  <2>2. q \in Nat /\ q * min <= house * (BPS - min) BY <1>1, <2>1, MulDivNat, MulDivFloor
  <2>3. room = q - users BY DEF house_room, mul_div_floor
  <2>4. amount <= min2(cap, by_floor)
    <3>1. maxDepositLamports(pool) = IF min2(cap, by_floor) < MinLpDeposit THEN 0 ELSE min2(cap, by_floor)
      BY <1>1, <2>1 DEF maxDepositLamports
    <3> HIDE DEF cap, by_floor
    <3> QED BY <3>1
  <2> HIDE DEF q
  <2>5. room \in Int BY <1>4, <2>2, <2>3
  <2>6. cap \in Nat
    <3>1. health_of(pool) \in Nat
      BY BooksParts, HealthIsFree DEF health_of
    <3>2. POSITION_CAP_DISABLED_SENTINEL \in Nat /\ MaxUserPositionBps \in Nat BY DeskAssumption
    <3>3. mul_div_floor(A, MaxUserPositionBps, BPS) \in Nat BY <1>1, <3>2, MulDivNat
    <3>4. mul_div_floor(mul_div_floor(A, MaxUserPositionBps, BPS), health_of(pool), BPS) \in Nat
      BY <3>1, <3>3, MulDivNat
    <3> QED BY <3>2, <3>4 DEF position_cap
  <2> HIDE DEF cap, room
  <2>7. room > 0 => amount_for(pool, room) \in Nat /\ amount_for(pool, room) * T <= (room + 1) * A - 1
    <3> HAVE room > 0
    <3> DEFINE n == (room + 1) * A - 1
               d == mul_div_floor(n, 1, T)
    <3>1. n \in Nat
      <4>1. room + 1 \in Nat \ {0} BY <2>5
      <4>2. (room + 1) * A \in Nat \ {0} BY <1>1, <4>1
      <4> QED BY <4>2
    <3>2. amount_for(pool, room) = n \div T BY DEF amount_for
    <3> HIDE DEF n
    <3>3. d \in Nat /\ d * T <= n * 1
      <4>1. 1 \in Nat /\ T \in Nat \ {0} BY <1>1
      <4> HIDE DEF T
      <4> QED BY <3>1, <4>1, MulDivNat, MulDivFloor
    <3>4. n * 1 = n BY <3>1
    <3>5. d = n \div T BY <3>4 DEF mul_div_floor
    <3> HIDE DEF d
    <3> QED BY <3>2, <3>3, <3>4, <3>5 DEF n
  <2>8. room > 0 /\ amount <= amount_for(pool, room)
    <3>1. CASE room > 0
      <4>1. by_floor = amount_for(pool, room) BY <2>5, <3>1
      <4> HIDE DEF by_floor
      <4> QED BY <2>4, <2>6, <2>7, <3>1, <4>1 DEF min2
    <3>2. CASE ~(room > 0)
      <4>1. by_floor = 0 BY <2>5, <3>2
      <4> HIDE DEF by_floor
      <4> QED BY <2>4, <2>6, <4>1 DEF min2
    <3> QED BY <3>1, <3>2
  <2>9. m <= room
    <3> HIDE DEF A, T
    <3>1. room \in Nat BY <2>5, <2>8
    <3> DEFINE most == amount_for(pool, room)
    <3>2. most \in Nat /\ amount <= most /\ most * T <= (room + 1) * A - 1 BY <2>7, <2>8
    <3> HIDE DEF most
    <3>3. amount * T <= most * T BY <1>1, <3>2, TimesMonotone
    <3>4. amount * T \in Nat /\ most * T \in Nat /\ (room + 1) * A \in Nat BY <1>1, <3>1, <3>2
    <3>5. amount * T < (room + 1) * A BY <3>2, <3>3, <3>4
    <3> QED BY <1>1, <3>1, <3>5, MintedWithin DEF m
  <2>10. (users + m) * min <= house * (BPS - min)
    <3> HIDE DEF users, house, min
    <3>1. q - (users + m) \in Nat BY <1>3, <1>4, <2>2, <2>3, <2>5, <2>9
    <3>2. (q - (users + m)) * min \in Nat BY <2>1, <3>1
    <3>3. (q - (users + m)) * min = q * min - (users + m) * min BY <1>3, <1>4, <2>1, <2>2
    <3>4. (users + m) * min \in Int /\ q * min \in Int /\ house * (BPS - min) \in Int
      BY <1>1, <1>3, <1>4, <2>1, <2>2
    <3> QED BY <2>2, <3>2, <3>3, <3>4
  <2>11. house * BPS >= min * (house + (users + m))
    <3> HIDE DEF users, house, min
    <3> DEFINE w == users + m
    <3>1. w \in Int /\ w * min <= house * (BPS - min) BY <1>3, <1>4, <2>10
    <3> HIDE DEF w
    <3>2. house * (BPS - min) = house * BPS - house * min /\ min * (house + w) = house * min + w * min
      BY <1>1, <2>1, <3>1
    <3>3. house * BPS \in Int /\ house * min \in Int /\ w * min \in Int BY <1>1, <2>1, <3>1
    <3> QED BY <3>1, <3>2, <3>3 DEF w
  <2> QED BY <2>11 DEF enforce_house_floor
<1> QED BY <1>6, <1>7

\* What the panel offers on readings of the moment, and the route lets through,
\* the program accepts: for any vault, position, house floor, position cap and
\* health, but for deposits too small to buy a unit and those that a rounding of
\* what is owed puts over the cap (lp-panel.tsx, vault-math.ts).
THEOREM OffersStayGood == DeskSpec => []OfferedPasses
<1>1. DeskType /\ Books => OfferedPasses
  <2> SUFFICES ASSUME DeskType, Books, NEW o \in offers(pool, pos, slot_now),
                      o[1] = "deposit" => route_accepts(o[2]) /\ priced(pool) /\ owed_alike(pool, o[2])
               PROVE  passes(o[1], o[2])
    BY DEF OfferedPasses
  <2>1. ASSUME NEW a \in Amounts, a <= maxDepositLamports(pool), o = <<"deposit", a>>
        PROVE  passes(o[1], o[2])
    <3>1. o[1] = "deposit" /\ o[2] = a BY <2>1
    <3>2. route_accepts(a) /\ priced(pool) /\ owed_alike(pool, a) BY <3>1
    <3>3. a \in Nat /\ MinLpDeposit \in Nat BY DeskAssumption
    <3>4. a >= MinLpDeposit /\ pool.assets > 0 BY <3>2 DEF route_accepts, priced
    <3>5. a # 0
      <4> SUFFICES ASSUME a = 0 PROVE FALSE OBVIOUS
      <4>1. MinLpDeposit = 0 BY <3>3, <3>4
      <4>2. pool.assets <= 0 * pool.total /\ pool.total \in Nat BY <3>2, <4>1, BooksParts DEF priced
      <4>3. 0 * pool.total = 0 /\ pool.assets \in Nat BY <4>2, BooksParts
      <4> QED BY <3>4, <4>2, <4>3
    <3> DEFINE minted == deposit_to_units(a, pool.assets, pool.total)
               after == deposited(pool, a, minted)
               value == units_to_assets(pos.units + minted + pos.pending, after.assets, after.total)
    <3>6. /\ minted \in Nat \ {0}
          /\ enforce_user_position_cap(value, after.assets, health_of(after), MaxUserPositionBps)
      BY <3>2, <3>3, CapKept
    <3>7. enforce_house_floor(pool.house, user_units(after), MinHouseShareBps)
      BY <2>1, <3>2, <3>3, <3>5, FloorKept
    <3>8. minted > 0
      <4> HIDE DEF minted
      <4> QED BY <3>6
    <3>9. deposit_passes(pool, pos, a)
      BY <3>4, <3>6, <3>7, <3>8 DEF deposit_passes
    <3> QED BY <3>1, <3>9 DEF passes
  <2>2. ASSUME pos.pending = 0, NEW units \in 1..pos.units, o = <<"request", units>>
        PROVE  passes(o[1], o[2])
    <3>1. units > 0 /\ units <= pos.units BY BooksParts
    <3> QED BY <2>2, <3>1 DEF passes, request_passes
  <2>3. ASSUME pos.pending > 0, o = <<"cancel", 0>> PROVE passes(o[1], o[2])
    BY <2>3 DEF passes
  <2>4. ASSUME cooldownReady(pos, slot_now), o = <<"complete", 0>> PROVE passes(o[1], o[2])
    <3>1. slot_now \in Nat /\ WITHDRAW_CLAIM_WINDOW_SLOTS \in Nat
      BY DeskAssumption DEF slot_now, Books, DeskType
    <3>2. complete_passes(pos, slot_now)
      BY <2>4, <3>1, BooksParts DEF cooldownReady, matured, withdrawExpired, complete_passes
    <3> QED BY <2>4, <3>2 DEF passes
  <2>5. ASSUME withdrawExpired(pos, slot_now), o = <<"restart", pos.pending>> PROVE passes(o[1], o[2])
    <3>1. pos.pending > 0 /\ pos.pending <= pos.units + pos.pending BY <2>5, BooksParts DEF withdrawExpired
    <3> QED BY <2>5, <3>1 DEF passes
  <2> QED BY <2>1, <2>2, <2>3, <2>4, <2>5 DEF offers
<1>2. DeskInv /\ Books /\ [DeskNext]_deskVars => (DeskInv /\ Books)' BY DeskNextInv, NextBooks
<1>3. DeskInv => DeskType BY DEF DeskInv
<1> QED BY <1>1, <1>2, <1>3, DeskInitInv, InitBooks, PTL DEF DeskSpec

-----------------------------------------------------------------------------
(* RpcProxy: the account of a connection *)

RelayCall == [method : WS_ALLOWED_METHODS \cup {"sendTransaction"}, id : Ids \cup {NoId}, sub : Nat]

Message == [id : Ids \cup {NoId}, ok : BOOLEAN, sub : Nat, final : BOOLEAN]

Memory == UNION {[D -> RelayCall] : D \in SUBSET Ids}
Kept == Seq(Seq(RelayCall))
OnTheWay == Seq(Message)
Carried == SUBSET [sub : Nat, signature : BOOLEAN]

Connection == [client : {"open", "closed"}, upstream : {"connecting", "open", "closed"}, closed : BOOLEAN,
               pending : Kept, inflight : Memory,
               subs : SUBSET Nat, pendingSubs : Nat, tokens : Int]

Upstream == [asked : SUBSET RelayCall, answers : OnTheWay, live : Carried, issued : Nat]

ConnType == conn \in Connection
PaidType == paid \in Upstream

\* Both sockets end together, with what the upstream carried, and the upstream has what
\* it was sent once it is open.
SocketsAgree ==
    /\ IF conn.closed
       THEN conn.client = "closed" /\ conn.upstream = "closed" /\ paid.asked = {} /\ paid.live = {}
       ELSE conn.client = "open" /\ conn.upstream \in {"connecting", "open"}
    /\ conn.upstream = "connecting" => paid.asked = {}
    /\ conn.upstream = "open" => conn.pending = <<>>

\* Calls the upstream has, or will have once it is open.
waiting == paid.asked \cup UNION {ToSet(frame) : frame \in ToSet(conn.pending)}

\* Calls under way are remembered by their ids.
Remembered ==
    \A i \in DOMAIN conn.inflight :
       /\ conn.inflight[i].id = i
       /\ conn.inflight[i].method = "unsubscribe" => conn.inflight[i].sub <= paid.issued

\* What the account counts.
subscribing_ids == {i \in DOMAIN conn.inflight : conn.inflight[i].method \in Subscribes}

Counted ==
    /\ IsFiniteSet(DOMAIN conn.inflight) /\ IsFiniteSet(conn.subs)
    /\ conn.pendingSubs = Cardinality(subscribing_ids)
    /\ Cardinality(conn.subs) + conn.pendingSubs <= RPC_MAX_SUBSCRIPTIONS

\* A waiting call with an id is under way and has no answer.
WaitingKnown ==
    \A c \in waiting :
       /\ c.method \in Subscribes => c.id # NoId
       /\ c.id # NoId => /\ c.id \in DOMAIN conn.inflight /\ conn.inflight[c.id] = c
                         /\ \A k \in DOMAIN paid.answers : paid.answers[k].id # c.id

\* An answer is to a call under way, and the only one to it.
AnswersMatch ==
    \A k \in DOMAIN paid.answers : paid.answers[k].id # NoId =>
       /\ paid.answers[k].id \in DOMAIN conn.inflight
       /\ \A j \in DOMAIN paid.answers : paid.answers[j].id = paid.answers[k].id => j = k

\* The k-th message says that a subscription is carried.
says(k) == /\ paid.answers[k].id # NoId /\ paid.answers[k].ok
            /\ conn.inflight[paid.answers[k].id].method \in Subscribes

\* What is carried is on the account, or the answer that puts it there is on its way.
LiveKnown ==
    \A l \in paid.live :
       /\ l.sub <= paid.issued
       /\ \A m \in paid.live : m.sub = l.sub => m = l
       /\ l.sub \in conn.subs \/ \E k \in DOMAIN paid.answers : says(k) /\ paid.answers[k].sub = l.sub

\* What the k-th message takes off the account.
taken_off(k) ==
    IF paid.answers[k].id = NoId
    THEN IF paid.answers[k].final THEN {paid.answers[k].sub} ELSE {}
    ELSE IF paid.answers[k].ok /\ conn.inflight[paid.answers[k].id].method = "unsubscribe"
         THEN {conn.inflight[paid.answers[k].id].sub} ELSE {}

\* A message takes off the account what is no longer carried, and never will be.
EndedStaysEnded ==
    \A k \in DOMAIN paid.answers : \A s \in taken_off(k) :
       s <= paid.issued /\ \A l \in paid.live : l.sub # s

AccountInv ==
    Remembered /\ Counted /\ WaitingKnown /\ AnswersMatch /\ LiveKnown /\ EndedStaysEnded

ProxyInv == ConnType /\ PaidType /\ SocketsAgree /\ (Open => AccountInv)

-----------------------------------------------------------------------------
(* RpcProxy: the limit follows *)

\* Distinct members of a set with distinct marks among finitely many are finitely many.
LEMMA MarksCount ==
  ASSUME NEW S, NEW T, IsFiniteSet(T), NEW mark, mark \in [S -> T],
         \A x, y \in S : mark[x] = mark[y] => x = y
  PROVE  IsFiniteSet(S) /\ Cardinality(S) <= Cardinality(T)
<1>1. mark \in Injection(S, T) BY DEF Injection, IsInjective
<1>2. QED BY <1>1, FS_Injection

\* What the upstream carries or was asked to is on the account, each once: by its
\* subscription or by the id of its call.
LEMMA InvWithinCap ==
  ASSUME ProxyInv
  PROVE  UpstreamWithinCap
<1> USE ProxyAssumption DEF ProxyInv, AccountInv
<1> SUFFICES ASSUME conn.upstream = "open"
             PROVE  Cardinality(paid.live) + Cardinality({c \in paid.asked : c.method \in Subscribes})
                       <= (IF conn.client = "open" THEN RPC_MAX_SUBSCRIPTIONS ELSE 0)
  BY DEF UpstreamWithinCap
<1>1. Open /\ conn.client = "open" BY DEF SocketsAgree, ConnType, Connection, Open
<1> DEFINE asking == {c \in paid.asked : c.method \in Subscribes}
           noted == {l \in paid.live : l.sub \in conn.subs}
           unnoted == paid.live \ noted
           PA == {i \in subscribing_ids : \E k \in DOMAIN paid.answers : paid.answers[k].id = i}
           PW == subscribing_ids \ PA
<1>2. /\ IsFiniteSet(conn.subs) /\ IsFiniteSet(subscribing_ids)
      /\ Cardinality(conn.subs) + Cardinality(subscribing_ids) <= RPC_MAX_SUBSCRIPTIONS
      /\ Cardinality(conn.subs) \in Nat /\ Cardinality(subscribing_ids) \in Nat
  <2>1. IsFiniteSet(subscribing_ids) BY <1>1, FS_Subset DEF Counted, subscribing_ids
  <2>2. QED BY <1>1, <2>1, FS_CardinalityType DEF Counted
<1>3. /\ IsFiniteSet(PA) /\ IsFiniteSet(PW)
      /\ Cardinality(PA) + Cardinality(PW) = Cardinality(subscribing_ids)
      /\ Cardinality(PA) \in Nat /\ Cardinality(PW) \in Nat
  <2>1. PA \subseteq subscribing_ids /\ subscribing_ids \cap PA = PA OBVIOUS
  <2>2. IsFiniteSet(PA) BY <1>2, <2>1, FS_Subset
  <2>3. IsFiniteSet(PW) /\ Cardinality(PW) = Cardinality(subscribing_ids) - Cardinality(PA)
    BY <1>2, <2>1, FS_Difference
  <2>4. QED BY <1>2, <2>2, <2>3, FS_CardinalityType
<1>4. IsFiniteSet(noted) /\ Cardinality(noted) <= Cardinality(conn.subs)
  <2> DEFINE mark == [l \in noted |-> l.sub]
  <2>1. mark \in [noted -> conn.subs] OBVIOUS
  <2>2. \A x, y \in noted : mark[x] = mark[y] => x = y BY <1>1 DEF LiveKnown
  <2> HIDE DEF mark, noted
  <2>3. QED BY <1>2, <2>1, <2>2, MarksCount
<1>5. IsFiniteSet(unnoted) /\ Cardinality(unnoted) <= Cardinality(PA)
  <2> DEFINE at(l) == CHOOSE k \in DOMAIN paid.answers : says(k) /\ paid.answers[k].sub = l.sub
             mark == [l \in unnoted |-> paid.answers[at(l)].id]
  <2>1. \A l \in unnoted : at(l) \in DOMAIN paid.answers /\ says(at(l)) /\ paid.answers[at(l)].sub = l.sub
    BY <1>1 DEF LiveKnown
  <2> HIDE DEF at
  <2>2. mark \in [unnoted -> PA]
    <3> SUFFICES ASSUME NEW l \in unnoted PROVE paid.answers[at(l)].id \in PA OBVIOUS
    <3>1. at(l) \in DOMAIN paid.answers /\ says(at(l)) BY <2>1
    <3>2. paid.answers[at(l)].id \in subscribing_ids
      BY <1>1, <3>1 DEF AnswersMatch, says, subscribing_ids
    <3>3. QED BY <3>1, <3>2
  <2>3. \A x, y \in unnoted : mark[x] = mark[y] => x = y
    <3> SUFFICES ASSUME NEW x \in unnoted, NEW y \in unnoted, paid.answers[at(x)].id = paid.answers[at(y)].id
                 PROVE  x = y
      OBVIOUS
    <3>1. at(x) = at(y) BY <1>1, <2>1 DEF AnswersMatch, says
    <3>2. x.sub = y.sub BY <2>1, <3>1
    <3>3. QED BY <1>1, <3>2 DEF LiveKnown
  <2> HIDE DEF mark, unnoted, PA
  <2>4. QED BY <1>3, <2>2, <2>3, MarksCount
<1>6. IsFiniteSet(asking) /\ Cardinality(asking) <= Cardinality(PW)
  <2> DEFINE mark == [c \in asking |-> c.id]
  <2>1. \A c \in asking : /\ c.id # NoId /\ c.id \in DOMAIN conn.inflight /\ conn.inflight[c.id] = c
                          /\ \A k \in DOMAIN paid.answers : paid.answers[k].id # c.id
    BY <1>1 DEF WaitingKnown, waiting
  <2>2. mark \in [asking -> PW] BY <2>1 DEF subscribing_ids
  <2>3. \A x, y \in asking : mark[x] = mark[y] => x = y BY <2>1
  <2> HIDE DEF mark, asking, PW
  <2>4. QED BY <1>3, <2>2, <2>3, MarksCount
<1>7. Cardinality(paid.live) = Cardinality(noted) + Cardinality(unnoted)
      /\ Cardinality(noted) \in Nat /\ Cardinality(unnoted) \in Nat
  <2>1. paid.live = noted \cup unnoted /\ noted \cap unnoted = {} OBVIOUS
  <2> HIDE DEF noted, unnoted
  <2>2. Cardinality(paid.live) = Cardinality(noted) + Cardinality(unnoted) - Cardinality({})
    BY <1>4, <1>5, <2>1, FS_Union
  <2>3. QED BY <1>4, <1>5, <2>2, FS_EmptySet, FS_CardinalityType
<1>8. Cardinality(asking) \in Nat BY <1>6, FS_CardinalityType
<1> HIDE DEF asking, noted, unnoted, PA, PW
<1>9. Cardinality(paid.live) + Cardinality(asking) <= RPC_MAX_SUBSCRIPTIONS
  BY <1>2, <1>3, <1>4, <1>5, <1>6, <1>7, <1>8
<1>10. QED BY <1>1, <1>9 DEF asking

-----------------------------------------------------------------------------
(* RpcProxy: every step keeps the account *)

LEMMA AppendIs ==
  ASSUME NEW S, NEW s \in Seq(S), NEW a \in S
  PROVE  LET r == Append(s, a)
         IN  /\ r \in Seq(S) /\ DOMAIN r = DOMAIN s \cup {Len(s) + 1} /\ Len(s) + 1 \notin DOMAIN s
             /\ r[Len(s) + 1] = a /\ \A k \in DOMAIN s : r[k] = s[k]
OBVIOUS

LEMMA TailIs ==
  ASSUME NEW S, NEW s \in Seq(S), s # <<>>
  PROVE  /\ Tail(s) \in Seq(S) /\ Head(s) \in S /\ 1 \in DOMAIN s /\ Head(s) = s[1]
         /\ \A k \in DOMAIN Tail(s) : k + 1 \in DOMAIN s /\ k + 1 # 1 /\ Tail(s)[k] = s[k + 1]
         /\ \A k \in DOMAIN s : k # 1 => k - 1 \in DOMAIN Tail(s) /\ (k - 1) + 1 = k
OBVIOUS

LEMMA FrameIs ==
  ASSUME PaidType, NEW frame \in Frames
  PROVE  /\ frame \in Seq(RelayCall) /\ IsFiniteSet(DOMAIN frame) /\ Len(frame) \in Nat
         /\ \A k \in DOMAIN frame : frame[k].method = "unsubscribe" => frame[k].sub <= paid.issued
<1> USE ProxyAssumption
<1>1. paid.issued \in Nat BY DEF PaidType, Upstream
<1>2. PICK n \in 1..RPC_MAX_BATCH : frame \in [1..n -> Calls] BY DEF Frames
<1>3. \A c \in Calls : c \in RelayCall /\ (c.method = "unsubscribe" => c.sub <= paid.issued)
  <2>1. \A m \in Subscribes \cup {"get", "sendTransaction"}, i \in Ids \cup {NoId} :
          call(m, i, NoSub) \in RelayCall /\ call(m, i, NoSub).method # "unsubscribe"
    BY DEF call, NoSub, RelayCall, WS_ALLOWED_METHODS, Subscribes
  <2>2. \A i \in Ids \cup {NoId}, s \in 1..paid.issued :
          call("unsubscribe", i, s) \in RelayCall /\ call("unsubscribe", i, s).sub <= paid.issued
    BY <1>1 DEF call, RelayCall, WS_ALLOWED_METHODS
  <2>3. QED BY <2>1, <2>2 DEF Calls
<1>4. n \in Nat /\ frame \in Seq(RelayCall) /\ DOMAIN frame = 1..n /\ Len(frame) = n BY <1>2, <1>3
<1>5. IsFiniteSet(1..n)
  <2>1. 1 \in Int /\ n \in Int BY <1>4
  <2>2. QED BY <2>1, FS_Interval
<1>6. QED BY <1>2, <1>3, <1>4, <1>5

\* Both sides stay what they are.
LEMMA ConnectionSteps ==
  ASSUME NEW c \in Connection
  PROVE  /\ [c EXCEPT !.closed = TRUE, !.client = "closed", !.upstream = "closed"] \in Connection
         /\ [c EXCEPT !.client = "closed"] \in Connection
         /\ [c EXCEPT !.upstream = "closed"] \in Connection
         /\ \A p \in Kept : [c EXCEPT !.pending = p] \in Connection
         /\ \A p \in Kept : [c EXCEPT !.upstream = "open", !.pending = p] \in Connection
         /\ \A n \in Int : [c EXCEPT !.tokens = n] \in Connection
         /\ \A n \in Int, k \in Nat, m \in Memory :
              [c EXCEPT !.tokens = n, !.pendingSubs = k, !.inflight = m] \in Connection
         /\ \A m \in Memory, k \in Nat, s \in SUBSET Nat :
              [c EXCEPT !.inflight = m, !.pendingSubs = k, !.subs = s] \in Connection
         /\ \A s \in SUBSET Nat : [c EXCEPT !.subs = s] \in Connection
BY DEF Connection

LEMMA UpstreamSteps ==
  ASSUME NEW p \in Upstream
  PROVE  \A q \in SUBSET RelayCall, a \in OnTheWay, l \in Carried, n \in Nat :
           /\ [p EXCEPT !.asked = q] \in Upstream
           /\ [p EXCEPT !.answers = a] \in Upstream
           /\ [p EXCEPT !.asked = q, !.answers = a] \in Upstream
           /\ [p EXCEPT !.asked = q, !.answers = a, !.live = l] \in Upstream
           /\ [p EXCEPT !.answers = a, !.live = l] \in Upstream
           /\ [asked |-> q, answers |-> a, live |-> l, issued |-> n] \in Upstream
BY DEF Upstream

Unclosed == {c \in Connection : ~c.closed}

\* With a close frame, without a status, without a frame, in an error, or by the relay.
CloseCodes == {1000, 1005, 1006, 1011, 1013}

\* What closes a connection closes both its sockets: every code that reaches
\* closeBoth is one that can be sent.
LEMMA ClosesKeeps ==
  ASSUME NEW c \in Unclosed, PaidType, NEW code \in CloseCodes, closes(c, code)
  PROVE  ProxyInv'
<1>1. conn' = [c EXCEPT !.closed = TRUE, !.client = "closed", !.upstream = "closed"]
  <2>1. sendable(close_code(code)) BY DEF sendable, close_code, CloseCodes
  <2>2. \A s : told_to_close(s, close_code(code)) = "closed" BY <2>1 DEF told_to_close
  <2>3. ~c.closed /\ conn' = closeBoth(c, code) BY DEF closes, Unclosed
  <2> DEFINE ending(s) == told_to_close(s, close_code(code))
  <2>4. conn' = [c EXCEPT !.closed = TRUE, !.client = ending(@), !.upstream = ending(@)] BY <2>3 DEF closeBoth
  <2>5. ending([c EXCEPT !.closed = TRUE].client) = "closed"
        /\ ending([c EXCEPT !.closed = TRUE, !.client = "closed"].upstream) = "closed"
    BY <2>2
  <2> HIDE DEF ending
  <2>6. QED BY <2>4, <2>5
<1>2. c \in Connection BY DEF Unclosed
<1>3. conn'.closed /\ conn'.client = "closed" /\ conn'.upstream = "closed" BY <1>1, <1>2 DEF Connection
<1>4. conn' \in Connection BY <1>1, <1>2, ConnectionSteps
<1>5. paid' = [paid EXCEPT !.asked = {}, !.answers = <<>>, !.live = {}]
  BY <1>3 DEF closes, carried_by
<1>6. paid' \in Upstream
  <2>1. <<>> \in OnTheWay /\ {} \in Carried /\ {} \in SUBSET RelayCall BY DEF OnTheWay, Carried
  <2>2. paid \in Upstream BY DEF PaidType
  <2>3. [paid EXCEPT !.asked = {}, !.answers = <<>>, !.live = {}] \in Upstream BY <2>1, <2>2, UpstreamSteps
  <2>4. QED BY <1>5, <2>3
<1>7. paid'.asked = {} /\ paid'.live = {} BY <1>5 DEF PaidType, Upstream
<1>8. QED BY <1>3, <1>4, <1>6, <1>7 DEF ProxyInv, ConnType, PaidType, SocketsAgree, Open

\* A step that leaves account, answers and subscriptions alone.
LEMMA AccountKept ==
  ASSUME AccountInv, UNCHANGED <<conn.inflight, conn.subs, conn.pendingSubs>>,
         UNCHANGED <<paid.answers, paid.live, paid.issued>>, waiting' \subseteq waiting
  PROVE  AccountInv'
BY DEF AccountInv, Remembered, Counted, WaitingKnown, AnswersMatch, LiveKnown, EndedStaysEnded,
         subscribing_ids, says, taken_off

\* A frame that is let through is remembered call by call.
LEMMA AccountedIs ==
  ASSUME ConnType, PaidType, NEW frame \in Frames, frame_admitted(frame)
  PROVE  LET F == accounted(frame).inflight
         IN  /\ F \in Memory /\ DOMAIN F = DOMAIN conn.inflight \cup ids_of(frame)
             /\ \A i \in DOMAIN conn.inflight : F[i] = conn.inflight[i]
             /\ \A k \in keyed(frame) : /\ frame[k].id \in ids_of(frame)
                                        /\ frame[k].id \notin DOMAIN conn.inflight /\ F[frame[k].id] = frame[k]
<1> USE ProxyAssumption
<1> DEFINE D == DOMAIN conn.inflight
           I == ids_of(frame)
           F == accounted(frame).inflight
           key(i) == CHOOSE c \in ToSet(frame) : c.id = i
<1>1. F = [i \in D \cup I |-> IF i \in D THEN conn.inflight[i] ELSE key(i)]
  BY DEF accounted, ConnType, Connection
<1>2. D \subseteq Ids /\ \A i \in D : conn.inflight[i] \in RelayCall
  BY DEF ConnType, Connection, Memory
<1>3. \A k \in DOMAIN frame : frame[k] \in RelayCall BY FrameIs
<1>4. I \subseteq Ids BY <1>3 DEF ids_of, keyed, RelayCall
<1>5. I \cap D = {} /\ \A j, k \in keyed(frame) : frame[j].id = frame[k].id => j = k
  BY DEF frame_admitted
<1>6. \A k \in keyed(frame) : key(frame[k].id) = frame[k]
  <2> SUFFICES ASSUME NEW k \in keyed(frame) PROVE key(frame[k].id) = frame[k] OBVIOUS
  <2>1. k \in DOMAIN frame /\ frame[k] \in ToSet(frame) /\ frame[k].id # NoId BY DEF keyed, ToSet
  <2>2. \A c \in ToSet(frame) : c.id = frame[k].id => c = frame[k]
    BY <1>5, <2>1 DEF ToSet, keyed
  <2>3. QED BY <2>1, <2>2
<1> HIDE DEF key, F
<1>7. DOMAIN F = D \cup I /\ (\A i \in D : F[i] = conn.inflight[i])
      /\ \A k \in keyed(frame) : frame[k].id \in I /\ frame[k].id \notin D /\ F[frame[k].id] = frame[k]
  BY <1>1, <1>5, <1>6 DEF ids_of
<1>8. F \in Memory
  <2>1. \A i \in I : \E k \in keyed(frame) : frame[k].id = i BY DEF ids_of
  <2>2. keyed(frame) \subseteq DOMAIN frame BY DEF keyed
  <2>3. \A i \in D \cup I : F[i] \in RelayCall BY <1>2, <1>3, <1>7, <2>1, <2>2
  <2>4. F = [i \in D \cup I |-> F[i]] BY <1>1
  <2>5. F \in [D \cup I -> RelayCall] /\ D \cup I \in SUBSET Ids BY <1>2, <1>4, <2>3, <2>4
  <2>6. QED BY <2>5 DEF Memory
<1>9. QED BY <1>7, <1>8 DEF F

\* The rest of the connection is as it was, but for the counts.
LEMMA AccountedConnection ==
  ASSUME ConnType, PaidType, NEW frame \in Frames, frame_admitted(frame)
  PROVE  LET c == accounted(frame)
         IN  /\ c \in Connection /\ c.subs = conn.subs /\ c.pending = conn.pending
             /\ c.pendingSubs = conn.pendingSubs + Cardinality(subscribing(frame))
             /\ c.client = conn.client /\ c.upstream = conn.upstream /\ c.closed = conn.closed
             /\ \A p : [c EXCEPT !.pending = p].inflight = c.inflight
<1> DEFINE F == accounted(frame).inflight
           P == conn.pendingSubs + Cardinality(subscribing(frame))
           T == conn.tokens - Len(frame)
<1>1. conn \in Connection BY DEF ConnType
<1>2. accounted(frame) = [conn EXCEPT !.tokens = T, !.pendingSubs = P, !.inflight = F]
  BY <1>1 DEF accounted, Connection
<1>3. F \in Memory BY AccountedIs
<1>4. P \in Nat /\ T \in Int
  <2>1. IsFiniteSet(DOMAIN frame) /\ Len(frame) \in Nat BY FrameIs
  <2>2. IsFiniteSet(subscribing(frame)) BY <2>1, FS_Subset DEF subscribing
  <2>3. Cardinality(subscribing(frame)) \in Nat BY <2>2, FS_CardinalityType
  <2>4. conn.pendingSubs \in Nat /\ conn.tokens \in Int BY <1>1 DEF Connection
  <2>5. QED BY <2>1, <2>3, <2>4
<1> HIDE DEF F, P, T
<1>5. [conn EXCEPT !.tokens = T, !.pendingSubs = P, !.inflight = F] \in Connection
  BY <1>1, <1>3, <1>4 DEF Connection
<1>6. /\ accounted(frame).subs = conn.subs /\ accounted(frame).pending = conn.pending
      /\ accounted(frame).pendingSubs = P
      /\ accounted(frame).client = conn.client /\ accounted(frame).upstream = conn.upstream
      /\ accounted(frame).closed = conn.closed
  BY <1>1, <1>2 DEF Connection
<1>7. \A p : [accounted(frame) EXCEPT !.pending = p].inflight = accounted(frame).inflight
  BY <1>2, <1>5 DEF Connection
<1>8. QED BY <1>2, <1>5, <1>6, <1>7 DEF P

\* A forwarded frame is on the account before the upstream has it.
LEMMA FrameKeeps ==
  ASSUME AccountInv, ConnType, PaidType, NEW frame \in Frames, frame_admitted(frame),
         conn'.inflight = accounted(frame).inflight, conn'.subs = conn.subs,
         conn'.pendingSubs = conn.pendingSubs + Cardinality(subscribing(frame)),
         UNCHANGED <<paid.answers, paid.live, paid.issued>>, waiting' \subseteq waiting \cup ToSet(frame)
  PROVE  AccountInv'
<1> USE ProxyAssumption DEF AccountInv
<1> DEFINE D == DOMAIN conn.inflight
           I == ids_of(frame)
           F == accounted(frame).inflight
<1>1. /\ IsFiniteSet(DOMAIN frame)
      /\ \A k \in DOMAIN frame : frame[k].method = "unsubscribe" => frame[k].sub <= paid.issued
  BY FrameIs
<1>2. I \cap D = {} /\ subscribing(frame) \subseteq keyed(frame)
      /\ \A j, k \in keyed(frame) : frame[j].id = frame[k].id => j = k
  BY DEF frame_admitted
<1>3. DOMAIN F = D \cup I /\ (\A i \in D : F[i] = conn.inflight[i])
      /\ \A k \in keyed(frame) : frame[k].id \in I /\ frame[k].id \notin D /\ F[frame[k].id] = frame[k]
  BY AccountedIs
<1> HIDE DEF F
<1>4. \A i \in I : \E k \in keyed(frame) : frame[k].id = i BY DEF ids_of
<1>5. keyed(frame) \subseteq DOMAIN frame BY DEF keyed
<1>6. conn'.inflight = F BY DEF F
<1>7. Remembered'
  <2> SUFFICES ASSUME NEW i \in D \cup I
               PROVE  F[i].id = i /\ (F[i].method = "unsubscribe" => F[i].sub <= paid.issued)
    BY <1>3, <1>6 DEF Remembered
  <2>1. CASE i \in D BY <1>3, <2>1 DEF Remembered
  <2>2. CASE i \in I BY <1>1, <1>3, <1>4, <1>5, <2>2
  <2>3. QED BY <2>1, <2>2
<1>8. Counted'
  <2> DEFINE S == subscribing(frame)
             Q == {frame[k].id : k \in S}
  <2>1. S \subseteq keyed(frame) /\ IsFiniteSet(S) BY <1>1, <1>2, FS_Subset DEF subscribing
  <2>2. subscribing_ids' = subscribing_ids \cup Q /\ subscribing_ids \cap Q = {}
    <3>1. subscribing_ids' = {i \in D \cup I : F[i].method \in Subscribes} BY <1>3, <1>6 DEF subscribing_ids
    <3>2. \A i \in D : F[i].method \in Subscribes <=> i \in subscribing_ids BY <1>3 DEF subscribing_ids
    <3>3. \A k \in keyed(frame) : F[frame[k].id].method \in Subscribes <=> k \in S
      BY <1>3, <1>5 DEF subscribing
    <3>4. Q \subseteq I /\ \A i \in I : F[i].method \in Subscribes <=> i \in Q
      <4>1. Q \subseteq I BY <1>3, <2>1
      <4>2. ASSUME NEW i \in I, F[i].method \in Subscribes PROVE i \in Q
        BY <1>4, <3>3, <4>2
      <4>3. ASSUME NEW i \in Q PROVE F[i].method \in Subscribes BY <2>1, <3>3
      <4>4. QED BY <4>1, <4>2, <4>3
    <3>5. subscribing_ids \subseteq D BY DEF subscribing_ids
    <3> HIDE DEF Q, S
    <3>6. QED BY <1>2, <3>1, <3>2, <3>4, <3>5
  <2>3. IsFiniteSet(Q) /\ Cardinality(Q) = Cardinality(S)
    <3> DEFINE f == [k \in S |-> frame[k].id]
    <3>1. f \in [S -> Q] /\ (\A j, k \in S : f[j] = f[k] => j = k) /\ \A q \in Q : \E k \in S : f[k] = q
      BY <1>2, <2>1
    <3> HIDE DEF f, S, Q
    <3>2. f \in Bijection(S, Q) BY <3>1 DEF Bijection, Injection, Surjection, IsInjective
    <3>3. ExistsBijection(S, Q) BY <3>2 DEF ExistsBijection
    <3>4. QED BY <2>1, <3>3, FS_Bijection
  <2>4. IsFiniteSet(I)
    <3> DEFINE f == [k \in keyed(frame) |-> frame[k].id]
    <3>1. f \in Surjection(keyed(frame), I) BY <1>3, <1>4 DEF Surjection
    <3>2. IsFiniteSet(keyed(frame)) BY <1>1, <1>5, FS_Subset
    <3> HIDE DEF f
    <3>3. QED BY <3>1, <3>2, FS_Surjection
  <2>5. IsFiniteSet(D) /\ IsFiniteSet(conn.subs) /\ conn.pendingSubs = Cardinality(subscribing_ids)
        /\ Cardinality(conn.subs) + conn.pendingSubs <= RPC_MAX_SUBSCRIPTIONS
    BY DEF Counted
  <2>6. IsFiniteSet(D \cup I) BY <2>4, <2>5, FS_Union
  <2>7. IsFiniteSet(subscribing_ids) BY <2>5, FS_Subset DEF subscribing_ids
  <2> HIDE DEF Q
  <2>8. Cardinality(subscribing_ids') = Cardinality(subscribing_ids) + Cardinality(Q)
    <3>1. Cardinality(subscribing_ids \cup Q) = Cardinality(subscribing_ids) + Cardinality(Q) - Cardinality({})
      BY <2>2, <2>3, <2>7, FS_Union
    <3>2. Cardinality(Q) \in Nat /\ Cardinality(subscribing_ids) \in Nat BY <2>3, <2>7, FS_CardinalityType
    <3>3. QED BY <2>2, <3>1, <3>2, FS_EmptySet
  <2>9. conn'.pendingSubs = Cardinality(subscribing_ids') BY <2>3, <2>5, <2>8
  <2>10. Cardinality(conn'.subs) + conn'.pendingSubs <= RPC_MAX_SUBSCRIPTIONS
    <3>1. CASE S = {}
      <4>1. Cardinality(S) = 0 BY <3>1, FS_EmptySet
      <4>2. Cardinality(subscribing_ids) \in Nat BY <2>7, FS_CardinalityType
      <4>3. QED BY <2>5, <4>1, <4>2
    <3>2. CASE S # {}
      <4>1. Cardinality(conn.subs) + conn.pendingSubs + Cardinality(S) <= RPC_MAX_SUBSCRIPTIONS
        BY <3>2 DEF frame_admitted
      <4>2. Cardinality(subscribing_ids) \in Nat /\ Cardinality(S) \in Nat /\ Cardinality(conn.subs) \in Nat
        BY <2>1, <2>5, <2>7, FS_CardinalityType
      <4>3. QED BY <2>5, <4>1, <4>2
    <3>3. QED BY <3>1, <3>2
  <2>11. QED BY <1>3, <1>6, <2>5, <2>6, <2>9, <2>10 DEF Counted
<1>9. \A k \in DOMAIN paid.answers :
         paid.answers[k].id # NoId => paid.answers[k].id \in D /\ F[paid.answers[k].id] = conn.inflight[paid.answers[k].id]
  BY <1>3 DEF AnswersMatch
<1>10. WaitingKnown'
  <2> SUFFICES ASSUME NEW c \in waiting \cup ToSet(frame)
               PROVE  /\ c.method \in Subscribes => c.id # NoId
                      /\ c.id # NoId => /\ c.id \in D \cup I /\ F[c.id] = c
                                        /\ \A k \in DOMAIN paid.answers : paid.answers[k].id # c.id
    BY <1>3, <1>6 DEF WaitingKnown
  <2>1. CASE c \in waiting BY <1>3, <2>1 DEF WaitingKnown
  <2>2. CASE c \in ToSet(frame)
    <3>1. PICK k \in DOMAIN frame : c = frame[k] BY <2>2 DEF ToSet
    <3>2. c.method \in Subscribes => k \in keyed(frame) BY <1>2, <3>1 DEF subscribing
    <3>3. c.id # NoId <=> k \in keyed(frame) BY <3>1 DEF keyed
    <3>4. QED BY <1>3, <1>9, <3>1, <3>2, <3>3
  <2>3. QED BY <2>1, <2>2
<1>11. AnswersMatch' BY <1>3, <1>6 DEF AnswersMatch
<1>12. LiveKnown'
  <2>1. \A k \in DOMAIN paid.answers : says(k) => says(k)' BY <1>6, <1>9 DEF says
  <2>2. QED BY <2>1 DEF LiveKnown
<1>13. EndedStaysEnded'
  <2>1. \A k \in DOMAIN paid.answers : taken_off(k)' = taken_off(k) BY <1>6, <1>9 DEF taken_off
  <2>2. QED BY <2>1 DEF EndedStaysEnded
<1>14. QED BY <1>7, <1>8, <1>10, <1>11, <1>12, <1>13

\* A call that is carried out or failed, and answered if it can be: what the answer
\* says is what it did.
LEMMA AnswerKeeps ==
  ASSUME AccountInv, ConnType, PaidType, SocketsAgree, conn.upstream = "open",
         NEW c \in paid.asked, NEW ok \in BOOLEAN, NEW sub \in Nat,
         UNCHANGED conn, paid'.asked = paid.asked \ {c}, paid'.answers = answered(c, ok, sub),
         paid'.issued \in Nat, paid.issued <= paid'.issued,
         \A l \in paid'.live : /\ l \in paid.live \/ (ok /\ c.method \in Subscribes /\ l.sub = sub)
                               /\ l.sub <= paid'.issued
                               /\ l \notin paid.live => l.sub > paid.issued
                               /\ \A m \in paid'.live : m.sub = l.sub => m = l,
         ok /\ c.method = "unsubscribe" => \A l \in paid'.live : l.sub # c.sub
  PROVE  AccountInv' /\ answered(c, ok, sub) \in OnTheWay
<1> USE DEF AccountInv
<1>1. c \in RelayCall /\ paid.answers \in Seq(Message) /\ paid.issued \in Nat /\ paid.live \in Carried
  <2>1. c \in RelayCall /\ paid.answers \in OnTheWay /\ paid.issued \in Nat /\ paid.live \in Carried
    BY DEF PaidType, Upstream
  <2>2. QED BY <2>1 DEF OnTheWay
<1>2. waiting = paid.asked /\ waiting' = paid.asked \ {c}
  <2>1. conn.pending = <<>> BY DEF SocketsAgree
  <2>2. {ToSet(frame) : frame \in ToSet(conn.pending)} = {} BY <2>1 DEF ToSet
  <2>3. QED BY <2>2 DEF waiting
<1>3. /\ c.method \in Subscribes => c.id # NoId
      /\ c.id # NoId => /\ c.id \in DOMAIN conn.inflight /\ conn.inflight[c.id] = c
                        /\ \A k \in DOMAIN paid.answers : paid.answers[k].id # c.id
  BY <1>2 DEF WaitingKnown
<1>4. Counted' BY DEF Counted, subscribing_ids
<1>5. Remembered'
  <2>1. \A i \in DOMAIN conn.inflight : conn.inflight[i] \in RelayCall BY DEF ConnType, Connection, Memory
  <2>2. \A i \in DOMAIN conn.inflight : conn.inflight[i].sub \in Nat BY <2>1 DEF RelayCall
  <2>3. QED BY <1>1, <2>2 DEF Remembered
<1>6. \A k \in DOMAIN paid.answers : \A s \in taken_off(k) : s \in Nat /\ s <= paid.issued
  <2>1. \A i \in DOMAIN conn.inflight : conn.inflight[i] \in RelayCall BY DEF ConnType, Connection, Memory
  <2>2. \A k \in DOMAIN paid.answers : paid.answers[k] \in Message BY <1>1
  <2>3. \A k \in DOMAIN paid.answers : \A s \in taken_off(k) : s \in Nat
    BY <2>1, <2>2 DEF taken_off, AnswersMatch, RelayCall, Message
  <2>4. QED BY <2>3 DEF EndedStaysEnded
<1>7. \A l \in paid'.live : l.sub > paid.issued \/ l \in paid.live OBVIOUS
<1>8. CASE c.id = NoId
  <2>1. paid'.answers = paid.answers BY <1>8 DEF answered
  <2>2. paid'.live \subseteq paid.live BY <1>3, <1>8
  <2>3. WaitingKnown' BY <1>2, <2>1 DEF WaitingKnown
  <2>4. AnswersMatch' BY <2>1 DEF AnswersMatch
  <2>5. LiveKnown' BY <2>1, <2>2 DEF LiveKnown, says
  <2>6. EndedStaysEnded'
    <3>1. \A k \in DOMAIN paid.answers : taken_off(k)' = taken_off(k) BY <2>1 DEF taken_off
    <3>2. \A k \in DOMAIN paid.answers : \A s \in taken_off(k) : s <= paid'.issued /\ \A l \in paid'.live : l.sub # s
      BY <1>1, <1>6, <2>2 DEF EndedStaysEnded
    <3>3. QED BY <2>1, <3>1, <3>2 DEF EndedStaysEnded
  <2>7. answered(c, ok, sub) \in OnTheWay BY <1>1, <1>8 DEF answered, OnTheWay
  <2>8. QED BY <1>4, <1>5, <2>3, <2>4, <2>5, <2>6, <2>7
<1>9. CASE c.id # NoId
  <2> DEFINE a == answer(c.id, ok, sub)
             n == Len(paid.answers) + 1
  <2>1. a \in Message /\ a.id = c.id /\ a.ok = ok /\ a.sub = sub
    BY <1>1 DEF answer, Message, RelayCall
  <2>2. paid'.answers = Append(paid.answers, a) BY <1>9 DEF answered
  <2>3. /\ paid'.answers \in Seq(Message) /\ DOMAIN paid'.answers = DOMAIN paid.answers \cup {n}
        /\ n \notin DOMAIN paid.answers /\ paid'.answers[n] = a
        /\ \A k \in DOMAIN paid.answers : paid'.answers[k] = paid.answers[k]
    BY <1>1, <2>1, <2>2, AppendIs
  <2> HIDE DEF a, n
  <2>4. WaitingKnown'
    <3>1. \A d \in paid.asked \ {c} : d.id # c.id BY <1>2, <1>3, <1>9 DEF WaitingKnown
    <3>2. QED BY <1>2, <2>1, <2>3, <3>1 DEF WaitingKnown
  <2>5. AnswersMatch' BY <1>3, <1>9, <2>1, <2>3 DEF AnswersMatch
  <2>6. \A k \in DOMAIN paid.answers : says(k) => says(k)' BY <2>3 DEF says
  <2>7. LiveKnown'
    <3> SUFFICES ASSUME NEW l \in paid'.live
                 PROVE  \/ l.sub \in conn.subs
                        \/ \E k \in DOMAIN paid'.answers : says(k)' /\ paid'.answers[k].sub = l.sub
      BY DEF LiveKnown
    <3>1. CASE l \in paid.live BY <2>3, <2>6, <3>1 DEF LiveKnown
    <3>2. CASE l \notin paid.live
      <4>1. ok /\ c.method \in Subscribes /\ l.sub = sub BY <3>2
      <4>2. PICK k \in DOMAIN paid'.answers : k = n BY <2>3
      <4>3. /\ paid'.answers[k].id = c.id /\ paid'.answers[k].ok /\ conn'.inflight[c.id] = c
            /\ paid'.answers[k].sub = l.sub
        BY <1>3, <1>9, <2>1, <2>3, <4>1, <4>2
      <4>4. conn'.inflight[paid'.answers[k].id].method \in Subscribes BY <4>1, <4>3
      <4>5. says(k)' BY <1>9, <4>3, <4>4 DEF says
      <4>6. QED BY <4>2, <4>3, <4>5
    <3>3. QED BY <3>1, <3>2
  <2>8. /\ \A k \in DOMAIN paid.answers : taken_off(k)' = taken_off(k)
        /\ \A k \in DOMAIN paid'.answers : \A s \in taken_off(k)' : k = n => ok /\ c.method = "unsubscribe" /\ s = c.sub
    <3>1. \A k \in DOMAIN paid.answers : taken_off(k)' = taken_off(k) BY <2>3 DEF taken_off
    <3>2. ASSUME NEW k \in DOMAIN paid'.answers, k = n, NEW s \in taken_off(k)'
          PROVE  ok /\ c.method = "unsubscribe" /\ s = c.sub
      <4>1. paid'.answers[k].id = c.id /\ paid'.answers[k].ok = ok /\ conn'.inflight[c.id] = c
        BY <1>3, <1>9, <2>1, <2>3, <3>2
      <4>2. paid'.answers[k].ok /\ conn'.inflight[paid'.answers[k].id].method = "unsubscribe"
            /\ s = conn'.inflight[paid'.answers[k].id].sub
        BY <1>9, <3>2, <4>1 DEF taken_off
      <4>3. QED BY <4>1, <4>2
    <3>3. QED BY <3>1, <3>2
  <2>9. EndedStaysEnded'
    <3> SUFFICES ASSUME NEW k \in DOMAIN paid'.answers, NEW s \in taken_off(k)'
                 PROVE  s <= paid'.issued /\ \A l \in paid'.live : l.sub # s
      BY DEF EndedStaysEnded
    <3>1. CASE k \in DOMAIN paid.answers
      <4>1. s \in taken_off(k) /\ s \in Nat /\ s <= paid.issued BY <1>6, <2>8, <3>1
      <4>2. \A l \in paid.live : l.sub # s BY <3>1, <4>1 DEF EndedStaysEnded
      <4>3. \A l \in paid'.live : l.sub > paid.issued => l.sub # s BY <1>1, <4>1
      <4>4. QED BY <1>1, <1>7, <4>1, <4>2, <4>3
    <3>2. CASE k = n
      <4>1. ok /\ c.method = "unsubscribe" /\ s = c.sub BY <2>8, <3>2
      <4>2. c.sub \in Nat /\ c.sub <= paid.issued BY <1>1, <1>3, <1>9, <4>1 DEF Remembered, RelayCall
      <4>3. QED BY <1>1, <4>1, <4>2
    <3>3. QED BY <2>3, <3>1, <3>2
  <2>10. answered(c, ok, sub) \in OnTheWay BY <2>3 DEF OnTheWay
  <2>11. QED BY <1>4, <1>5, <2>4, <2>5, <2>7, <2>9, <2>10
<1>10. QED BY <1>8, <1>9

\* A signature's notification: the last one is of a subscription no longer carried.
LEMMA NotifyKeeps ==
  ASSUME AccountInv, PaidType, NEW l \in paid.live, NEW final \in BOOLEAN,
         UNCHANGED conn, UNCHANGED <<paid.asked, paid.issued>>,
         paid'.answers = Append(paid.answers, notification(l.sub, final)),
         paid'.live = IF final THEN paid.live \ {l} ELSE paid.live
  PROVE  AccountInv' /\ paid'.answers \in OnTheWay
<1> USE DEF AccountInv
<1> DEFINE a == notification(l.sub, final)
           n == Len(paid.answers) + 1
<1>1. paid.answers \in Seq(Message) /\ paid.issued \in Nat /\ l.sub \in Nat /\ l.sub <= paid.issued
  <2>1. paid.answers \in OnTheWay /\ paid.issued \in Nat /\ paid.live \in Carried BY DEF PaidType, Upstream
  <2>2. QED BY <2>1 DEF OnTheWay, Carried, LiveKnown
<1>2. a \in Message /\ a.id = NoId /\ a.sub = l.sub /\ a.final = final
  BY <1>1 DEF notification, Message
<1>3. /\ paid'.answers \in Seq(Message) /\ DOMAIN paid'.answers = DOMAIN paid.answers \cup {n}
      /\ n \notin DOMAIN paid.answers /\ paid'.answers[n] = a
      /\ \A k \in DOMAIN paid.answers : paid'.answers[k] = paid.answers[k]
  BY <1>1, <1>2, AppendIs
<1> HIDE DEF a, n
<1>4. waiting' = waiting BY DEF waiting
<1>5. paid'.live \subseteq paid.live /\ (final => \A m \in paid'.live : m.sub # l.sub) BY DEF LiveKnown
<1>6. Counted' /\ Remembered' BY DEF Counted, Remembered, subscribing_ids
<1>7. WaitingKnown' BY <1>2, <1>3, <1>4 DEF WaitingKnown
<1>8. AnswersMatch' BY <1>2, <1>3 DEF AnswersMatch
<1>9. LiveKnown'
  <2>1. \A k \in DOMAIN paid.answers : says(k) => says(k)' BY <1>3 DEF says
  <2>2. QED BY <1>3, <1>5, <2>1 DEF LiveKnown
<1>10. EndedStaysEnded'
  <2> SUFFICES ASSUME NEW k \in DOMAIN paid'.answers, NEW s \in taken_off(k)'
               PROVE  s <= paid.issued /\ \A m \in paid'.live : m.sub # s
    BY DEF EndedStaysEnded
  <2>1. CASE k \in DOMAIN paid.answers
    <3>1. taken_off(k)' = taken_off(k) BY <1>3, <2>1 DEF taken_off
    <3>2. QED BY <1>5, <2>1, <3>1 DEF EndedStaysEnded
  <2>2. CASE k = n
    <3>1. paid'.answers[k].id = NoId /\ paid'.answers[k].sub = l.sub /\ paid'.answers[k].final = final
      BY <1>2, <1>3, <2>2
    <3>2. final /\ s = l.sub BY <3>1 DEF taken_off
    <3>3. QED BY <1>1, <1>5, <3>2
  <2>3. QED BY <1>3, <2>1, <2>2
<1>11. QED BY <1>3, <1>6, <1>7, <1>8, <1>9, <1>10 DEF OnTheWay

\* A message noted: the account follows the upstream, by whatever the message says.
LEMMA NoteKeeps ==
  ASSUME AccountInv, ConnType, PaidType, paid.answers # <<>>,
         conn' = noteUpstream(Head(paid.answers)), paid' = [paid EXCEPT !.answers = Tail(@)]
  PROVE  AccountInv' /\ ConnType' /\ PaidType'
<1> USE DEF AccountInv
<1> DEFINE m == paid.answers[1]
           D == DOMAIN conn.inflight
<1>1. paid \in Upstream /\ paid.answers \in Seq(Message) /\ conn \in Connection /\ conn.inflight \in Memory
      /\ conn.subs \in SUBSET Nat
  <2>1. paid \in Upstream /\ paid.answers \in OnTheWay BY DEF PaidType, Upstream
  <2>2. conn \in Connection /\ conn.inflight \in Memory /\ conn.subs \in SUBSET Nat BY DEF ConnType, Connection
  <2>3. QED BY <2>1, <2>2 DEF OnTheWay
<1>2. /\ Tail(paid.answers) \in Seq(Message) /\ m \in Message /\ 1 \in DOMAIN paid.answers
      /\ Head(paid.answers) = m
      /\ \A k \in DOMAIN Tail(paid.answers) :
            k + 1 \in DOMAIN paid.answers /\ k + 1 # 1 /\ Tail(paid.answers)[k] = paid.answers[k + 1]
      /\ \A k \in DOMAIN paid.answers : k # 1 => k - 1 \in DOMAIN Tail(paid.answers) /\ (k - 1) + 1 = k
  BY <1>1, TailIs
<1>3. /\ paid'.answers = Tail(paid.answers)
      /\ paid'.asked = paid.asked /\ paid'.live = paid.live /\ paid'.issued = paid.issued
  BY <1>1 DEF Upstream
<1>4. PaidType'
  <2>1. Tail(paid.answers) \in OnTheWay BY <1>2 DEF OnTheWay
  <2>2. [paid EXCEPT !.answers = Tail(@)] \in Upstream BY <1>1, <2>1 DEF Upstream
  <2>3. QED BY <2>2 DEF PaidType
<1>5. DOMAIN conn.inflight \subseteq Ids /\ \A i \in D : conn.inflight[i] \in RelayCall
  BY <1>1 DEF Memory
<1>6. m.sub \in Nat BY <1>2 DEF Message
<1> HIDE DEF m
<1>7. CASE m.id = NoId
  <2> DEFINE S == IF m.final THEN conn.subs \ {m.sub} ELSE conn.subs
  <2>1. conn' = [conn EXCEPT !.subs = S] BY <1>2, <1>7 DEF noteUpstream
  <2>2. S \subseteq conn.subs /\ S \in SUBSET Nat BY <1>1
  <2>3. \A l \in paid.live : l.sub \in conn.subs => l.sub \in S
    <3>1. m.final => m.sub \in taken_off(1) BY <1>7 DEF taken_off, m
    <3>2. m.final => \A l \in paid.live : l.sub # m.sub BY <1>2, <3>1 DEF EndedStaysEnded
    <3>3. QED BY <3>2
  <2> HIDE DEF S
  <2>4. /\ conn'.inflight = conn.inflight /\ conn'.pendingSubs = conn.pendingSubs
        /\ conn'.pending = conn.pending /\ conn'.subs = S
    BY <1>1, <2>1 DEF Connection
  <2>5. ConnType'
    <3>1. [conn EXCEPT !.subs = S] \in Connection BY <1>1, <2>2, ConnectionSteps
    <3>2. QED BY <2>1, <3>1 DEF ConnType
  <2>6. waiting' = waiting BY <1>3, <2>4 DEF waiting
  <2>7. Counted'
    <3>1. subscribing_ids' = subscribing_ids BY <2>4 DEF subscribing_ids
    <3>2. IsFiniteSet(S) /\ Cardinality(S) <= Cardinality(conn.subs) BY <2>2, FS_Subset DEF Counted
    <3>3. IsFiniteSet(subscribing_ids) /\ IsFiniteSet(conn.subs) BY FS_Subset DEF Counted, subscribing_ids
    <3>4. Cardinality(S) \in Nat /\ Cardinality(conn.subs) \in Nat /\ Cardinality(subscribing_ids) \in Nat
      BY <3>2, <3>3, FS_CardinalityType
    <3>5. QED BY ProxyAssumption, <2>4, <3>1, <3>2, <3>4 DEF Counted
  <2>8. Remembered' BY <1>3, <2>4 DEF Remembered
  <2>9. WaitingKnown' BY <1>2, <1>3, <2>4, <2>6 DEF WaitingKnown
  <2>10. AnswersMatch'
    <3> SUFFICES ASSUME NEW k \in DOMAIN Tail(paid.answers), Tail(paid.answers)[k].id # NoId
                 PROVE  /\ Tail(paid.answers)[k].id \in D
                        /\ \A j \in DOMAIN Tail(paid.answers) :
                              Tail(paid.answers)[j].id = Tail(paid.answers)[k].id => j = k
      BY <1>3, <2>4 DEF AnswersMatch
    <3>1. k \in Nat /\ \A j \in DOMAIN Tail(paid.answers) : j \in Nat BY <1>2
    <3>2. QED BY <1>2, <3>1 DEF AnswersMatch
  <2>11. \A k \in DOMAIN Tail(paid.answers) : (says(k + 1) => says(k)') /\ taken_off(k)' = taken_off(k + 1)
    <3> SUFFICES ASSUME NEW k \in DOMAIN Tail(paid.answers)
                 PROVE  (says(k + 1) => says(k)') /\ taken_off(k)' = taken_off(k + 1)
      OBVIOUS
    <3>1. paid'.answers[k] = paid.answers[k + 1] BY <1>2, <1>3
    <3>2. says(k + 1) => says(k)' BY <2>4, <3>1 DEF says
    <3>3. taken_off(k)' = taken_off(k + 1) BY <2>4, <3>1 DEF taken_off
    <3>4. QED BY <3>2, <3>3
  <2>12. LiveKnown'
    <3> SUFFICES ASSUME NEW l \in paid.live
                 PROVE  l.sub \in S \/ \E k \in DOMAIN Tail(paid.answers) : says(k)' /\ Tail(paid.answers)[k].sub = l.sub
      BY <1>3, <2>4 DEF LiveKnown
    <3>1. CASE l.sub \in conn.subs BY <2>3, <3>1
    <3>2. CASE l.sub \notin conn.subs
      <4>1. PICK k \in DOMAIN paid.answers : says(k) /\ paid.answers[k].sub = l.sub BY <3>2 DEF LiveKnown
      <4>2. k # 1 BY <1>7, <4>1 DEF says, m
      <4>3. k - 1 \in DOMAIN Tail(paid.answers) /\ (k - 1) + 1 = k BY <1>2, <4>2
      <4>4. QED BY <1>2, <2>11, <4>1, <4>3
    <3>3. QED BY <3>1, <3>2
  <2>13. EndedStaysEnded' BY <1>2, <1>3, <2>11 DEF EndedStaysEnded
  <2>14. QED BY <1>4, <2>5, <2>7, <2>8, <2>9, <2>10, <2>12, <2>13
<1>8. CASE m.id # NoId
  <2> DEFINE c == conn.inflight[m.id]
             F == [i \in D \ {m.id} |-> conn.inflight[i]]
             P == IF c.method \in Subscribes THEN conn.pendingSubs - 1 ELSE conn.pendingSubs
             S == IF ~m.ok THEN conn.subs
                  ELSE IF c.method = "unsubscribe" THEN conn.subs \ {c.sub}
                  ELSE IF c.method \in Subscribes THEN conn.subs \cup {m.sub}
                  ELSE conn.subs
  <2>1. conn' = [conn EXCEPT !.inflight = F, !.pendingSubs = P, !.subs = S] BY <1>2, <1>8 DEF noteUpstream
  <2>2. m.id \in D /\ \A k \in DOMAIN paid.answers : paid.answers[k].id = m.id => k = 1
    BY <1>2, <1>8 DEF AnswersMatch, m
  <2>3. c \in RelayCall /\ c.id = m.id BY <1>5, <2>2 DEF Remembered
  <2>4. c.sub \in Nat /\ "unsubscribe" \notin Subscribes BY <2>3 DEF RelayCall, Subscribes
  <2>5. F \in Memory
    <3>1. D \ {m.id} \in SUBSET Ids /\ F \in [D \ {m.id} -> RelayCall] BY <1>5
    <3>2. QED BY <3>1 DEF Memory
  <2>6. DOMAIN F = D \ {m.id} /\ \A i \in D \ {m.id} : F[i] = conn.inflight[i] OBVIOUS
  <2>7. S \in SUBSET Nat /\ (S \subseteq conn.subs \/ (c.method \in Subscribes /\ S = conn.subs \cup {m.sub}))
    BY <1>1, <1>6, <2>4
  <2>8. \A l \in paid.live : l.sub \in conn.subs => l.sub \in S
    <3>1. m.ok /\ c.method = "unsubscribe" => c.sub \in taken_off(1) BY <1>8 DEF taken_off, m
    <3>2. m.ok /\ c.method = "unsubscribe" => \A l \in paid.live : l.sub # c.sub
      BY <1>2, <3>1 DEF EndedStaysEnded
    <3>3. QED BY <3>2
  <2>9. m.ok /\ c.method \in Subscribes => m.sub \in S BY <2>4
  <2>10. P = IF c.method \in Subscribes THEN conn.pendingSubs - 1 ELSE conn.pendingSubs OBVIOUS
  <2> HIDE DEF S, F, P
  <2>11. /\ conn'.inflight = F /\ conn'.pendingSubs = P /\ conn'.subs = S /\ conn'.pending = conn.pending
    BY <1>1, <2>1 DEF Connection
  <2>12. waiting' = waiting BY <1>3, <2>11 DEF waiting
  <2>13. Counted' /\ P \in Nat
    <3>1. subscribing_ids' = subscribing_ids \ {m.id} BY <2>6, <2>11 DEF subscribing_ids
    <3>2. m.id \in subscribing_ids <=> c.method \in Subscribes BY <2>2 DEF subscribing_ids
    <3>3. IsFiniteSet(D) /\ IsFiniteSet(subscribing_ids) /\ IsFiniteSet(conn.subs)
      BY FS_Subset DEF Counted, subscribing_ids
    <3>4. IsFiniteSet(D \ {m.id}) /\ IsFiniteSet(subscribing_ids \ {m.id}) BY <3>3, FS_RemoveElement
    <3>5. Cardinality(subscribing_ids \ {m.id}) =
            IF m.id \in subscribing_ids THEN Cardinality(subscribing_ids) - 1 ELSE Cardinality(subscribing_ids)
      BY <3>3, FS_RemoveElement
    <3>6. P = Cardinality(subscribing_ids \ {m.id}) BY <2>10, <3>2, <3>5 DEF Counted
    <3>7. Cardinality(subscribing_ids \ {m.id}) \in Nat /\ Cardinality(conn.subs) \in Nat
          /\ Cardinality(subscribing_ids) \in Nat
      BY <3>3, <3>4, FS_CardinalityType
    <3>8. IsFiniteSet(S) /\ Cardinality(S) + P <= RPC_MAX_SUBSCRIPTIONS /\ Cardinality(S) \in Nat
      <4>1. CASE S \subseteq conn.subs
        <5>1. IsFiniteSet(S) /\ Cardinality(S) <= Cardinality(conn.subs) BY <3>3, <4>1, FS_Subset
        <5>2. Cardinality(S) \in Nat BY <5>1, FS_CardinalityType
        <5>3. P <= Cardinality(subscribing_ids) BY <3>5, <3>6, <3>7
        <5>4. Cardinality(conn.subs) + Cardinality(subscribing_ids) <= RPC_MAX_SUBSCRIPTIONS BY DEF Counted
        <5>5. QED BY ProxyAssumption, <3>6, <3>7, <5>1, <5>2, <5>3, <5>4
      <4>2. CASE c.method \in Subscribes /\ S = conn.subs \cup {m.sub}
        <5>1. IsFiniteSet(S) /\ Cardinality(S) <= Cardinality(conn.subs) + 1
          <6>1. /\ IsFiniteSet(conn.subs \cup {m.sub})
                /\ Cardinality(conn.subs \cup {m.sub}) =
                     IF m.sub \in conn.subs THEN Cardinality(conn.subs) ELSE Cardinality(conn.subs) + 1
            BY <3>3, FS_AddElement
          <6>2. QED BY <3>7, <4>2, <6>1
        <5>2. Cardinality(S) \in Nat BY <5>1, FS_CardinalityType
        <5>3. P = Cardinality(subscribing_ids) - 1 BY <3>2, <3>5, <3>6, <4>2
        <5>4. Cardinality(conn.subs) + Cardinality(subscribing_ids) <= RPC_MAX_SUBSCRIPTIONS BY DEF Counted
        <5>5. QED BY ProxyAssumption, <3>6, <3>7, <5>1, <5>2, <5>3, <5>4
      <4>3. QED BY <2>7, <4>1, <4>2
    <3>9. QED BY <2>6, <2>11, <3>1, <3>4, <3>6, <3>7, <3>8 DEF Counted
  <2>14. ConnType'
    <3>1. [conn EXCEPT !.inflight = F, !.pendingSubs = P, !.subs = S] \in Connection
      BY <1>1, <2>5, <2>7, <2>13, ConnectionSteps
    <3>2. QED BY <2>1, <3>1 DEF ConnType
  <2>15. Remembered' BY <1>3, <2>6, <2>11 DEF Remembered
  <2>16. WaitingKnown'
    <3> SUFFICES ASSUME NEW d \in waiting, d.id # NoId
                 PROVE  /\ d.id \in D \ {m.id} /\ F[d.id] = d
                        /\ \A k \in DOMAIN Tail(paid.answers) : Tail(paid.answers)[k].id # d.id
      BY <1>3, <2>6, <2>11, <2>12 DEF WaitingKnown
    <3>1. /\ d.id \in D /\ conn.inflight[d.id] = d
          /\ \A k \in DOMAIN paid.answers : paid.answers[k].id # d.id
      BY DEF WaitingKnown
    <3>2. d.id # m.id BY <1>2, <3>1 DEF m
    <3>3. QED BY <1>2, <2>6, <3>1, <3>2
  <2>17. \A k \in DOMAIN Tail(paid.answers) :
           Tail(paid.answers)[k].id # NoId => Tail(paid.answers)[k].id \in D \ {m.id}
    BY <1>2, <2>2 DEF AnswersMatch
  <2>18. AnswersMatch'
    <3> SUFFICES ASSUME NEW k \in DOMAIN Tail(paid.answers), Tail(paid.answers)[k].id # NoId
                 PROVE  /\ Tail(paid.answers)[k].id \in D \ {m.id}
                        /\ \A j \in DOMAIN Tail(paid.answers) :
                              Tail(paid.answers)[j].id = Tail(paid.answers)[k].id => j = k
      BY <1>3, <2>6, <2>11 DEF AnswersMatch
    <3>1. k \in Nat /\ \A j \in DOMAIN Tail(paid.answers) : j \in Nat BY <1>2
    <3>2. QED BY <1>2, <2>17, <3>1 DEF AnswersMatch
  <2>19. \A k \in DOMAIN Tail(paid.answers) : (says(k + 1) => says(k)') /\ taken_off(k)' = taken_off(k + 1)
    <3> SUFFICES ASSUME NEW k \in DOMAIN Tail(paid.answers)
                 PROVE  (says(k + 1) => says(k)') /\ taken_off(k)' = taken_off(k + 1)
      OBVIOUS
    <3>1. paid'.answers[k] = paid.answers[k + 1] BY <1>2, <1>3
    <3>2. paid.answers[k + 1].id # NoId =>
            conn'.inflight[paid.answers[k + 1].id] = conn.inflight[paid.answers[k + 1].id]
      BY <1>2, <2>6, <2>11, <2>17
    <3>3. says(k + 1) => says(k)' BY <3>1, <3>2 DEF says
    <3>4. taken_off(k)' = taken_off(k + 1) BY <3>1, <3>2 DEF taken_off
    <3>5. QED BY <3>3, <3>4
  <2>20. LiveKnown'
    <3> SUFFICES ASSUME NEW l \in paid.live
                 PROVE  l.sub \in S \/ \E k \in DOMAIN Tail(paid.answers) : says(k)' /\ Tail(paid.answers)[k].sub = l.sub
      BY <1>3, <2>11 DEF LiveKnown
    <3>1. CASE l.sub \in conn.subs BY <2>8, <3>1
    <3>2. CASE l.sub \notin conn.subs
      <4>1. PICK k \in DOMAIN paid.answers : says(k) /\ paid.answers[k].sub = l.sub BY <3>2 DEF LiveKnown
      <4>2. CASE k = 1
        <5>1. m.ok /\ c.method \in Subscribes /\ m.sub = l.sub BY <4>1, <4>2 DEF says, m
        <5>2. QED BY <2>9, <5>1
      <4>3. CASE k # 1
        <5>1. k - 1 \in DOMAIN Tail(paid.answers) /\ (k - 1) + 1 = k BY <1>2, <4>3
        <5>2. QED BY <1>2, <2>19, <4>1, <5>1
      <4>4. QED BY <4>2, <4>3
    <3>3. QED BY <3>1, <3>2
  <2>21. EndedStaysEnded' BY <1>2, <1>3, <2>19 DEF EndedStaysEnded
  <2>22. QED BY <1>4, <2>13, <2>14, <2>15, <2>16, <2>18, <2>20, <2>21
<1>9. QED BY <1>7, <1>8

LEMMA ProxyInitInv == ProxyInit => ProxyInv
<1> SUFFICES ASSUME ProxyInit PROVE ProxyInv OBVIOUS
<1> USE ProxyAssumption
<1> DEFINE none == [i \in NoCall |-> i]
<1>1. DOMAIN none = {} /\ none \in Memory
  <2>1. none \in [{} -> RelayCall] /\ {} \in SUBSET Ids BY DEF NoCall
  <2>2. QED BY <2>1 DEF Memory, NoCall
<1> HIDE DEF none
<1>2. conn = [client |-> "open", upstream |-> "connecting", closed |-> FALSE, pending |-> <<>>,
              inflight |-> none, subs |-> {}, pendingSubs |-> 0, tokens |-> RPC_BURST]
      /\ paid = [asked |-> {}, answers |-> <<>>, live |-> {}, issued |-> 0]
  BY DEF ProxyInit, none
<1>3. <<>> \in Kept /\ <<>> \in OnTheWay /\ {} \in Carried /\ {} \in SUBSET Nat /\ {} \in SUBSET RelayCall
  BY DEF Kept, OnTheWay, Carried
<1>4. ConnType BY <1>1, <1>2, <1>3 DEF ConnType, Connection
<1>5. PaidType BY <1>2, <1>3 DEF PaidType, Upstream
<1>6. SocketsAgree BY <1>2 DEF SocketsAgree
<1>7. waiting = {} /\ subscribing_ids = {}
  <2>1. ToSet(conn.pending) = {} BY <1>2 DEF ToSet
  <2>2. subscribing_ids = {} BY <1>1, <1>2 DEF subscribing_ids
  <2>3. QED BY <1>2, <2>1, <2>2 DEF waiting
<1>8. Counted BY <1>1, <1>2, <1>7, FS_EmptySet DEF Counted
<1>9. Remembered /\ WaitingKnown /\ AnswersMatch /\ LiveKnown /\ EndedStaysEnded
  BY <1>1, <1>2, <1>7 DEF Remembered, WaitingKnown, AnswersMatch, LiveKnown, EndedStaysEnded
<1>10. QED BY <1>4, <1>5, <1>6, <1>8, <1>9 DEF ProxyInv, AccountInv

\* The upstream socket opens: what waited is now asked.
LEMMA OpenKeeps ==
  ASSUME ProxyInv, UpstreamOpen
  PROVE  ProxyInv'
<1>1. conn \in Connection /\ paid \in Upstream /\ conn.pending \in Kept /\ paid.asked = {}
  BY DEF ProxyInv, ConnType, PaidType, Connection, UpstreamOpen, SocketsAgree
<1>2. /\ conn' = [conn EXCEPT !.upstream = "open", !.pending = <<>>]
      /\ paid' = [paid EXCEPT !.asked = waiting]
  BY <1>1 DEF UpstreamOpen, waiting
<1>3. waiting \in SUBSET RelayCall
  <2>1. \A frame \in ToSet(conn.pending) : ToSet(frame) \subseteq RelayCall
    <3>1. conn.pending \in Seq(Seq(RelayCall)) BY <1>1 DEF Kept
    <3>2. \A frame \in ToSet(conn.pending) : frame \in Seq(RelayCall) BY <3>1 DEF ToSet
    <3>3. \A frame \in Seq(RelayCall) : ToSet(frame) \subseteq RelayCall BY DEF ToSet
    <3>4. QED BY <3>2, <3>3
  <2>2. QED BY <1>1, <2>1 DEF waiting
<1>4. ConnType' /\ PaidType'
  <2>1. <<>> \in Kept BY DEF Kept
  <2>2. [conn EXCEPT !.upstream = "open", !.pending = <<>>] \in Connection BY <1>1, <2>1, ConnectionSteps
  <2>3. [paid EXCEPT !.asked = waiting] \in Upstream BY <1>1, <1>3 DEF Upstream
  <2>4. QED BY <1>2, <2>2, <2>3 DEF ConnType, PaidType
<1>5. /\ UNCHANGED <<conn.inflight, conn.subs, conn.pendingSubs, conn.closed, conn.client>>
      /\ UNCHANGED <<paid.answers, paid.live, paid.issued>>
      /\ conn'.upstream = "open" /\ conn'.pending = <<>> /\ paid'.asked = waiting
  BY <1>1, <1>2 DEF Connection, Upstream
<1>6. SocketsAgree' BY <1>5 DEF ProxyInv, SocketsAgree, UpstreamOpen
<1>7. waiting' = waiting
  <2>1. ToSet(conn'.pending) = {} BY <1>5 DEF ToSet
  <2>2. QED BY <1>5, <2>1 DEF waiting
<1>8. Open' => Open BY <1>5 DEF Open, SocketsAgree, ProxyInv
<1>9. QED BY <1>4, <1>5, <1>6, <1>7, <1>8, AccountKept DEF ProxyInv

\* A frame, refused or let through.
LEMMA MessageKeeps ==
  ASSUME ProxyInv, ClientMessage
  PROVE  ProxyInv'
<1>1. conn \in Connection /\ conn \in Unclosed /\ paid \in Upstream /\ PaidType /\ ConnType /\ Open /\ AccountInv
      /\ SocketsAgree
  BY DEF ProxyInv, ConnType, PaidType, ClientMessage, Open, Unclosed
<1>2. 1013 \in CloseCodes BY DEF CloseCodes
<1>3. CASE closes(conn, 1013) BY <1>1, <1>2, <1>3, ClosesKeeps
<1>4. ASSUME NEW frame \in Frames, frame_admitted(frame), closes(accounted(frame), 1013)
      PROVE  ProxyInv'
  <2>1. accounted(frame) \in Connection /\ accounted(frame).closed = conn.closed
    BY <1>1, <1>4, AccountedConnection
  <2>2. accounted(frame) \in Unclosed BY <1>1, <2>1 DEF Unclosed
  <2>3. QED BY <1>1, <1>2, <1>4, <2>2, ClosesKeeps
<1>5. ASSUME NEW frame \in Frames, frame_admitted(frame), conn.upstream = "connecting",
             conn' = [accounted(frame) EXCEPT !.pending = Append(@, frame)], UNCHANGED paid
      PROVE  ProxyInv'
  <2> DEFINE c == accounted(frame)
             p == Append(conn.pending, frame)
  <2>1. /\ c \in Connection /\ c.subs = conn.subs /\ c.pending = conn.pending
        /\ c.pendingSubs = conn.pendingSubs + Cardinality(subscribing(frame))
        /\ c.client = conn.client /\ c.upstream = conn.upstream /\ c.closed = conn.closed
    BY <1>1, <1>5, AccountedConnection
  <2>2. conn' = [c EXCEPT !.pending = p] BY <1>5, <2>1
  <2>3. conn.pending \in Seq(Seq(RelayCall)) /\ frame \in Seq(RelayCall)
    <3>1. conn.pending \in Kept BY <1>1 DEF Connection
    <3>2. QED BY <1>1, <1>5, <3>1, FrameIs DEF Kept
  <2>4. p \in Kept BY <2>3, AppendIs DEF Kept
  <2>5. ToSet(p) = ToSet(conn.pending) \cup {frame} BY <2>3, AppendIs DEF ToSet
  <2> HIDE DEF c, p
  <2>6. ConnType'
    <3>1. [c EXCEPT !.pending = p] \in Connection BY <2>1, <2>4, ConnectionSteps
    <3>2. QED BY <2>2, <3>1 DEF ConnType
  <2>7. /\ conn'.inflight = c.inflight /\ conn'.subs = c.subs /\ conn'.pendingSubs = c.pendingSubs
        /\ conn'.client = c.client /\ conn'.upstream = c.upstream /\ conn'.closed = c.closed
        /\ conn'.pending = p
    BY <2>1, <2>2 DEF Connection
  <2>8. waiting' \subseteq waiting \cup ToSet(frame)
    <3>1. waiting' = paid.asked \cup UNION {ToSet(f) : f \in ToSet(p)} BY <1>5, <2>7 DEF waiting
    <3>2. QED BY <2>5, <3>1 DEF waiting
  <2>9. AccountInv' BY <1>1, <1>5, <2>1, <2>7, <2>8, FrameKeeps DEF c
  <2>10. SocketsAgree' BY <1>1, <1>5, <2>1, <2>7 DEF SocketsAgree
  <2>11. PaidType' BY <1>1, <1>5 DEF PaidType
  <2>12. QED BY <2>6, <2>9, <2>10, <2>11 DEF ProxyInv
<1>6. ASSUME NEW frame \in Frames, frame_admitted(frame), conn.upstream = "open",
             conn' = accounted(frame), paid' = [paid EXCEPT !.asked = @ \cup ToSet(frame)]
      PROVE  ProxyInv'
  <2> DEFINE c == accounted(frame)
  <2>1. /\ c \in Connection /\ c.subs = conn.subs /\ c.pending = conn.pending
        /\ c.pendingSubs = conn.pendingSubs + Cardinality(subscribing(frame))
        /\ c.client = conn.client /\ c.upstream = conn.upstream /\ c.closed = conn.closed
    BY <1>1, <1>6, AccountedConnection
  <2>2. ConnType' BY <1>6, <2>1 DEF ConnType
  <2>3. ToSet(frame) \subseteq RelayCall
    <3>1. frame \in Seq(RelayCall) BY <1>1, <1>6, FrameIs
    <3>2. QED BY <3>1 DEF ToSet
  <2>4. PaidType'
    <3>1. paid.asked \cup ToSet(frame) \in SUBSET RelayCall BY <1>1, <2>3 DEF Upstream
    <3>2. [paid EXCEPT !.asked = paid.asked \cup ToSet(frame)] \in Upstream BY <1>1, <3>1 DEF Upstream
    <3>3. QED BY <1>6, <3>2 DEF PaidType
  <2>5. /\ UNCHANGED <<paid.answers, paid.live, paid.issued>> /\ paid'.asked = paid.asked \cup ToSet(frame)
    BY <1>1, <1>6 DEF Upstream
  <2>6. waiting' \subseteq waiting \cup ToSet(frame) BY <1>6, <2>1, <2>5 DEF waiting
  <2>7. AccountInv' BY <1>1, <1>6, <2>1, <2>5, <2>6, FrameKeeps
  <2>8. SocketsAgree' BY <1>1, <1>6, <2>1 DEF SocketsAgree
  <2>9. QED BY <2>2, <2>4, <2>7, <2>8 DEF ProxyInv
<1>7. QED BY <1>3, <1>4, <1>5, <1>6 DEF ClientMessage

\* What the upstream does with the calls it has.
LEMMA ServeKeeps ==
  ASSUME ProxyInv, Serve \/ ServeError
  PROVE  ProxyInv'
<1>1. PICK c \in paid.asked :
        \/ paid' = LET taken == [paid EXCEPT !.asked = @ \ {c}] IN
                   IF c.method \in Subscribes
                   THEN [taken EXCEPT !.issued = @ + 1,
                                      !.live = @ \cup {[sub |-> paid.issued + 1, signature |-> c.method = "signatureSubscribe"]},
                                      !.answers = answered(c, TRUE, paid.issued + 1)]
                   ELSE [taken EXCEPT !.live = {l \in @ : c.method = "unsubscribe" => l.sub # c.sub},
                                      !.answers = answered(c, c.method = "unsubscribe" =>
                                                                \E l \in paid.live : l.sub = c.sub, NoSub)]
        \/ paid' = [paid EXCEPT !.asked = @ \ {c}, !.answers = answered(c, FALSE, NoSub)]
  BY DEF Serve, ServeError
<1>2. UNCHANGED conn BY DEF Serve, ServeError
<1>3. paid \in Upstream /\ PaidType /\ ConnType /\ SocketsAgree
      /\ paid.issued \in Nat /\ paid.live \in Carried /\ paid.asked \ {c} \in SUBSET RelayCall
  BY DEF ProxyInv, PaidType, Upstream
<1>4. conn.upstream = "open" /\ Open
  BY <1>1, <1>3 DEF SocketsAgree, Open, ConnType, Connection
<1>5. AccountInv BY <1>4 DEF ProxyInv
<1> DEFINE keeps(ok, sub, live, issued) ==
             /\ paid' = [asked |-> paid.asked \ {c}, answers |-> answered(c, ok, sub), live |-> live,
                         issued |-> issued]
             /\ \A l \in live : /\ l \in paid.live \/ (ok /\ c.method \in Subscribes /\ l.sub = sub)
                                /\ l.sub <= issued
                                /\ l \notin paid.live => l.sub > paid.issued
                                /\ \A k \in live : k.sub = l.sub => k = l
             /\ ok /\ c.method = "unsubscribe" => \A l \in live : l.sub # c.sub
<1>6. ASSUME NEW ok \in BOOLEAN, NEW sub \in Nat, NEW live \in Carried, NEW issued \in Nat,
             paid.issued <= issued, keeps(ok, sub, live, issued)
      PROVE  ProxyInv'
  <2>1. /\ paid'.asked = paid.asked \ {c} /\ paid'.answers = answered(c, ok, sub)
        /\ paid'.live = live /\ paid'.issued = issued
    BY <1>6
  <2>2. AccountInv' /\ answered(c, ok, sub) \in OnTheWay
    BY <1>2, <1>3, <1>4, <1>5, <1>6, <2>1, AnswerKeeps
  <2>3. PaidType'
    <3>1. [asked |-> paid.asked \ {c}, answers |-> answered(c, ok, sub), live |-> live, issued |-> issued]
             \in Upstream
      BY <1>3, <1>6, <2>2, UpstreamSteps
    <3>2. QED BY <1>6, <3>1 DEF PaidType
  <2>4. ConnType' BY <1>2, <1>3 DEF ConnType
  <2>5. SocketsAgree' BY <1>2, <1>3, <1>4, <2>1 DEF SocketsAgree, Open
  <2>6. QED BY <2>2, <2>3, <2>4, <2>5 DEF ProxyInv
<1>7. /\ \A l \in paid.live : l.sub \in Nat /\ l.sub <= paid.issued /\ \A k \in paid.live : k.sub = l.sub => k = l
      /\ NoSub \in Nat
  BY <1>3, <1>5 DEF AccountInv, LiveKnown, Carried, NoSub
<1>8. CASE paid' = [paid EXCEPT !.asked = @ \ {c}, !.answers = answered(c, FALSE, NoSub)]
  <2>1. paid' = [asked |-> paid.asked \ {c}, answers |-> answered(c, FALSE, NoSub), live |-> paid.live,
                 issued |-> paid.issued]
    BY <1>3, <1>8 DEF Upstream
  <2>2. keeps(FALSE, NoSub, paid.live, paid.issued) BY <1>7, <2>1
  <2>3. /\ FALSE \in BOOLEAN /\ NoSub \in Nat /\ paid.live \in Carried
        /\ paid.issued \in Nat /\ paid.issued <= paid.issued
    BY <1>3, <1>7
  <2> HIDE DEF keeps
  <2>4. QED BY <1>6, <2>2, <2>3
<1>9. CASE c.method \notin Subscribes /\ paid' # [paid EXCEPT !.asked = @ \ {c}, !.answers = answered(c, FALSE, NoSub)]
  <2> DEFINE ok == c.method = "unsubscribe" => \E l \in paid.live : l.sub = c.sub
             rest == {l \in paid.live : c.method = "unsubscribe" => l.sub # c.sub}
  <2>1. paid' = [asked |-> paid.asked \ {c}, answers |-> answered(c, ok, NoSub), live |-> rest,
                 issued |-> paid.issued]
    BY <1>1, <1>3, <1>9 DEF Upstream
  <2>2. rest \in Carried /\ ok \in BOOLEAN BY <1>3 DEF Carried
  <2>3. rest \subseteq paid.live /\ (c.method = "unsubscribe" => \A l \in rest : l.sub # c.sub) OBVIOUS
  <2> HIDE DEF ok, rest
  <2>4. keeps(ok, NoSub, rest, paid.issued) BY <1>7, <2>1, <2>3
  <2>5. NoSub \in Nat /\ paid.issued \in Nat /\ paid.issued <= paid.issued BY <1>3, <1>7
  <2> HIDE DEF keeps
  <2>6. QED BY <1>6, <2>2, <2>4, <2>5
<1>10. CASE c.method \in Subscribes /\ paid' # [paid EXCEPT !.asked = @ \ {c}, !.answers = answered(c, FALSE, NoSub)]
  <2> DEFINE new == [sub |-> paid.issued + 1, signature |-> c.method = "signatureSubscribe"]
             more == paid.live \cup {new}
  <2>1. paid' = [asked |-> paid.asked \ {c}, answers |-> answered(c, TRUE, paid.issued + 1), live |-> more,
                 issued |-> paid.issued + 1]
    BY <1>1, <1>3, <1>10 DEF Upstream
  <2>2. more \in Carried
    <3>1. paid.issued + 1 \in Nat /\ (c.method = "signatureSubscribe") \in BOOLEAN BY <1>3
    <3>2. new \in [sub : Nat, signature : BOOLEAN] BY <3>1
    <3>3. QED BY <1>3, <3>2 DEF Carried
  <2>3. new.sub = paid.issued + 1 OBVIOUS
  <2>4. c.method # "unsubscribe" BY <1>10 DEF Subscribes
  <2> HIDE DEF new
  <2>5. \A l \in more : /\ l \in paid.live \/ l.sub = paid.issued + 1
                        /\ l.sub <= paid.issued + 1
                        /\ l \notin paid.live => l.sub > paid.issued
                        /\ \A k \in more : k.sub = l.sub => k = l
    BY <1>3, <1>7, <2>3
  <2> HIDE DEF more
  <2>6. keeps(TRUE, paid.issued + 1, more, paid.issued + 1) BY <1>10, <2>1, <2>4, <2>5
  <2>7. TRUE \in BOOLEAN /\ paid.issued + 1 \in Nat /\ paid.issued <= paid.issued + 1 BY <1>3
  <2> HIDE DEF keeps
  <2>8. QED BY <1>6, <2>2, <2>6, <2>7
<1>11. QED BY <1>8, <1>9, <1>10

\* A notification is put on its way.
LEMMA NotifiedKeeps ==
  ASSUME ProxyInv, Notify
  PROVE  ProxyInv'
<1>1. PICK l \in paid.live, final \in BOOLEAN :
        paid' = [paid EXCEPT !.answers = Append(@, notification(l.sub, final)),
                             !.live = IF final THEN @ \ {l} ELSE @]
  BY DEF Notify
<1>2. UNCHANGED conn BY DEF Notify
<1>3. paid \in Upstream /\ PaidType /\ ConnType /\ SocketsAgree /\ paid.live \in Carried
  BY DEF ProxyInv, PaidType, Upstream
<1>4. Open /\ ~conn.closed BY <1>1, <1>3 DEF SocketsAgree, Open, ConnType, Connection
<1>5. AccountInv BY <1>4 DEF ProxyInv
<1> DEFINE rest == IF final THEN paid.live \ {l} ELSE paid.live
           more == Append(paid.answers, notification(l.sub, final))
<1>6. paid' = [paid EXCEPT !.answers = more, !.live = rest] BY <1>1, <1>3 DEF Upstream
<1>7. rest \in Carried BY <1>3 DEF Carried
<1> HIDE DEF more, rest
<1>8. paid'.answers = more /\ paid'.live = rest /\ paid'.asked = paid.asked /\ paid'.issued = paid.issued
  BY <1>3, <1>6 DEF Upstream
<1>9. AccountInv' /\ paid'.answers \in OnTheWay
  BY <1>2, <1>3, <1>5, <1>8, NotifyKeeps DEF more, rest
<1>10. PaidType'
  <2>1. [paid EXCEPT !.answers = more, !.live = rest] \in Upstream
    BY <1>3, <1>7, <1>8, <1>9, UpstreamSteps
  <2>2. QED BY <1>6, <2>1 DEF PaidType
<1>11. ConnType' BY <1>2, <1>3 DEF ConnType
<1>12. SocketsAgree' BY <1>2, <1>3, <1>4, <1>8 DEF SocketsAgree
<1>13. QED BY <1>9, <1>10, <1>11, <1>12 DEF ProxyInv

\* A message from upstream is noted, or the browser has stopped reading.
LEMMA ReadKeeps ==
  ASSUME ProxyInv, UpstreamMessage
  PROVE  ProxyInv'
<1>1. conn \in Connection /\ conn \in Unclosed /\ paid \in Upstream /\ PaidType /\ ConnType /\ Open
      /\ AccountInv /\ SocketsAgree /\ paid.answers # <<>>
  BY DEF ProxyInv, ConnType, PaidType, UpstreamMessage, Open, Unclosed
<1>2. CASE closes(conn, 1013)
  <2>1. 1013 \in CloseCodes BY DEF CloseCodes
  <2>2. QED BY <1>1, <1>2, <2>1, ClosesKeeps
<1>3. CASE conn' = noteUpstream(Head(paid.answers)) /\ paid' = [paid EXCEPT !.answers = Tail(@)]
  <2>1. AccountInv' /\ ConnType' /\ PaidType' BY <1>1, <1>3, NoteKeeps
  <2>2. /\ conn'.client = conn.client /\ conn'.upstream = conn.upstream /\ conn'.closed = conn.closed
        /\ conn'.pending = conn.pending
    BY <1>1, <1>3 DEF noteUpstream, Connection
  <2>3. paid'.asked = paid.asked /\ paid'.live = paid.live BY <1>1, <1>3 DEF Upstream
  <2>4. SocketsAgree' BY <1>1, <2>2, <2>3 DEF SocketsAgree
  <2>5. QED BY <2>1, <2>4 DEF ProxyInv
<1>4. QED BY <1>2, <1>3 DEF UpstreamMessage

\* Time passes.
LEMMA RefillKeeps ==
  ASSUME ProxyInv, Refill
  PROVE  ProxyInv'
<1>1. /\ conn \in Connection /\ PaidType /\ AccountInv /\ SocketsAgree /\ conn.tokens \in Int
      /\ conn' = [conn EXCEPT !.tokens = conn.tokens + 1] /\ UNCHANGED paid
  BY DEF ProxyInv, ConnType, Connection, Refill, Open
<1>2. ConnType'
  <2>1. conn.tokens + 1 \in Int BY <1>1
  <2>2. [conn EXCEPT !.tokens = conn.tokens + 1] \in Connection BY <1>1, <2>1, ConnectionSteps
  <2>3. QED BY <1>1, <2>2 DEF ConnType
<1>3. /\ UNCHANGED <<conn.inflight, conn.subs, conn.pendingSubs, conn.client, conn.upstream, conn.closed>>
      /\ UNCHANGED conn.pending
  BY <1>1 DEF Connection
<1>4. waiting' = waiting BY <1>1, <1>3 DEF waiting
<1>5. AccountInv' BY <1>1, <1>3, <1>4, AccountKept
<1>6. SocketsAgree' BY <1>1, <1>3 DEF SocketsAgree
<1>7. PaidType' BY <1>1 DEF PaidType
<1>8. QED BY <1>2, <1>5, <1>6, <1>7 DEF ProxyInv

\* Either socket ends, and the other is closed with it.
LEMMA SocketsKeep ==
  ASSUME ProxyInv, ClientClose \/ UpstreamClose
  PROVE  ProxyInv'
<1>1. conn \in Connection /\ PaidType /\ SocketsAgree BY DEF ProxyInv, ConnType
<1>2. conn.closed \in BOOLEAN /\ ~conn.closed
  BY <1>1 DEF ClientClose, UpstreamClose, SocketsAgree, Connection
<1>3. \A code \in {1000, 1005, 1006, 1011} : code \in CloseCodes BY DEF CloseCodes
<1> HIDE DEF CloseCodes
<1>4. [conn EXCEPT !.client = "closed"] \in Unclosed /\ [conn EXCEPT !.upstream = "closed"] \in Unclosed
  <2>1. [conn EXCEPT !.client = "closed"] \in Connection /\ [conn EXCEPT !.upstream = "closed"] \in Connection
    BY <1>1, ConnectionSteps
  <2>2. [conn EXCEPT !.client = "closed"].closed = conn.closed /\ [conn EXCEPT !.upstream = "closed"].closed = conn.closed
    BY <1>1 DEF Connection
  <2>3. QED BY <1>2, <2>1, <2>2 DEF Unclosed
<1>5. CASE ClientClose
  <2>1. PICK code \in CloseCodes : closes([conn EXCEPT !.client = "closed"], code)
    BY <1>3, <1>5 DEF ClientClose
  <2>2. QED BY <1>1, <1>4, <2>1, ClosesKeeps
<1>6. CASE UpstreamClose
  <2>1. PICK code \in CloseCodes : closes([conn EXCEPT !.upstream = "closed"], code)
    BY <1>3, <1>6 DEF UpstreamClose
  <2>2. QED BY <1>1, <1>4, <2>1, ClosesKeeps
<1>7. QED BY <1>5, <1>6

\* The account of the proxy agrees with the calls, answers and subscriptions of the upstream
\* through every frame, error, final notification and close (apps/realtime/src/index.ts:
\* noteUpstream, closeBoth).
THEOREM ProxyInvariant == ProxySpec => []ProxyInv
<1>1. ProxyInit => ProxyInv BY ProxyInitInv
<1>2. ProxyInv /\ [ProxyNext]_proxyVars => ProxyInv'
  <2> SUFFICES ASSUME ProxyInv, [ProxyNext]_proxyVars PROVE ProxyInv' OBVIOUS
  <2>1. CASE UpstreamOpen BY <2>1, OpenKeeps
  <2>2. CASE ClientMessage BY <2>2, MessageKeeps
  <2>3. CASE Refill BY <2>3, RefillKeeps
  <2>4. CASE Serve \/ ServeError BY <2>4, ServeKeeps
  <2>5. CASE Notify BY <2>5, NotifiedKeeps
  <2>6. CASE UpstreamMessage BY <2>6, ReadKeeps
  <2>7. CASE ClientClose \/ UpstreamClose BY <2>7, SocketsKeep
  <2>8. CASE UNCHANGED proxyVars
    <3>1. UNCHANGED <<conn, paid>> BY <2>8 DEF proxyVars
    <3>2. QED BY <3>1 DEF ProxyInv, ConnType, PaidType, SocketsAgree, Open, AccountInv, Remembered, Counted,
                         WaitingKnown, AnswersMatch, LiveKnown, EndedStaysEnded, waiting, subscribing_ids,
                         says, taken_off
  <2>9. QED BY <2>1, <2>2, <2>3, <2>4, <2>5, <2>6, <2>7, <2>8 DEF ProxyNext
<1>3. QED BY <1>1, <1>2, PTL DEF ProxySpec

\* What the paid upstream carries for a browser never passes the connection's limit,
\* whatever the browser sends and however answers, errors and final notifications cross its
\* unsubscribes, and nothing is carried for a browser that is gone
\* (apps/realtime/src/index.ts, RPC_MAX_SUBSCRIPTIONS).
THEOREM UpstreamStaysWithinCap == ProxySpec => []UpstreamWithinCap
<1>1. ProxyInv => UpstreamWithinCap BY InvWithinCap
<1>2. QED BY ProxyInvariant, <1>1, PTL


-----------------------------------------------------------------------------
(* The event log *)

Entry == [line: {"invoke", "data", "end", "text"}, by: Programs]
WalkState == [stack: Seq(Programs), out: SUBSET Nat]

\* w is the walk over the log.
Walk(w, log) ==
    /\ w \in [0..Len(log) -> WalkState]
    /\ w[0] = no_lines
    /\ \A i \in 1..Len(log) : w[i] = walk_line(w[i-1], i, log[i])

\* A line keeps a state of the walk one.
LEMMA WalkLineTyped ==
  ASSUME NEW at \in WalkState, NEW i \in Nat, NEW entry \in Entry
  PROVE  walk_line(at, i, entry) \in WalkState
<1>1. entry.by \in Programs /\ at.stack \in Seq(Programs) /\ at.out \in SUBSET Nat BY DEF Entry, WalkState
<1>2. Append(at.stack, entry.by) \in Seq(Programs) BY <1>1
<1>3. at.stack # <<>> => popped(at.stack) \in Seq(Programs)
  <2>1. ASSUME at.stack # <<>> PROVE popped(at.stack) \in Seq(Programs)
    <3> DEFINE s == at.stack
    <3>1. s \in Seq(Programs) /\ s # <<>> BY <1>1, <2>1
    <3> HIDE DEF s
    <3>2. Len(s) \in Nat /\ Len(s) # 0 BY <3>1
    <3>3. \A k \in 1..(Len(s) - 1) : s[k] \in Programs BY <3>1, <3>2
    <3>4. SubSeq(s, 1, Len(s) - 1) \in Seq(Programs) BY <3>1, <3>2, <3>3
    <3>5. QED BY <3>4 DEF popped, s
  <2>2. QED BY <2>1
<1>4. at.out \cup {i} \in SUBSET Nat BY <1>1
<1>5. CASE entry.line = "invoke"
  <2>1. walk_line(at, i, entry) = [at EXCEPT !.stack = Append(@, entry.by)] BY <1>5 DEF walk_line
  <2>2. QED BY <1>2, <2>1 DEF WalkState
<1>6. CASE entry.line = "end"
  <2>1. walk_line(at, i, entry) = [at EXCEPT !.stack = IF @ = <<>> THEN @ ELSE popped(@)] BY <1>6 DEF walk_line
  <2>2. QED BY <1>1, <1>3, <2>1 DEF WalkState
<1>7. CASE entry.line = "data" /\ at.stack # <<>> /\ innermost(at.stack) = Us
  <2>1. walk_line(at, i, entry) = [at EXCEPT !.out = @ \cup {i}] BY <1>7 DEF walk_line
  <2>2. QED BY <1>4, <2>1 DEF WalkState
<1>8. CASE entry.line # "invoke" /\ entry.line # "end"
           /\ ~(entry.line = "data" /\ at.stack # <<>> /\ innermost(at.stack) = Us)
  <2>1. walk_line(at, i, entry) = at BY <1>8 DEF walk_line
  <2>2. QED BY <2>1
<1>9. QED BY <1>5, <1>6, <1>7, <1>8

\* One line more.
LEMMA WalkExtends ==
  ASSUME NEW log \in Seq(Entry), NEW entry \in Entry, NEW w, Walk(w, log)
  PROVE  \E v : Walk(v, Append(log, entry))
                /\ v[Len(log) + 1] = walk_line(w[Len(log)], Len(log) + 1, entry)
<1> DEFINE n == Len(log)
           more == Append(log, entry)
           next == walk_line(w[n], n + 1, entry)
           v == [i \in 0..(n+1) |-> IF i = n + 1 THEN next ELSE w[i]]
<1>1. n \in Nat /\ Len(more) = n + 1 /\ more[n+1] = entry /\ \A i \in 1..n : more[i] = log[i] OBVIOUS
<1> HIDE DEF n, more
<1>2. w \in [0..n -> WalkState] /\ w[0] = no_lines /\ \A i \in 1..n : w[i] = walk_line(w[i-1], i, log[i])
  BY DEF Walk, n
<1>3. next \in WalkState
  <2>1. w[n] \in WalkState /\ n + 1 \in Nat BY <1>1, <1>2
  <2>2. QED BY <2>1, WalkLineTyped
<1> HIDE DEF next
<1>4. v \in [0..(n+1) -> WalkState]
  <2>1. ASSUME NEW i \in 0..(n+1) PROVE v[i] \in WalkState
    <3>1. CASE i = n + 1 BY <1>3, <3>1
    <3>2. CASE i # n + 1
      <4>1. i \in 0..n BY <1>1, <3>2
      <4>2. QED BY <1>2, <3>2, <4>1
    <3>3. QED BY <3>1, <3>2
  <2>2. QED BY <2>1
<1>5. v[0] = no_lines /\ v[n+1] = next BY <1>1, <1>2
<1>6. ASSUME NEW i \in 1..(n+1) PROVE v[i] = walk_line(v[i-1], i, more[i])
  <2>1. i - 1 \in 0..n /\ i - 1 \in 0..(n+1) /\ i - 1 # n + 1 BY <1>1
  <2>2. v[i-1] = w[i-1] BY <2>1
  <2>3. CASE i = n + 1
    <3>1. i - 1 = n BY <1>1, <2>3
    <3>2. QED BY <1>1, <1>5, <2>2, <2>3, <3>1 DEF next
  <2>4. CASE i # n + 1
    <3>1. i \in 1..n BY <1>1, <2>4
    <3>2. QED BY <1>1, <1>2, <2>2, <2>4, <3>1
  <2>5. QED BY <2>3, <2>4
<1> HIDE DEF v
<1>7. Walk(v, more) BY <1>1, <1>4, <1>5, <1>6 DEF Walk
<1>8. QED BY <1>5, <1>7 DEF n, more, next

\* The recursive function of extractEventsFromLogs is the walk.
LEMMA ExtractedIsWalk ==
  ASSUME logs \in Seq(Entry), NEW w, Walk(w, logs)
  PROVE  extracted = w[Len(logs)].out
<1>0. Len(logs) \in Nat OBVIOUS
<1> DEFINE walk[i \in 0..Len(logs)] == IF i = 0 THEN no_lines ELSE walk_line(walk[i - 1], i, logs[i])
<1>1. extracted = walk[Len(logs)].out BY DEF extracted
<1>2. w = [i \in 0..Len(logs) |-> IF i = 0 THEN no_lines ELSE walk_line(w[i - 1], i, logs[i])]
  <2>1. ASSUME NEW i \in 0..Len(logs)
        PROVE  w[i] = IF i = 0 THEN no_lines ELSE walk_line(w[i - 1], i, logs[i])
    <3>1. CASE i = 0 BY <3>1 DEF Walk
    <3>2. CASE i # 0
      <4>1. i \in 1..Len(logs) BY <1>0, <3>2
      <4>2. QED BY <3>2, <4>1 DEF Walk
    <3>3. QED BY <3>1, <3>2
  <2>2. w \in [0..Len(logs) -> WalkState] BY DEF Walk
  <2>3. QED BY <2>1, <2>2
<1>3. walk = [i \in 0..Len(logs) |-> IF i = 0 THEN no_lines ELSE walk_line(walk[i - 1], i, logs[i])]
  BY <1>2
<1> HIDE DEF walk
<1>4. walk[Len(logs)] = w[Len(logs)]
  <2> DEFINE Bad == {m \in 0..Len(logs) : walk[m] # w[m]}
  <2>1. SUFFICES ASSUME Bad # {} PROVE FALSE
    <3>1. Len(logs) \in 0..Len(logs) BY <1>0
    <3>2. QED BY <2>1, <3>1
  <2>2. PICK m \in Bad : \A k \in Bad : m <= k
    <3>1. Bad \subseteq Nat BY <1>0
    <3> HIDE DEF Bad
    <3>2. QED BY <2>1, <3>1, NatMin
  <2>3. m \in 0..Len(logs) /\ walk[m] # w[m] BY <2>2
  <2>4. m # 0
    <3>1. walk[0] = no_lines BY <1>0, <1>3
    <3>2. QED BY <3>1, <2>3 DEF Walk
  <2>5. m - 1 \in 0..Len(logs) /\ m - 1 \notin Bad /\ m \in 1..Len(logs) BY <1>0, <2>2, <2>3, <2>4
  <2>6. walk[m-1] = w[m-1] BY <2>5
  <2>7. walk[m] = walk_line(walk[m-1], m, logs[m]) BY <1>3, <2>3, <2>4
  <2>8. w[m] = walk_line(w[m-1], m, logs[m]) BY <2>5 DEF Walk
  <2>9. QED BY <2>3, <2>6, <2>7, <2>8
<1>5. QED BY <1>1, <1>4

\* The lines this program wrote.
written_by_us(log) == {i \in DOMAIN log : log[i].line = "data" /\ log[i].by = Us}

\* As long as the log is whole the walk's stack is the runtime's, and what it decoded is
\* right even after the cut.
WalkFollows ==
    \E w : /\ Walk(w, logs)
           /\ ~cut => w[Len(logs)].stack = running
           /\ w[Len(logs)].out = written_by_us(logs)

\* What runs, or has written, is in the message.
named(lists, p) == \E g \in Groups : p \in lists[g]

NamedInMessage ==
    /\ \A k \in DOMAIN running : named(listed, running[k])
    /\ \A i \in DOMAIN logs : named(listed, logs[i].by)

LogTyped ==
    /\ running \in Seq(Programs) /\ logs \in Seq(Entry) /\ cut \in BOOLEAN
    /\ listed \in [Groups -> SUBSET Programs]

LogInv == LogTyped /\ WalkFollows /\ NamedInMessage

\* A line that is written, of a program that is in the message, with the walk's stack
\* following the runtime's.
LEMMA LineKeeps ==
  ASSUME LogInv, NEW line \in {"invoke", "data", "end", "text"}, NEW p \in Programs, logged(line, p),
         running' \in Seq(Programs), listed' \in [Groups -> SUBSET Programs],
         \A q \in Programs : named(listed, q) => named(listed', q),
         named(listed', p), \A k \in DOMAIN running' : named(listed', running'[k]),
         line = "invoke" => running' = Append(running, p),
         line = "end" => running # <<>> /\ running' = popped(running),
         line \in {"data", "text"} => running' = running /\ running # <<>> /\ p = innermost(running)
  PROVE  LogInv'
<1> DEFINE n == Len(logs)
           entry == [line |-> line, by |-> p]
<1>1. /\ running \in Seq(Programs) /\ logs \in Seq(Entry) /\ cut \in BOOLEAN
      /\ NamedInMessage
  BY DEF LogInv, LogTyped
<1>2. n \in Nat BY <1>1
<1>3. PICK w : Walk(w, logs) /\ (~cut => w[n].stack = running) /\ w[n].out = written_by_us(logs)
  BY DEF LogInv, WalkFollows
<1>4. \A i \in DOMAIN logs : logs[i].by \in Programs
  <2>1. ASSUME NEW i \in DOMAIN logs PROVE logs[i] \in Entry BY <1>1
  <2>2. QED BY <2>1 DEF Entry
<1>5. CASE UNCHANGED logs /\ (cut' = TRUE \/ (cut /\ UNCHANGED cut))
  <2>1. LogTyped' BY <1>1, <1>5 DEF LogTyped
  <2>2. cut' = TRUE BY <1>1, <1>5
  <2>3. WalkFollows' BY <1>3, <1>5, <2>2 DEF WalkFollows
  <2>4. \A i \in DOMAIN logs' : named(listed', logs'[i].by) BY <1>1, <1>4, <1>5 DEF NamedInMessage
  <2>5. NamedInMessage' BY <2>4 DEF NamedInMessage
  <2>6. QED BY <2>1, <2>3, <2>5 DEF LogInv
<1>6. CASE ~cut /\ logs' = Append(logs, entry) /\ UNCHANGED cut
  <2>1. entry \in Entry /\ entry.line = line /\ entry.by = p BY DEF Entry
  <2> HIDE DEF entry
  <2>2. /\ logs' \in Seq(Entry) /\ Len(logs') = n + 1 /\ logs'[n+1] = entry
        /\ \A i \in 1..n : logs'[i] = logs[i]
        /\ DOMAIN logs = 1..n /\ DOMAIN logs' = 1..(n+1)
    BY <1>1, <1>6, <2>1
  <2>3. LogTyped' BY <1>1, <1>6, <2>2 DEF LogTyped
  <2>4. NamedInMessage'
    <3>1. ASSUME NEW i \in DOMAIN logs' PROVE named(listed', logs'[i].by)
      <4>1. CASE i = n + 1 BY <2>1, <2>2, <4>1
      <4>2. CASE i # n + 1
        <5>1. i \in DOMAIN logs /\ logs'[i] = logs[i] BY <1>2, <2>2, <4>2
        <5>2. named(listed, logs[i].by) BY <1>1, <5>1 DEF NamedInMessage
        <5>3. QED BY <1>4, <5>1, <5>2
      <4>3. QED BY <4>1, <4>2
    <3>2. QED BY <3>1 DEF NamedInMessage
  <2>5. PICK v : Walk(v, logs') /\ v[n+1] = walk_line(w[n], n + 1, entry)
    BY <1>1, <1>3, <1>6, <2>1, WalkExtends
  <2>6. w[n] \in WalkState /\ w[n].stack = running BY <1>2, <1>3, <1>6 DEF Walk
  <2> DEFINE ours == IF line = "data" /\ p = Us THEN {n+1} ELSE {}
  <2>7. written_by_us(logs') = written_by_us(logs) \cup ours
    <3>1. ASSUME NEW i \in 1..(n+1) PROVE i \in written_by_us(logs') <=> i \in written_by_us(logs) \cup ours
      <4>1. CASE i = n + 1
        <5>1. i \notin written_by_us(logs) BY <1>2, <2>2, <4>1 DEF written_by_us
        <5>2. QED BY <2>1, <2>2, <4>1, <5>1 DEF written_by_us
      <4>2. CASE i # n + 1
        <5>1. i \in 1..n /\ i \notin ours BY <1>2, <4>2
        <5> HIDE DEF ours
        <5>2. QED BY <2>2, <5>1 DEF written_by_us
      <4>3. QED BY <4>1, <4>2
    <3>2. written_by_us(logs') \subseteq 1..(n+1) /\ written_by_us(logs) \cup ours \subseteq 1..(n+1)
      BY <1>2, <2>2 DEF written_by_us
    <3> HIDE DEF ours
    <3>3. QED BY <3>1, <3>2
  <2>8. v[n+1].stack = running' /\ v[n+1].out = w[n].out \cup ours
    <3> DEFINE st == w[n]
    <3>0. st \in WalkState /\ st.stack = running BY <2>6
    <3>1. SUFFICES walk_line(st, n+1, entry).stack = running' /\ walk_line(st, n+1, entry).out = st.out \cup ours
      BY <2>5
    <3> HIDE DEF st
    <3>2. CASE line = "invoke"
      <4>1. walk_line(st, n+1, entry) = [st EXCEPT !.stack = Append(@, entry.by)] BY <2>1, <3>2 DEF walk_line
      <4>2. ours = {} BY <3>2
      <4> HIDE DEF ours
      <4>3. QED BY <2>1, <3>0, <3>2, <4>1, <4>2 DEF WalkState
    <3>3. CASE line = "end"
      <4>1. walk_line(st, n+1, entry) = [st EXCEPT !.stack = IF @ = <<>> THEN @ ELSE popped(@)]
        BY <2>1, <3>3 DEF walk_line
      <4>2. ours = {} /\ running # <<>> /\ running' = popped(running) BY <3>3
      <4> HIDE DEF ours
      <4>3. QED BY <3>0, <4>1, <4>2 DEF WalkState
    <3>4. CASE line = "data" /\ p = Us
      <4>1. running' = running /\ running # <<>> /\ p = innermost(running) BY <3>4
      <4>2. walk_line(st, n+1, entry) = [st EXCEPT !.out = @ \cup {n+1}] BY <2>1, <3>0, <3>4, <4>1 DEF walk_line
      <4>3. ours = {n+1} BY <3>4
      <4> HIDE DEF ours
      <4>4. QED BY <3>0, <4>1, <4>2, <4>3 DEF WalkState
    <3>5. CASE line = "text" \/ (line = "data" /\ p # Us)
      <4>1. running' = running /\ running # <<>> /\ p = innermost(running) BY <3>5
      <4>2. walk_line(st, n+1, entry) = st BY <2>1, <3>0, <3>5, <4>1 DEF walk_line
      <4>3. ours = {} BY <3>5
      <4> HIDE DEF ours
      <4>4. QED BY <3>0, <4>1, <4>2, <4>3 DEF WalkState
    <3>6. QED BY <3>2, <3>3, <3>4, <3>5
  <2> HIDE DEF ours
  <2>9. WalkFollows' BY <1>3, <2>2, <2>5, <2>7, <2>8 DEF WalkFollows
  <2>10. QED BY <2>3, <2>4, <2>9 DEF LogInv
<1>7. QED BY <1>5, <1>6 DEF logged

\* Every line of the log.
LEMMA LogKeeps ==
  ASSUME LogInv, LogNext
  PROVE  LogInv'
<1>1. /\ running \in Seq(Programs) /\ listed \in [Groups -> SUBSET Programs] /\ Len(running) \in Nat
      /\ DOMAIN running = 1..Len(running) /\ NamedInMessage
  BY DEF LogInv, LogTyped
<1>2. ASSUME NEW p \in Programs, invoke(p) PROVE LogInv'
  <2>1. running' = Append(running, p) /\ logged("invoke", p) BY <1>2 DEF invoke
  <2>2. \/ named(listed, p) /\ UNCHANGED listed
        \/ \E g \in Groups : listed' = [listed EXCEPT ![g] = @ \cup {p}]
    BY <1>2 DEF invoke, named
  <2>3. /\ listed' \in [Groups -> SUBSET Programs] /\ named(listed', p)
        /\ \A q \in Programs : named(listed, q) => named(listed', q)
    <3>1. CASE named(listed, p) /\ UNCHANGED listed BY <1>1, <3>1
    <3>2. CASE \E g \in Groups : listed' = [listed EXCEPT ![g] = @ \cup {p}]
      <4>1. PICK g \in Groups : listed' = [listed EXCEPT ![g] = @ \cup {p}] BY <3>2
      <4>2. listed' \in [Groups -> SUBSET Programs] BY <1>1, <4>1
      <4>3. p \in listed'[g] BY <1>1, <4>1
      <4>4. \A h \in Groups : listed[h] \subseteq listed'[h] BY <1>1, <4>1
      <4>5. QED BY <4>2, <4>3, <4>4 DEF named
    <3>3. QED BY <2>2, <3>1, <3>2
  <2>4. /\ running' \in Seq(Programs) /\ DOMAIN running' = 1..(Len(running) + 1)
        /\ running'[Len(running) + 1] = p /\ \A k \in 1..Len(running) : running'[k] = running[k]
    BY <1>1, <2>1
  <2>5. ASSUME NEW k \in DOMAIN running' PROVE named(listed', running'[k])
    <3>1. CASE k = Len(running) + 1 BY <2>3, <2>4, <3>1
    <3>2. CASE k # Len(running) + 1
      <4>1. k \in 1..Len(running) BY <1>1, <2>4, <3>2
      <4>2. running[k] \in Programs /\ running'[k] = running[k] BY <1>1, <2>4, <4>1
      <4>3. named(listed, running[k]) BY <1>1, <4>1 DEF NamedInMessage
      <4>4. QED BY <2>3, <4>2, <4>3
    <3>3. QED BY <3>1, <3>2
  <2>6. QED BY <2>1, <2>3, <2>4, <2>5, LineKeeps
<1>3. ASSUME NEW q \in Programs, named(listed, q), running # <<>>, UNCHANGED listed PROVE named(listed', q)
  BY <1>3
<1>4. ASSUME running # <<>>
      PROVE  innermost(running) \in Programs /\ named(listed, innermost(running))
  <2>1. Len(running) \in 1..Len(running) BY <1>1, <1>4
  <2>2. running[Len(running)] \in Programs BY <1>1, <2>1
  <2>3. QED BY <1>1, <2>1, <2>2 DEF innermost, NamedInMessage
<1>5. ASSUME NEW line \in {"data", "text"}, writes(line) PROVE LogInv'
  <2>1. running # <<>> /\ logged(line, innermost(running)) /\ UNCHANGED <<running, listed>> BY <1>5 DEF writes
  <2>2. \A k \in DOMAIN running' : named(listed', running'[k]) BY <1>1, <2>1 DEF NamedInMessage
  <2>3. line \in {"invoke", "data", "end", "text"} /\ line # "invoke" /\ line # "end" BY <1>5
  <2> DEFINE p == innermost(running)
  <2>4. p \in Programs /\ named(listed', p) /\ logged(line, p) /\ p = innermost(running) BY <1>4, <2>1
  <2>5. running' \in Seq(Programs) /\ listed' \in [Groups -> SUBSET Programs] BY <1>1, <2>1
  <2>6. \A q \in Programs : named(listed, q) => named(listed', q) BY <2>1
  <2> HIDE DEF p
  <2>7. QED BY <2>1, <2>2, <2>3, <2>4, <2>5, <2>6, LineKeeps
<1>6. ASSUME end PROVE LogInv'
  <2>1. running # <<>> /\ running' = popped(running) /\ logged("end", innermost(running)) /\ UNCHANGED listed
    BY <1>6 DEF end
  <2>2. /\ running' \in Seq(Programs) /\ DOMAIN running' = 1..(Len(running) - 1)
        /\ \A k \in 1..(Len(running) - 1) : running'[k] = running[k]
    <3> DEFINE s == running
    <3>1. s \in Seq(Programs) /\ Len(s) \in Nat /\ Len(s) # 0 BY <1>1, <2>1
    <3>2. \A k \in 1..(Len(s) - 1) : s[k] \in Programs BY <3>1
    <3>3. /\ SubSeq(s, 1, Len(s) - 1) \in Seq(Programs) /\ DOMAIN SubSeq(s, 1, Len(s) - 1) = 1..(Len(s) - 1)
          /\ \A k \in 1..(Len(s) - 1) : SubSeq(s, 1, Len(s) - 1)[k] = s[k]
      <4> HIDE DEF s
      <4>1. QED BY <3>1, <3>2
    <3>4. QED BY <2>1, <3>3 DEF popped
  <2>3. \A k \in DOMAIN running' : named(listed', running'[k]) BY <1>1, <2>1, <2>2 DEF NamedInMessage
  <2> DEFINE p == innermost(running)
  <2>4. p \in Programs /\ named(listed', p) /\ logged("end", p) BY <1>4, <2>1
  <2>5. listed' \in [Groups -> SUBSET Programs] /\ \A q \in Programs : named(listed, q) => named(listed', q)
    BY <1>1, <2>1
  <2> HIDE DEF p
  <2>6. QED BY <2>1, <2>2, <2>3, <2>4, <2>5, LineKeeps
<1>7. QED BY <1>2, <1>5, <1>6 DEF LogNext

LEMMA LogInductive == LogSpec => []LogInv
<1>1. LogInit => LogInv
  <2>1. SUFFICES ASSUME LogInit PROVE LogInv OBVIOUS
  <2>2. running = <<>> /\ logs = <<>> /\ cut = FALSE /\ listed = [g \in Groups |-> {}] BY <2>1 DEF LogInit
  <2>3. LogTyped
    <3>1. listed \in [Groups -> SUBSET Programs] BY <2>2
    <3>2. running \in Seq(Programs) /\ logs \in Seq(Entry) BY <2>2
    <3>3. QED BY <2>2, <3>1, <3>2 DEF LogTyped
  <2>4. NamedInMessage BY <2>2 DEF NamedInMessage
  <2>5. WalkFollows
    <3> DEFINE w == [i \in 0..0 |-> no_lines]
    <3>1. no_lines \in WalkState /\ no_lines.stack = <<>> /\ no_lines.out = {} BY DEF no_lines, WalkState
    <3>2. Len(logs) = 0 /\ DOMAIN logs = {} BY <2>2
    <3>3. w \in [0..0 -> WalkState] /\ w[0] = no_lines BY <3>1
    <3> HIDE DEF w
    <3>4. Walk(w, logs) BY <3>2, <3>3 DEF Walk
    <3>5. written_by_us(logs) = {} BY <3>2 DEF written_by_us
    <3>6. QED BY <2>2, <3>1, <3>2, <3>3, <3>4, <3>5 DEF WalkFollows
  <2>6. QED BY <2>3, <2>4, <2>5 DEF LogInv
<1>2. LogInv /\ [LogNext]_logVars => LogInv'
  <2>1. SUFFICES ASSUME LogInv, [LogNext]_logVars PROVE LogInv' OBVIOUS
  <2>2. CASE UNCHANGED logVars
    <3>1. UNCHANGED <<running, logs, cut, listed>> BY <2>2 DEF logVars
    <3>2. QED BY <2>1, <3>1 DEF LogInv, LogTyped, WalkFollows, NamedInMessage
  <2>3. CASE LogNext BY <2>1, <2>3, LogKeeps
  <2>4. QED BY <2>1, <2>2, <2>3
<1>3. QED BY <1>1, <1>2, PTL DEF LogSpec

\* events.ts: for any programs, any nesting, any length of the log and wherever it is cut,
\* the payload lines that extractEventsFromLogs decodes are exactly those this program wrote,
\* and a transaction that holds one lists the program.
THEOREM DecodesOurs == LogSpec => []OursExactly
<1>1. LogInv => OursExactly
  <2>1. SUFFICES ASSUME LogInv PROVE OursExactly OBVIOUS
  <2>2. logs \in Seq(Entry) /\ NamedInMessage BY <2>1 DEF LogInv, LogTyped
  <2>3. PICK w : Walk(w, logs) /\ w[Len(logs)].out = written_by_us(logs) BY <2>1 DEF LogInv, WalkFollows
  <2>4. extracted = written_by_us(logs) BY <2>2, <2>3, ExtractedIsWalk
  <2>5. extracted # {} => assertProgramInvoked(Us)
    <3>1. SUFFICES ASSUME NEW i \in written_by_us(logs) PROVE assertProgramInvoked(Us) BY <2>4
    <3>2. i \in DOMAIN logs /\ logs[i].by = Us BY <3>1 DEF written_by_us
    <3>3. QED BY <2>2, <3>2 DEF NamedInMessage, named, assertProgramInvoked
  <2>6. QED BY <2>4, <2>5 DEF OursExactly, written_by_us
<1>2. QED BY <1>1, LogInductive, PTL


-----------------------------------------------------------------------------
(* The relay's posts *)

\* r is the tail of p that is remembered, and has no signature twice.
Window(r, p) ==
    /\ r \in Seq(Sigs) /\ p \in Seq(Sigs)
    /\ Len(r) <= RECENT_SIG_CACHE /\ Len(r) <= Len(p)
    /\ Len(r) < RECENT_SIG_CACHE => Len(r) = Len(p)
    /\ \A i \in 1..Len(r) : r[i] = p[Len(p) - Len(r) + i]
    /\ \A i, j \in 1..Len(r) : i # j => r[i] # r[j]

PushInv == Window(recent, posted) /\ ReplaysPostedOnce

\* A signature that is not remembered is remembered after its post.
LEMMA Remembers ==
  ASSUME Window(recent, posted), NEW sig \in Sigs, ~\E i \in DOMAIN recent : recent[i] = sig
  PROVE  Window(remembered(sig), Append(posted, sig))
<1> DEFINE n == Len(recent)
           m == Len(posted)
           longer == Append(recent, sig)
           more == Append(posted, sig)
<1>1. n \in Nat /\ m \in Nat /\ n <= m /\ n <= RECENT_SIG_CACHE
      /\ (n < RECENT_SIG_CACHE => n = m) /\ recent \in Seq(Sigs) /\ posted \in Seq(Sigs)
  BY DEF Window
<1>2. longer \in Seq(Sigs) /\ Len(longer) = n + 1 /\ longer[n+1] = sig /\ \A i \in 1..n : longer[i] = recent[i]
  BY <1>1
<1>3. more \in Seq(Sigs) /\ Len(more) = m + 1 /\ more[m+1] = sig /\ \A i \in 1..m : more[i] = posted[i]
  BY <1>1
<1>4. \A i \in 1..n : recent[i] = posted[m - n + i] BY DEF Window
<1>5. \A i, j \in 1..n : i # j => recent[i] # recent[j] BY DEF Window
<1>6. \A i \in 1..n : recent[i] # sig BY <1>1
<1>0. RECENT_SIG_CACHE \in Nat /\ RECENT_SIG_CACHE > 0 BY CacheAssumption
<1>7. remembered(sig) = IF n + 1 > RECENT_SIG_CACHE THEN Tail(longer) ELSE longer BY <1>2 DEF remembered
<1> HIDE DEF n, m, longer, more
<1>8. \A i \in 1..(n+1) : longer[i] = more[m - n + i]
  <2>1. ASSUME NEW i \in 1..(n+1) PROVE longer[i] = more[m - n + i]
    <3>1. CASE i = n + 1
      <4>1. m - n + i = m + 1 BY <1>1, <3>1
      <4>2. QED BY <1>2, <1>3, <3>1, <4>1
    <3>2. CASE i # n + 1
      <4>1. i \in 1..n /\ m - n + i \in 1..m BY <1>1, <3>2
      <4>2. QED BY <1>2, <1>3, <1>4, <4>1
    <3>3. QED BY <3>1, <3>2
  <2>2. QED BY <2>1
<1>9. \A i, j \in 1..(n+1) : i # j => longer[i] # longer[j]
  <2>1. ASSUME NEW i \in 1..(n+1), NEW j \in 1..(n+1), i # j PROVE longer[i] # longer[j]
    <3>1. CASE i = n + 1
      <4>1. j \in 1..n BY <1>1, <2>1, <3>1
      <4>2. QED BY <1>2, <1>6, <3>1, <4>1
    <3>2. CASE j = n + 1
      <4>1. i \in 1..n BY <1>1, <2>1, <3>2
      <4>2. QED BY <1>2, <1>6, <3>2, <4>1
    <3>3. CASE i # n + 1 /\ j # n + 1
      <4>1. i \in 1..n /\ j \in 1..n BY <1>1, <3>3
      <4>2. QED BY <1>2, <1>5, <2>1, <4>1
    <3>4. QED BY <3>1, <3>2, <3>3
  <2>2. QED BY <2>1
<1>10. CASE n + 1 > RECENT_SIG_CACHE
  <2> DEFINE rest == Tail(longer)
  <2>1. n = RECENT_SIG_CACHE BY <1>0, <1>1, <1>10
  <2>2. rest \in Seq(Sigs) /\ Len(rest) = n /\ \A i \in 1..n : rest[i] = longer[i+1]
    <3>1. longer # <<>> BY <1>1, <1>2
    <3>2. QED BY <1>1, <1>2, <3>1
  <2> HIDE DEF rest
  <2>3. \A i \in 1..n : rest[i] = more[(m+1) - n + i]
    <3>1. ASSUME NEW i \in 1..n PROVE rest[i] = more[(m+1) - n + i]
      <4>1. i + 1 \in 1..(n+1) /\ m - n + (i+1) = (m+1) - n + i BY <1>1
      <4>2. QED BY <1>8, <2>2, <4>1
    <3>2. QED BY <3>1
  <2>4. \A i, j \in 1..n : i # j => rest[i] # rest[j]
    <3>1. ASSUME NEW i \in 1..n, NEW j \in 1..n, i # j PROVE rest[i] # rest[j]
      <4>1. i + 1 \in 1..(n+1) /\ j + 1 \in 1..(n+1) /\ i + 1 # j + 1 BY <1>1, <3>1
      <4>2. QED BY <1>9, <2>2, <4>1
    <3>2. QED BY <3>1
  <2>5. n <= m + 1 /\ ~(n < RECENT_SIG_CACHE) BY <1>0, <1>1, <2>1
  <2>6. Window(rest, more) BY <1>1, <1>3, <2>2, <2>3, <2>4, <2>5 DEF Window
  <2>7. QED BY <1>7, <1>10, <2>6 DEF rest, more
<1>11. CASE ~(n + 1 > RECENT_SIG_CACHE)
  <2>1. n = m /\ n + 1 <= RECENT_SIG_CACHE /\ n + 1 <= m + 1 BY <1>0, <1>1, <1>11
  <2>2. \A i \in 1..(n+1) : longer[i] = more[(m+1) - (n+1) + i]
    <3>1. ASSUME NEW i \in 1..(n+1) PROVE longer[i] = more[(m+1) - (n+1) + i]
      <4>1. m - n + i = (m+1) - (n+1) + i BY <1>1
      <4>2. QED BY <1>8, <4>1
    <3>2. QED BY <3>1
  <2>3. Window(longer, more) BY <1>2, <1>3, <1>9, <2>1, <2>2 DEF Window
  <2>4. QED BY <1>7, <1>11, <2>3 DEF longer, more
<1>12. QED BY <1>10, <1>11

\* The window has as many signatures as places.
LEMMA WindowCount ==
  ASSUME NEW r, NEW p, Window(r, p)
  PROVE  Cardinality({r[i] : i \in 1..Len(r)}) = Len(r)
<1> DEFINE n == Len(r)
           W == {r[i] : i \in 1..n}
           f == [i \in 1..n |-> r[i]]
<1>1. n \in Nat /\ \A i, j \in 1..n : i # j => r[i] # r[j] BY DEF Window
<1>2. IsFiniteSet(1..n) /\ Cardinality(1..n) = n
  <2>1. 1 \in Int /\ n \in Int BY <1>1
  <2> HIDE DEF n
  <2>2. IsFiniteSet(1..n) /\ Cardinality(1..n) = IF 1 > n THEN 0 ELSE n - 1 + 1 BY <2>1, FS_Interval
  <2>3. (IF 1 > n THEN 0 ELSE n - 1 + 1) = n BY <1>1
  <2>4. QED BY <2>2, <2>3
<1>3. f \in Bijection(1..n, W)
  <2>1. f \in [1..n -> W] OBVIOUS
  <2>2. \A i, j \in 1..n : f[i] = f[j] => i = j BY <1>1
  <2>3. \A w \in W : \E i \in 1..n : f[i] = w OBVIOUS
  <2>4. QED BY <2>1, <2>2, <2>3, Fun_IsBij
<1> HIDE DEF f, W
<1>4. ExistsBijection(1..n, W) BY <1>3 DEF ExistsBijection
<1>5. Cardinality(1..n) = Cardinality(W) BY <1>2, <1>4, FS_Bijection
<1>6. QED BY <1>2, <1>5 DEF W, n

\* A post of a signature that is not remembered is far from the last post of it.
LEMMA PostKeeps ==
  ASSUME PushInv, NEW sig \in Sigs, ~\E i \in DOMAIN recent : recent[i] = sig,
         posted' = Append(posted, sig)
  PROVE  ReplaysPostedOnce'
<1> DEFINE n == Len(recent)
           m == Len(posted)
           more == Append(posted, sig)
<1>1. n \in Nat /\ m \in Nat /\ n <= m /\ n <= RECENT_SIG_CACHE
      /\ (n < RECENT_SIG_CACHE => n = m) /\ recent \in Seq(Sigs) /\ posted \in Seq(Sigs)
  BY DEF PushInv, Window
<1>2. more \in Seq(Sigs) /\ Len(more) = m + 1 /\ more[m+1] = sig /\ (\A k \in 1..m : more[k] = posted[k])
      /\ DOMAIN more = 1..(m+1) /\ DOMAIN posted = 1..m
  BY <1>1
<1>3. \A i \in 1..n : recent[i] # sig BY <1>1
<1>4. \A i \in 1..n : recent[i] = posted[m - n + i] BY DEF PushInv, Window
<1>5. ReplaysPostedOnce BY DEF PushInv
<1>6. posted' = more OBVIOUS
<1>0. RECENT_SIG_CACHE \in Nat BY CacheAssumption
<1>11. Cardinality({recent[i] : i \in 1..n}) = n
  <2>1. Window(recent, posted) BY DEF PushInv
  <2>2. QED BY <2>1, WindowCount
<1> HIDE DEF n, m, more
<1>7. SUFFICES ASSUME NEW i \in 1..(m+1), NEW j \in 1..(m+1), i < j, more[i] = more[j]
               PROVE  Cardinality({more[k] : k \in (i + 1)..(j - 1)}) >= RECENT_SIG_CACHE
  BY <1>2, <1>6 DEF ReplaysPostedOnce
<1>8. i \in 1..m BY <1>1, <1>7
<1>9. CASE j # m + 1
  <2>1. j \in 1..m BY <1>1, <1>9
  <2>2. posted[i] = posted[j] BY <1>2, <1>7, <1>8, <2>1
  <2>3. Cardinality({posted[k] : k \in (i + 1)..(j - 1)}) >= RECENT_SIG_CACHE
    BY <1>2, <1>5, <1>7, <1>8, <2>1, <2>2 DEF ReplaysPostedOnce
  <2>4. \A k \in (i + 1)..(j - 1) : more[k] = posted[k] BY <1>1, <1>2, <1>8, <2>1
  <2>5. {more[k] : k \in (i + 1)..(j - 1)} = {posted[k] : k \in (i + 1)..(j - 1)} BY <2>4
  <2>6. QED BY <2>3, <2>5
<1>10. CASE j = m + 1
  <2> DEFINE S == {more[k] : k \in (i + 1)..(j - 1)}
             W == {recent[k] : k \in 1..n}
  <2>1. posted[i] = sig BY <1>2, <1>7, <1>8, <1>10
  <2>2. i <= m - n
    <3>1. SUFFICES ASSUME ~(i <= m - n) PROVE FALSE OBVIOUS
    <3>2. i - (m - n) \in 1..n /\ m - n + (i - (m - n)) = i BY <1>1, <1>8, <3>1
    <3>3. QED BY <1>3, <1>4, <2>1, <3>2
  <2>3. n = RECENT_SIG_CACHE BY <1>0, <1>1, <1>8, <2>2
  <2>4. W \subseteq S
    <3>1. ASSUME NEW k \in 1..n PROVE recent[k] \in S
      <4>1. m - n + k \in (i+1)..(j-1) /\ m - n + k \in 1..m BY <1>1, <1>8, <1>10, <2>2
      <4>2. recent[k] = more[m - n + k] BY <1>2, <1>4, <4>1
      <4>3. QED BY <4>1, <4>2
    <3>2. QED BY <3>1
  <2>5. IsFiniteSet(S)
    <3> DEFINE I == (i+1)..(j-1)
               f == [k \in I |-> more[k]]
    <3>1. IsFiniteSet(I) BY <1>1, FS_Interval
    <3>2. f \in Surjection(I, S)
      <4>1. f \in [I -> S] OBVIOUS
      <4>2. \A s \in S : \E k \in I : f[k] = s OBVIOUS
      <4>3. QED BY <4>1, <4>2, Fun_IsSurj
    <3> HIDE DEF I, f, S
    <3>3. QED BY <3>1, <3>2, FS_Surjection
  <2> HIDE DEF S, W
  <2>6. Cardinality(W) <= Cardinality(S) BY <2>4, <2>5, FS_Subset
  <2>7. Cardinality(S) \in Nat BY <2>5, FS_CardinalityType
  <2>8. Cardinality(W) = n BY <1>11 DEF W
  <2>9. Cardinality(S) >= RECENT_SIG_CACHE BY <1>0, <2>3, <2>6, <2>7, <2>8
  <2>10. QED BY <2>9 DEF S
<1>12. QED BY <1>9, <1>10

LEMMA PushInductive == PushSpec => []PushInv
<1>1. PushInit => PushInv
  <2>1. SUFFICES ASSUME PushInit PROVE PushInv OBVIOUS
  <2>2. recent = <<>> /\ posted = <<>> BY <2>1 DEF PushInit
  <2>3. Window(recent, posted) BY <2>2, CacheAssumption DEF Window
  <2>4. ReplaysPostedOnce BY <2>2 DEF ReplaysPostedOnce
  <2>5. QED BY <2>3, <2>4 DEF PushInv
<1>2. PushInv /\ [PushNext]_pushVars => PushInv'
  <2>1. SUFFICES ASSUME PushInv, [PushNext]_pushVars PROVE PushInv' OBVIOUS
  <2>2. CASE UNCHANGED <<recent, posted>> BY <2>1, <2>2 DEF PushInv, Window, ReplaysPostedOnce
  <2>3. CASE LogsNotification
    <3>1. PICK sig \in Sigs : /\ ~\E i \in DOMAIN recent : recent[i] = sig
                              /\ recent' = remembered(sig)
                              /\ posted' = Append(posted, sig)
      BY <2>3 DEF LogsNotification
    <3>2. Window(remembered(sig), Append(posted, sig)) BY <2>1, <3>1, Remembers DEF PushInv
    <3>3. Window(recent', posted') BY <3>1, <3>2
    <3>4. ReplaysPostedOnce' BY <2>1, <3>1, PostKeeps
    <3>5. QED BY <3>3, <3>4 DEF PushInv, Window
  <2>4. CASE PushRestart
    <3>1. recent' = <<>> /\ posted' = <<>> BY <2>4 DEF PushRestart
    <3>2. Window(recent', posted') BY <3>1, CacheAssumption DEF Window
    <3>3. ReplaysPostedOnce' BY <3>1 DEF ReplaysPostedOnce
    <3>4. QED BY <3>2, <3>3 DEF PushInv, Window
  <2>5. QED
    BY <2>1, <2>2, <2>3, <2>4 DEF PushNext, pushVars, LinkOpen, LinkClose, LinkReconnect, PostEnds, TickCron, TargetEnds, Stop
<1>3. QED BY <1>1, <1>2, PTL DEF PushSpec

\* Between two posts of a signature the relay posts as many others as it remembers, however
\* often the log subscription reconnects and replays (alchemy-logs.ts).
THEOREM PostedOnce == PushSpec => []ReplaysPostedOnce
<1>1. PushInv => ReplaysPostedOnce BY DEF PushInv
<1>2. QED BY <1>1, PushInductive, PTL

-----------------------------------------------------------------------------
(* The live feed *)

Change == [slot: Slots, at: Nat]
PgClient == [id: Nat, at: {"connecting", "listening", "broken"}, dead: BOOLEAN,
             reports: SUBSET {"error", "end", "rejected"}, queue: Seq(Change)]
Socket == [id: Nat, isAlive: BOOLEAN, stream: Seq(Change)]

Ordered(q) == \A i, j \in DOMAIN q : i < j => q[i].at < q[j].at
Upto(q, n) == \A i \in DOMAIN q : q[i].at <= n
After(n, q) == \A i \in DOMAIN q : n < q[i].at
Before(q, r) == \A i \in DOMAIN q, j \in DOMAIN r : q[i].at < r[j].at

\* A client that is dead has broken, and nothing more comes from it.
ClientOk(c, n) ==
    /\ c \in PgClient /\ Ordered(c.queue) /\ Upto(c.queue, n)
    /\ c.dead => c.at = "broken" /\ c.queue = <<>>
    /\ c.reports # {} => c.at = "broken"

\* One client at most is not dead, and none is while a timer runs that makes the next.
PoolOk(conns, timers, n) ==
    /\ \A c \in conns : ClientOk(c, n)
    /\ \A c, d \in conns : ~c.dead /\ ~d.dead => c = d
    /\ timers \in {0, 1}
    /\ timers = 1 => \A c \in conns : c.dead

\* What the relay sent is older than what it has yet to hear.
SocketOk(s, conns, n) ==
    /\ s \in Socket /\ Ordered(s.stream) /\ Upto(s.stream, n)
    /\ \A c \in conns : Before(s.stream, c.queue)

SocketsOk(sockets, conns, n, last) ==
    /\ \A s \in sockets : SocketOk(s, conns, n) /\ s.id \in 1..last
    /\ \A s, t \in sockets : s.id = t.id => s = t

\* What the viewer heard is older than what it has yet to hear.
ViewOk(socket, heard, sockets, conns, n, last) ==
    /\ socket \in 0..last /\ heard \in 0..n
    /\ \A c \in conns : After(heard, c.queue)
    /\ \A s \in sockets : s.id = socket => After(heard, s.stream)

Listing == {list \in Seq(Change) : \A i, j \in DOMAIN list : i # j => list[i].slot # list[j].slot}

FeedTyped ==
    /\ games \in [Slots -> Nat] /\ commits \in Nat
    /\ IsFiniteSet({s \in Slots : games[s] > 0})
    /\ upstream \in [pool: SUBSET PgClient, timers: Nat, shuttingDown: BOOLEAN]
    /\ clients \in SUBSET Socket
    /\ viewer \in [socket: Nat, heard: Nat, list: Listing, poll: SUBSET Listing]
    /\ opened \in [listeners: Nat, sockets: Nat]

FeedInv ==
    /\ FeedTyped
    /\ PoolOk(upstream.pool, upstream.timers, commits)
    /\ SocketsOk(clients, upstream.pool, commits, opened.sockets)
    /\ ViewOk(viewer.socket, viewer.heard, clients, upstream.pool, commits, opened.sockets)

\* A queue without its head.
LEMMA TailOf ==
  ASSUME NEW q \in Seq(Change), q # <<>>
  PROVE  /\ Head(q) \in Change /\ Tail(q) \in Seq(Change)
         /\ 1 \in DOMAIN q /\ Head(q) = q[1]
         /\ \A i \in DOMAIN Tail(q) : i \in Nat /\ i >= 1 /\ i + 1 \in DOMAIN q /\ Tail(q)[i] = q[i+1]
<1>1. Len(q) \in Nat /\ Len(q) >= 1 /\ DOMAIN q = 1..Len(q) OBVIOUS
<1>2. Head(q) = q[1] /\ 1 \in DOMAIN q BY <1>1
<1>3. q[1] \in Change BY <1>1
<1>4. Tail(q) \in Seq(Change) /\ Len(Tail(q)) = Len(q) - 1 BY <1>1
<1>5. DOMAIN Tail(q) = 1..(Len(q) - 1) BY <1>4
<1>6. \A i \in 1..(Len(q) - 1) : Tail(q)[i] = q[i+1] BY <1>1
<1>7. QED BY <1>1, <1>2, <1>3, <1>4, <1>5, <1>6

LEMMA TailKeeps ==
  ASSUME NEW q \in Seq(Change), q # <<>>, Ordered(q)
  PROVE  /\ Ordered(Tail(q)) /\ After(Head(q).at, Tail(q))
         /\ \A n : Upto(q, n) => Upto(Tail(q), n) /\ Head(q).at <= n
         /\ \A n : After(n, q) => After(n, Tail(q)) /\ n < Head(q).at
         /\ \A r : Before(q, r) => Before(Tail(q), r) /\ After(Head(q).at, r)
         /\ \A r : Before(r, q) => Before(r, Tail(q)) /\ \A i \in DOMAIN r : r[i].at < Head(q).at
<1>1. 1 \in DOMAIN q /\ Head(q) = q[1] BY TailOf
<1>2. \A i \in DOMAIN Tail(q) : i \in Nat /\ i >= 1 /\ i + 1 \in DOMAIN q /\ Tail(q)[i] = q[i+1] BY TailOf
<1>3. Ordered(Tail(q))
  <2>1. SUFFICES ASSUME NEW i \in DOMAIN Tail(q), NEW j \in DOMAIN Tail(q), i < j
                 PROVE  Tail(q)[i].at < Tail(q)[j].at
    BY DEF Ordered
  <2>2. i + 1 \in DOMAIN q /\ j + 1 \in DOMAIN q /\ i + 1 < j + 1 /\ Tail(q)[i] = q[i+1] /\ Tail(q)[j] = q[j+1]
    BY <1>2, <2>1
  <2>3. QED BY <2>2 DEF Ordered
<1>4. After(Head(q).at, Tail(q))
  <2>1. SUFFICES ASSUME NEW i \in DOMAIN Tail(q) PROVE Head(q).at < Tail(q)[i].at BY DEF After
  <2>2. i + 1 \in DOMAIN q /\ 1 < i + 1 /\ Tail(q)[i] = q[i+1] BY <1>2
  <2>3. QED BY <1>1, <2>2 DEF Ordered
<1>5. \A n : Upto(q, n) => Upto(Tail(q), n) /\ Head(q).at <= n BY <1>1, <1>2 DEF Upto
<1>6. \A n : After(n, q) => After(n, Tail(q)) /\ n < Head(q).at BY <1>1, <1>2 DEF After
<1>7. \A r : Before(q, r) => Before(Tail(q), r) /\ After(Head(q).at, r) BY <1>1, <1>2 DEF Before, After
<1>8. \A r : Before(r, q) => Before(r, Tail(q)) /\ \A i \in DOMAIN r : r[i].at < Head(q).at
  BY <1>1, <1>2 DEF Before
<1>9. QED BY <1>3, <1>4, <1>5, <1>6, <1>7, <1>8

\* A queue with one message more.
LEMMA AppendOf ==
  ASSUME NEW q \in Seq(Change), NEW m \in Change
  PROVE  /\ Append(q, m) \in Seq(Change)
         /\ \A i \in DOMAIN Append(q, m) : Append(q, m)[i] = m \/ (i \in DOMAIN q /\ Append(q, m)[i] = q[i])
         /\ \A i \in DOMAIN q : i \in DOMAIN Append(q, m) /\ Append(q, m)[i] = q[i]
         /\ \A i, j \in DOMAIN Append(q, m) : i < j => i \in DOMAIN q
<1>1. Len(q) \in Nat /\ DOMAIN q = 1..Len(q) OBVIOUS
<1>2. Append(q, m) \in Seq(Change) OBVIOUS
<1>3. DOMAIN Append(q, m) = 1..(Len(q) + 1) BY <1>1
<1>4. Append(q, m)[Len(q) + 1] = m /\ \A i \in 1..Len(q) : Append(q, m)[i] = q[i] BY <1>1
<1>5. \A i \in 1..(Len(q) + 1) : i = Len(q) + 1 \/ i \in 1..Len(q) BY <1>1
<1>6. \A i, j \in 1..(Len(q) + 1) : i < j => i \in 1..Len(q) BY <1>1
<1>7. \A i \in 1..Len(q) : i \in 1..(Len(q) + 1) BY <1>1
<1>8. QED BY <1>1, <1>2, <1>3, <1>4, <1>5, <1>6, <1>7

LEMMA AppendKeeps ==
  ASSUME NEW q \in Seq(Change), NEW m \in Change, Ordered(q), \A i \in DOMAIN q : q[i].at < m.at
  PROVE  /\ Ordered(Append(q, m))
         /\ \A n : Upto(q, n) /\ m.at <= n => Upto(Append(q, m), n)
         /\ \A n : After(n, q) /\ n < m.at => After(n, Append(q, m))
         /\ \A r : Before(q, r) /\ After(m.at, r) => Before(Append(q, m), r)
         /\ \A r : Before(r, q) /\ (\A i \in DOMAIN r : r[i].at < m.at) => Before(r, Append(q, m))
<1> DEFINE more == Append(q, m)
<1>1. /\ \A i \in DOMAIN more : more[i] = m \/ (i \in DOMAIN q /\ more[i] = q[i])
      /\ \A i, j \in DOMAIN more : i < j => i \in DOMAIN q
      /\ \A i \in DOMAIN q : i \in DOMAIN more /\ more[i] = q[i]
  BY AppendOf
<1> HIDE DEF more
<1>2. Ordered(more)
  <2>1. SUFFICES ASSUME NEW i \in DOMAIN more, NEW j \in DOMAIN more, i < j PROVE more[i].at < more[j].at
    BY DEF Ordered
  <2>2. i \in DOMAIN q /\ more[i] = q[i] BY <1>1, <2>1
  <2>3. CASE more[j] = m BY <2>2, <2>3
  <2>4. CASE j \in DOMAIN q /\ more[j] = q[j] BY <2>1, <2>2, <2>4 DEF Ordered
  <2>5. QED BY <1>1, <2>3, <2>4
<1>3. \A n : Upto(q, n) /\ m.at <= n => Upto(more, n)
  <2>1. ASSUME NEW n, Upto(q, n), m.at <= n, NEW i \in DOMAIN more PROVE more[i].at <= n
    BY <1>1, <2>1 DEF Upto
  <2>2. QED BY <2>1 DEF Upto
<1>4. \A n : After(n, q) /\ n < m.at => After(n, more)
  <2>1. ASSUME NEW n, After(n, q), n < m.at, NEW i \in DOMAIN more PROVE n < more[i].at
    BY <1>1, <2>1 DEF After
  <2>2. QED BY <2>1 DEF After
<1>5. \A r : Before(q, r) /\ After(m.at, r) => Before(more, r)
  <2>1. ASSUME NEW r, Before(q, r), After(m.at, r), NEW i \in DOMAIN more, NEW j \in DOMAIN r
        PROVE  more[i].at < r[j].at
    BY <1>1, <2>1 DEF Before, After
  <2>2. QED BY <2>1 DEF Before
<1>6. \A r : Before(r, q) /\ (\A i \in DOMAIN r : r[i].at < m.at) => Before(r, more)
  <2>1. ASSUME NEW r, Before(r, q), \A i \in DOMAIN r : r[i].at < m.at, NEW i \in DOMAIN r, NEW j \in DOMAIN more
        PROVE  r[i].at < more[j].at
    BY <1>1, <2>1 DEF Before
  <2>2. QED BY <2>1 DEF Before
<1>7. QED BY <1>2, <1>3, <1>4, <1>5, <1>6 DEF more

\* The empty queue.
LEMMA EmptyQueue ==
  /\ <<>> \in Seq(Change) /\ Ordered(<<>>)
  /\ \A n : Upto(<<>>, n) /\ After(n, <<>>)
  /\ \A r : Before(<<>>, r) /\ Before(r, <<>>)
BY DEF Ordered, Upto, After, Before

\* What the stream of the viewer's socket says after what the viewer heard.
LEMMA HeardIncreasing ==
  ASSUME NEW q \in Seq(Change), NEW n \in Nat, Ordered(q), After(n, q)
  PROVE  increasing(<<n>> \o [i \in DOMAIN q |-> q[i].at])
<1> DEFINE ats == [i \in DOMAIN q |-> q[i].at]
           all == <<n>> \o ats
<1>1. Len(q) \in Nat /\ DOMAIN q = 1..Len(q) OBVIOUS
<1>2. ats \in Seq(Nat) /\ Len(ats) = Len(q)
  <2>1. \A i \in 1..Len(q) : q[i] \in Change OBVIOUS
  <2>2. \A i \in 1..Len(q) : q[i].at \in Nat BY <2>1 DEF Change
  <2>3. ats \in [1..Len(q) -> Nat] BY <1>1, <2>2
  <2>4. QED BY <1>1, <2>3
<1>3. \A i \in 1..Len(q) : ats[i] = q[i].at BY <1>1
<1> HIDE DEF ats
<1>4. DOMAIN all = 1..(Len(q) + 1) /\ all[1] = n /\ \A i \in 2..(Len(q) + 1) : all[i] = ats[i - 1]
  <2>1. <<n>> \in Seq(Nat) /\ Len(<<n>>) = 1 OBVIOUS
  <2>2. Len(all) = Len(q) + 1 /\ all \in Seq(Nat) BY <1>1, <1>2, <2>1
  <2>3. QED BY <1>1, <1>2, <2>1, <2>2
<1> HIDE DEF all
<1>5. SUFFICES ASSUME NEW i \in 1..(Len(q) + 1), NEW j \in 1..(Len(q) + 1), i < j PROVE all[i] < all[j]
  BY <1>4 DEF increasing, all, ats
<1>6. j - 1 \in DOMAIN q /\ all[j] = q[j-1].at BY <1>1, <1>3, <1>4, <1>5
<1>7. CASE i = 1 BY <1>4, <1>6, <1>7 DEF After
<1>8. CASE i # 1
  <2>1. i - 1 \in DOMAIN q /\ all[i] = q[i-1].at /\ i - 1 < j - 1 BY <1>1, <1>3, <1>4, <1>5, <1>8
  <2>2. QED BY <1>6, <2>1 DEF Ordered
<1>9. QED BY <1>7, <1>8

Upstreams == [pool: SUBSET PgClient, timers: Nat, shuttingDown: BOOLEAN]

\* A client is replaced by what became of it.
LEMMA ClientReplaced ==
  ASSUME NEW conns, NEW timers, NEW n, PoolOk(conns, timers, n), NEW c \in conns, NEW d, ClientOk(d, n), c.dead => d.dead
  PROVE  PoolOk((conns \ {c}) \cup {d}, timers, n)
<1> DEFINE new == (conns \ {c}) \cup {d}
<1>1. \A x \in new : ClientOk(x, n) BY DEF PoolOk
<1>2. \A x, y \in new : ~x.dead /\ ~y.dead => x = y
  <2>1. SUFFICES ASSUME NEW x \in new, NEW y \in new, ~x.dead, ~y.dead PROVE x = y OBVIOUS
  <2>2. \A x1, y1 \in conns : ~x1.dead /\ ~y1.dead => x1 = y1 BY DEF PoolOk
  <2>3. CASE x = d BY <2>1, <2>2, <2>3
  <2>4. CASE x # d BY <2>1, <2>2, <2>4
  <2>5. QED BY <2>3, <2>4
<1>3. timers \in {0, 1} /\ (timers = 1 => \A x \in new : x.dead) BY DEF PoolOk
<1>4. QED BY <1>1, <1>2, <1>3 DEF PoolOk

\* The relay's clients change, no queue grows, and no socket is added.
LEMMA PoolStep ==
  ASSUME FeedInv, UNCHANGED <<games, commits, viewer>>,
         upstream' \in Upstreams, PoolOk(upstream'.pool, upstream'.timers, commits),
         \A d \in upstream'.pool : d.queue = <<>> \/ \E c \in upstream.pool : d.queue = c.queue,
         clients' \subseteq clients,
         opened' \in [listeners: Nat, sockets: Nat], opened'.sockets = opened.sockets
  PROVE  FeedInv'
<1> DEFINE conns == upstream'.pool
<1>0. FeedTyped /\ SocketsOk(clients, upstream.pool, commits, opened.sockets)
      /\ ViewOk(viewer.socket, viewer.heard, clients, upstream.pool, commits, opened.sockets)
  BY DEF FeedInv
<1>1. FeedTyped' BY <1>0 DEF FeedTyped, Upstreams
<1>2. ASSUME NEW q, \A c \in upstream.pool : Before(q, c.queue), NEW d \in conns PROVE Before(q, d.queue)
  BY <1>2, EmptyQueue
<1>3. ASSUME NEW n, \A c \in upstream.pool : After(n, c.queue), NEW d \in conns PROVE After(n, d.queue)
  BY <1>3, EmptyQueue
<1> HIDE DEF conns
<1>4. SocketsOk(clients', conns, commits, opened.sockets) BY <1>0, <1>2 DEF SocketsOk, SocketOk
<1>5. ViewOk(viewer.socket, viewer.heard, clients', conns, commits, opened.sockets) BY <1>0, <1>3 DEF ViewOk
<1>6. QED BY <1>1, <1>4, <1>5 DEF FeedInv, conns

LEMMA ListeningKeeps == ASSUME FeedInv, Listening PROVE FeedInv'
<1>1. PICK c \in upstream.pool : /\ c.at = "connecting" /\ ~c.dead
                                 /\ upstream' = with_client(c, [c EXCEPT !.at = "listening"])
  BY DEF Listening
<1>2. UNCHANGED <<games, commits, clients, viewer, opened>> BY DEF Listening
<1> DEFINE d == [c EXCEPT !.at = "listening"]
<1>3. ClientOk(c, commits) /\ PoolOk(upstream.pool, upstream.timers, commits) /\ FeedTyped BY DEF FeedInv, PoolOk
<1>4. d \in PgClient /\ d.queue = c.queue /\ d.dead = c.dead /\ d.reports = c.reports BY <1>3 DEF ClientOk, PgClient
<1>5. ClientOk(d, commits) BY <1>1, <1>3, <1>4 DEF ClientOk
<1> HIDE DEF d
<1>6. PoolOk((upstream.pool \ {c}) \cup {d}, upstream.timers, commits) BY <1>3, <1>4, <1>5, ClientReplaced
<1>7. upstream' \in Upstreams /\ upstream'.pool = (upstream.pool \ {c}) \cup {d} /\ upstream'.timers = upstream.timers
  <2>1. upstream' = [upstream EXCEPT !.pool = (@ \ {c}) \cup {d}] BY <1>1 DEF with_client, d
  <2>2. QED BY <1>3, <1>4, <2>1 DEF FeedTyped, Upstreams
<1>8. QED BY <1>2, <1>3, <1>4, <1>6, <1>7, PoolStep DEF FeedTyped

LEMMA BreakKeeps == ASSUME FeedInv, Break PROVE FeedInv'
<1>1. PICK c \in upstream.pool, reports \in {{"error", "end", "rejected"}, {"end"}, {"rejected"}} :
         c.at # "broken" /\ upstream' = with_client(c, [c EXCEPT !.at = "broken", !.reports = reports])
  BY DEF Break
<1>2. UNCHANGED <<games, commits, clients, viewer, opened>> BY DEF Break
<1> DEFINE d == [c EXCEPT !.at = "broken", !.reports = reports]
<1>3. ClientOk(c, commits) /\ PoolOk(upstream.pool, upstream.timers, commits) /\ FeedTyped BY DEF FeedInv, PoolOk
<1>4. d \in PgClient /\ d.queue = c.queue /\ d.dead = c.dead /\ d.at = "broken"
  <2>1. reports \in SUBSET {"error", "end", "rejected"} BY <1>1
  <2>2. QED BY <1>3, <2>1 DEF ClientOk, PgClient
<1>5. ClientOk(d, commits) BY <1>1, <1>3, <1>4 DEF ClientOk
<1> HIDE DEF d
<1>6. PoolOk((upstream.pool \ {c}) \cup {d}, upstream.timers, commits) BY <1>3, <1>4, <1>5, ClientReplaced
<1>7. upstream' \in Upstreams /\ upstream'.pool = (upstream.pool \ {c}) \cup {d} /\ upstream'.timers = upstream.timers
  <2>1. upstream' = [upstream EXCEPT !.pool = (@ \ {c}) \cup {d}] BY <1>1 DEF with_client, d
  <2>2. QED BY <1>3, <1>4, <2>1 DEF FeedTyped, Upstreams
<1>8. QED BY <1>2, <1>3, <1>4, <1>6, <1>7, PoolStep DEF FeedTyped

\* The first report ends the client and starts the timer; a later one does neither.
LEMMA ReportKeeps == ASSUME FeedInv, Report PROVE FeedInv'
<1>0. PICK c \in upstream.pool : \E report \in c.reports : upstream' = reconnect(c, report) BY DEF Report
<1>1. PICK report \in c.reports : upstream' = reconnect(c, report) BY <1>0
<1>2. UNCHANGED <<games, commits, clients, viewer, opened>> BY DEF Report
<1>3. ClientOk(c, commits) /\ PoolOk(upstream.pool, upstream.timers, commits) /\ FeedTyped BY DEF FeedInv, PoolOk
<1>4. c.at = "broken" BY <1>1, <1>3 DEF ClientOk
<1>5. CASE c.dead
  <2> DEFINE d == [c EXCEPT !.reports = @ \ {report}]
  <2>1. d \in PgClient /\ d.queue = c.queue /\ d.dead = c.dead /\ d.at = c.at BY <1>3 DEF ClientOk, PgClient
  <2>2. ClientOk(d, commits) BY <1>3, <1>4, <2>1 DEF ClientOk
  <2> HIDE DEF d
  <2>3. PoolOk((upstream.pool \ {c}) \cup {d}, upstream.timers, commits) BY <1>3, <2>1, <2>2, ClientReplaced
  <2>4. upstream' \in Upstreams /\ upstream'.pool = (upstream.pool \ {c}) \cup {d} /\ upstream'.timers = upstream.timers
    <3>1. upstream' = [upstream EXCEPT !.pool = (@ \ {c}) \cup {d}] BY <1>1, <1>5 DEF reconnect, with_client, d
    <3>2. QED BY <1>3, <2>1, <3>1 DEF FeedTyped, Upstreams
  <2>5. QED BY <1>2, <1>3, <2>1, <2>3, <2>4, PoolStep DEF FeedTyped
<1>6. CASE ~c.dead
  <2> DEFINE d == [c EXCEPT !.dead = TRUE, !.queue = <<>>, !.reports = (@ \cap {"rejected"}) \ {report}]
             timers == IF upstream.shuttingDown THEN upstream.timers ELSE upstream.timers + 1
             conns == (upstream.pool \ {c}) \cup {d}
  <2>1. d \in PgClient /\ d.queue = <<>> /\ d.dead = TRUE /\ d.at = c.at
    <3>1. (c.reports \cap {"rejected"}) \ {report} \in SUBSET {"error", "end", "rejected"} OBVIOUS
    <3>2. <<>> \in Seq(Change) OBVIOUS
    <3>3. QED BY <1>3, <3>1, <3>2 DEF ClientOk, PgClient
  <2>2. ClientOk(d, commits) BY <1>4, <2>1, EmptyQueue DEF ClientOk
  <2>3. upstream.timers = 0 BY <1>3, <1>6 DEF PoolOk
  <2>4. upstream' = [upstream EXCEPT !.pool = conns, !.timers = timers] BY <1>1, <1>6 DEF reconnect
  <2> HIDE DEF d
  <2>5. PoolOk(conns, upstream.timers, commits) BY <1>3, <2>1, <2>2, ClientReplaced
  <2>6. \A x \in conns : x.dead
    <3>1. \A x \in upstream.pool : x # c => x.dead BY <1>3, <1>6 DEF PoolOk
    <3>2. QED BY <2>1, <3>1
  <2>7. timers \in {0, 1} BY <2>3
  <2>8. upstream' \in Upstreams /\ upstream'.pool = conns /\ upstream'.timers = timers
    <3>1. conns \subseteq PgClient BY <1>3, <2>1 DEF FeedTyped
    <3>2. timers \in Nat BY <2>7
    <3> HIDE DEF conns, timers
    <3>3. QED BY <1>3, <2>4, <3>1, <3>2 DEF FeedTyped, Upstreams
  <2>9. PoolOk(conns, timers, commits) BY <2>5, <2>6, <2>7 DEF PoolOk
  <2>10. \A x \in conns : x.queue = <<>> \/ \E y \in upstream.pool : x.queue = y.queue BY <2>1
  <2> HIDE DEF conns, timers
  <2>11. QED BY <1>2, <1>3, <2>8, <2>9, <2>10, PoolStep DEF FeedTyped
<1>7. QED BY <1>5, <1>6

LEMMA NewClient ==
  ASSUME NEW id \in Nat, NEW n
  PROVE  ClientOk(pg_client(id), n) /\ pg_client(id) \in PgClient /\ pg_client(id).queue = <<>> /\ ~pg_client(id).dead
<1>1. <<>> \in Seq(Change) OBVIOUS
<1>2. pg_client(id) \in PgClient BY <1>1 DEF pg_client, PgClient
<1>3. QED BY <1>2, EmptyQueue DEF ClientOk, pg_client

LEMMA StartUpstreamKeeps == ASSUME FeedInv, StartUpstream PROVE FeedInv'
<1> DEFINE id == opened.listeners + 1
           d == pg_client(id)
           conns == upstream.pool \cup {d}
<1>0. PoolOk(upstream.pool, upstream.timers, commits) /\ FeedTyped BY DEF FeedInv
<1>1. upstream.timers > 0 /\ UNCHANGED <<games, commits, clients, viewer>>
      /\ opened' = [opened EXCEPT !.listeners = id]
      /\ upstream' = [upstream EXCEPT !.timers = upstream.timers - 1, !.pool = @ \cup {pg_client(opened'.listeners)}]
  BY DEF StartUpstream
<1>2. id \in Nat /\ opened' \in [listeners: Nat, sockets: Nat] /\ opened'.listeners = id /\ opened'.sockets = opened.sockets
  BY <1>0, <1>1 DEF FeedTyped
<1>3. ClientOk(d, commits) /\ d \in PgClient /\ d.queue = <<>> /\ ~d.dead BY <1>2, NewClient
<1>4. upstream.timers = 1 /\ \A c \in upstream.pool : c.dead BY <1>0, <1>1 DEF PoolOk
<1>5. upstream' = [upstream EXCEPT !.timers = 0, !.pool = conns] BY <1>1, <1>2, <1>4
<1> HIDE DEF d
<1>6. PoolOk(conns, 0, commits) BY <1>0, <1>3, <1>4 DEF PoolOk
<1>7. upstream' \in Upstreams /\ upstream'.pool = conns /\ upstream'.timers = 0
  <2>1. conns \subseteq PgClient /\ 0 \in Nat BY <1>0, <1>3 DEF FeedTyped
  <2> HIDE DEF conns
  <2>2. QED BY <1>0, <1>5, <2>1 DEF FeedTyped, Upstreams
<1>8. \A x \in conns : x.queue = <<>> \/ \E y \in upstream.pool : x.queue = y.queue BY <1>3
<1> HIDE DEF conns
<1>9. QED BY <1>1, <1>2, <1>6, <1>7, <1>8, PoolStep

LEMMA ShutdownKeeps == ASSUME FeedInv, Shutdown PROVE FeedInv'
<1> DEFINE ended(c) == IF c.at = "broken" THEN c ELSE [c EXCEPT !.at = "broken", !.reports = {"end"}]
           conns == {ended(c) : c \in upstream.pool}
<1>0. PoolOk(upstream.pool, upstream.timers, commits) /\ FeedTyped BY DEF FeedInv
<1>1. upstream' = [upstream EXCEPT !.shuttingDown = TRUE, !.pool = conns] BY DEF Shutdown
<1>2. UNCHANGED <<games, commits, viewer, opened>> /\ clients' = {} BY DEF Shutdown
<1>3. ASSUME NEW c \in upstream.pool
      PROVE  ended(c) \in PgClient /\ ended(c).queue = c.queue /\ ended(c).dead = c.dead /\ ended(c).at = "broken"
  <2>1. c \in PgClient BY <1>0 DEF FeedTyped
  <2>2. {"end"} \in SUBSET {"error", "end", "rejected"} OBVIOUS
  <2>3. CASE c.at = "broken" BY <2>1, <2>3
  <2>4. CASE c.at # "broken" BY <2>1, <2>2, <2>4 DEF PgClient
  <2>5. QED BY <2>3, <2>4
<1> HIDE DEF ended
<1>4. ASSUME NEW c \in upstream.pool PROVE ClientOk(ended(c), commits)
  <2>1. ClientOk(c, commits) BY <1>0 DEF PoolOk
  <2>2. QED BY <1>3, <2>1 DEF ClientOk
<1>5. PoolOk(conns, upstream.timers, commits) BY <1>0, <1>3, <1>4 DEF PoolOk
<1>6. upstream' \in Upstreams /\ upstream'.pool = conns /\ upstream'.timers = upstream.timers
  <2>1. conns \subseteq PgClient BY <1>3
  <2> HIDE DEF conns
  <2>2. QED BY <1>0, <1>1, <2>1 DEF FeedTyped, Upstreams
<1>7. \A x \in conns : x.queue = <<>> \/ \E y \in upstream.pool : x.queue = y.queue BY <1>3
<1> HIDE DEF conns
<1>8. QED BY <1>0, <1>2, <1>5, <1>6, <1>7, PoolStep DEF FeedTyped

LEMMA FeedRestartKeeps == ASSUME FeedInv, FeedRestart PROVE FeedInv'
<1> DEFINE id == opened.listeners + 1
           d == pg_client(id)
<1>0. FeedTyped BY DEF FeedInv
<1>1. UNCHANGED <<games, commits, viewer>> /\ clients' = {}
      /\ opened' = [opened EXCEPT !.listeners = id]
      /\ upstream' = [pool |-> {pg_client(opened'.listeners)}, timers |-> 0, shuttingDown |-> FALSE]
  BY DEF FeedRestart
<1>2. id \in Nat /\ opened' \in [listeners: Nat, sockets: Nat] /\ opened'.listeners = id /\ opened'.sockets = opened.sockets
  BY <1>0, <1>1 DEF FeedTyped
<1>3. ClientOk(d, commits) /\ d \in PgClient /\ d.queue = <<>> /\ ~d.dead BY <1>2, NewClient
<1> HIDE DEF d
<1>4. upstream' = [pool |-> {d}, timers |-> 0, shuttingDown |-> FALSE] BY <1>1, <1>2 DEF d
<1>5. upstream' \in Upstreams /\ upstream'.pool = {d} /\ upstream'.timers = 0 BY <1>3, <1>4 DEF Upstreams
<1>6. PoolOk({d}, 0, commits) BY <1>3 DEF PoolOk
<1>7. QED BY <1>1, <1>2, <1>3, <1>5, <1>6, PoolStep

\* A row changes: the one client that listens, if there is one, has the newest change last.
LEMMA CommitKeeps == ASSUME FeedInv, Commit PROVE FeedInv'
<1>0. FeedTyped /\ PoolOk(upstream.pool, upstream.timers, commits)
      /\ SocketsOk(clients, upstream.pool, commits, opened.sockets)
      /\ ViewOk(viewer.socket, viewer.heard, clients, upstream.pool, commits, opened.sockets)
  BY DEF FeedInv
<1>1. PICK s \in Slots :
         /\ commits' = commits + 1 /\ games' = [games EXCEPT ![s] = commits']
         /\ upstream' = [upstream EXCEPT !.pool =
              {IF c.at = "listening" THEN [c EXCEPT !.queue = Append(@, [slot |-> s, at |-> commits'])] ELSE c : c \in @}]
         /\ UNCHANGED <<clients, viewer, opened>>
  BY DEF Commit
<1> DEFINE n == commits + 1
           m == [slot |-> s, at |-> n]
           grown(c) == IF c.at = "listening" THEN [c EXCEPT !.queue = Append(c.queue, m)] ELSE c
           conns == {grown(c) : c \in upstream.pool}
<1>2. commits \in Nat /\ n \in Nat /\ commits < n /\ m \in Change /\ m.at = n BY <1>0 DEF FeedTyped, Change
<1>3. upstream' = [upstream EXCEPT !.pool = conns] BY <1>1
<1> HIDE DEF m
<1>4. ASSUME NEW c \in upstream.pool
      PROVE  /\ ClientOk(grown(c), n) /\ grown(c) \in PgClient /\ grown(c).dead = c.dead
             /\ \A q : Upto(q, commits) /\ q \in Seq(Change) /\ Before(q, c.queue) => Before(q, grown(c).queue)
             /\ \A k \in 0..commits : After(k, c.queue) => After(k, grown(c).queue)
  <2>1. ClientOk(c, commits) BY <1>0 DEF PoolOk
  <2>2. c \in PgClient /\ c.queue \in Seq(Change) /\ Ordered(c.queue) /\ Upto(c.queue, commits)
    BY <2>1 DEF ClientOk, PgClient
  <2>3. \A i \in DOMAIN c.queue : c.queue[i].at \in Nat
    <3>1. ASSUME NEW i \in DOMAIN c.queue PROVE c.queue[i].at \in Nat
      <4>1. c.queue[i] \in Change BY <2>2
      <4>2. QED BY <4>1 DEF Change
    <3>2. QED BY <3>1
  <2>4. \A i \in DOMAIN c.queue : c.queue[i].at < m.at /\ c.queue[i].at <= n BY <1>2, <2>2, <2>3 DEF Upto
  <2>5. CASE c.at # "listening"
    <3>1. grown(c) = c BY <2>5
    <3>2. Upto(c.queue, n) BY <2>4 DEF Upto
    <3>3. QED BY <2>1, <3>1, <3>2 DEF ClientOk
  <2>6. CASE c.at = "listening"
    <3> DEFINE q == Append(c.queue, m)
    <3>1. grown(c) = [c EXCEPT !.queue = q] BY <2>6
    <3>2. q \in Seq(Change) BY <1>2, <2>2, AppendOf
    <3>3. Upto(c.queue, n) BY <2>4 DEF Upto
    <3>4. Ordered(q) /\ Upto(q, n) BY <1>2, <2>2, <2>4, <3>3, AppendKeeps
    <3>5. ASSUME NEW r, Upto(r, commits), r \in Seq(Change), Before(r, c.queue) PROVE Before(r, q)
      <4>1. \A i \in DOMAIN r : r[i].at < m.at
        <5>1. ASSUME NEW i \in DOMAIN r PROVE r[i].at < m.at
          <6>1. r[i] \in Change BY <3>5
          <6>2. r[i].at \in Nat BY <6>1 DEF Change
          <6>3. QED BY <1>2, <3>5, <6>2 DEF Upto
        <5>2. QED BY <5>1
      <4>2. QED BY <1>2, <2>2, <2>4, <3>5, <4>1, AppendKeeps
    <3>6. ASSUME NEW k \in 0..commits, After(k, c.queue) PROVE After(k, q)
      <4>1. k < m.at BY <1>2
      <4>2. QED BY <1>2, <2>2, <2>4, <3>6, <4>1, AppendKeeps
    <3> HIDE DEF q
    <3>7. [c EXCEPT !.queue = q] \in PgClient BY <2>2, <3>2 DEF PgClient
    <3>8. [c EXCEPT !.queue = q].queue = q /\ [c EXCEPT !.queue = q].dead = c.dead
          /\ [c EXCEPT !.queue = q].at = c.at /\ [c EXCEPT !.queue = q].reports = c.reports
      BY <2>2 DEF PgClient
    <3>9. ~c.dead /\ c.reports = {} BY <2>1, <2>6 DEF ClientOk
    <3> DEFINE d == [c EXCEPT !.queue = q]
    <3>10. d \in PgClient /\ d.queue = q /\ d.dead = c.dead /\ d.at = c.at /\ d.reports = c.reports BY <3>7, <3>8
    <3>11. grown(c) = d BY <3>1
    <3> HIDE DEF d, grown
    <3>12. ClientOk(d, n) BY <3>4, <3>9, <3>10 DEF ClientOk
    <3>13. QED BY <3>5, <3>6, <3>10, <3>11, <3>12
  <2>7. QED BY <2>5, <2>6
<1> HIDE DEF grown
<1>5. PoolOk(conns, upstream.timers, n)
  <2>1. \A x \in conns : ClientOk(x, n) BY <1>4
  <2>2. \A x, y \in conns : ~x.dead /\ ~y.dead => x = y
    <3>1. SUFFICES ASSUME NEW c \in upstream.pool, NEW d \in upstream.pool, ~grown(c).dead, ~grown(d).dead
                   PROVE  grown(c) = grown(d)
      OBVIOUS
    <3>2. ~c.dead /\ ~d.dead BY <1>4, <3>1
    <3>3. QED BY <1>0, <3>2 DEF PoolOk
  <2>3. upstream.timers = 1 => \A x \in conns : x.dead BY <1>0, <1>4 DEF PoolOk
  <2>4. QED BY <1>0, <2>1, <2>2, <2>3 DEF PoolOk
<1>6. SocketsOk(clients, conns, n, opened.sockets)
  <2>1. ASSUME NEW t \in clients PROVE SocketOk(t, conns, n) /\ t.id \in 1..opened.sockets
    <3>1. SocketOk(t, upstream.pool, commits) /\ t.id \in 1..opened.sockets BY <1>0 DEF SocketsOk
    <3>2. t \in Socket /\ t.stream \in Seq(Change) /\ Ordered(t.stream) /\ Upto(t.stream, commits)
      BY <3>1 DEF SocketOk, Socket
    <3>3. \A c \in conns : Before(t.stream, c.queue) BY <1>4, <3>1, <3>2 DEF SocketOk
    <3>4. Upto(t.stream, n)
      <4>1. ASSUME NEW i \in DOMAIN t.stream PROVE t.stream[i].at <= n
        <5>1. t.stream[i] \in Change BY <3>2
        <5>2. t.stream[i].at \in Nat BY <5>1 DEF Change
        <5>3. QED BY <1>2, <3>2, <5>2 DEF Upto
      <4>2. QED BY <4>1 DEF Upto
    <3>5. QED BY <3>1, <3>2, <3>3, <3>4 DEF SocketOk
  <2>2. QED BY <1>0, <2>1 DEF SocketsOk
<1>7. ViewOk(viewer.socket, viewer.heard, clients, conns, n, opened.sockets)
  <2>1. viewer.heard \in 0..commits /\ viewer.heard \in 0..n BY <1>0, <1>2 DEF ViewOk
  <2>2. \A c \in conns : After(viewer.heard, c.queue) BY <1>0, <1>4, <2>1 DEF ViewOk
  <2>3. QED BY <1>0, <2>1, <2>2 DEF ViewOk
<1>8. upstream' \in Upstreams /\ upstream'.pool = conns /\ upstream'.timers = upstream.timers
  <2>1. conns \subseteq PgClient BY <1>4
  <2> HIDE DEF conns
  <2>2. QED BY <1>0, <1>3, <2>1 DEF FeedTyped, Upstreams
<1>9. games' \in [Slots -> Nat] /\ IsFiniteSet({x \in Slots : games'[x] > 0})
  <2> DEFINE R == {x \in Slots : games[x] > 0}
             R2 == {x \in Slots : games'[x] > 0}
  <2>1. games' \in [Slots -> Nat] BY <1>0, <1>1, <1>2 DEF FeedTyped
  <2>2. R2 \subseteq R \cup {s} BY <1>0, <1>1 DEF FeedTyped
  <2>3. IsFiniteSet(R) BY <1>0 DEF FeedTyped
  <2> HIDE DEF R, R2
  <2>4. IsFiniteSet(R \cup {s}) BY <2>3, FS_AddElement
  <2>5. IsFiniteSet(R2) BY <2>2, <2>4, FS_Subset
  <2>6. QED BY <2>1, <2>5 DEF R2
<1> HIDE DEF conns
<1>10. commits' = n /\ clients' = clients /\ viewer' = viewer /\ opened' = opened BY <1>1
<1> HIDE DEF n
<1>11. FeedTyped' BY <1>0, <1>2, <1>8, <1>9, <1>10 DEF FeedTyped, Upstreams
<1>12. QED BY <1>5, <1>6, <1>7, <1>8, <1>10, <1>11 DEF FeedInv

\* The relay's sockets and the viewer's own state change, and nothing else does.
LEMMA SocketStep ==
  ASSUME FeedInv, UNCHANGED <<games, commits, upstream>>,
         clients' \in SUBSET Socket,
         \A t \in clients' : \E s \in clients : t.id = s.id /\ t.stream = s.stream,
         \A t, u \in clients' : t.id = u.id => t = u,
         viewer' \in [socket: Nat, heard: Nat, list: Listing, poll: SUBSET Listing],
         viewer'.socket \in {viewer.socket, NoSocket}, viewer'.heard = viewer.heard,
         UNCHANGED opened
  PROVE  FeedInv'
<1>0. FeedTyped /\ PoolOk(upstream.pool, upstream.timers, commits)
      /\ SocketsOk(clients, upstream.pool, commits, opened.sockets)
      /\ ViewOk(viewer.socket, viewer.heard, clients, upstream.pool, commits, opened.sockets)
  BY DEF FeedInv
<1>1. FeedTyped' BY <1>0 DEF FeedTyped
<1>2. SocketsOk(clients', upstream.pool, commits, opened.sockets) BY <1>0 DEF SocketsOk, SocketOk
<1>3. ViewOk(viewer'.socket, viewer.heard, clients', upstream.pool, commits, opened.sockets)
  <2>1. viewer'.socket \in 0..opened.sockets BY <1>0 DEF ViewOk, NoSocket, FeedTyped
  <2>2. ASSUME NEW t \in clients', t.id = viewer'.socket PROVE After(viewer.heard, t.stream)
    <3>1. PICK s \in clients : t.id = s.id /\ t.stream = s.stream OBVIOUS
    <3>2. s.id \in 1..opened.sockets BY <1>0 DEF SocketsOk
    <3>3. s.id = viewer.socket BY <2>2, <3>1, <3>2 DEF NoSocket
    <3>4. QED BY <1>0, <3>1, <3>3 DEF ViewOk
  <2>3. QED BY <1>0, <2>1, <2>2 DEF ViewOk
<1>4. QED BY <1>0, <1>1, <1>2, <1>3 DEF FeedInv

LEMMA HeartbeatKeeps == ASSUME FeedInv, Heartbeat PROVE FeedInv'
<1>0. FeedTyped /\ SocketsOk(clients, upstream.pool, commits, opened.sockets) BY DEF FeedInv
<1> DEFINE quiet(s) == [s EXCEPT !.isAlive = FALSE]
<1>1. clients' = {quiet(s) : s \in {r \in clients : r.isAlive}} /\ UNCHANGED <<games, commits, upstream, viewer, opened>>
  BY DEF Heartbeat
<1>2. ASSUME NEW s \in clients PROVE quiet(s) \in Socket /\ quiet(s).id = s.id /\ quiet(s).stream = s.stream
  <2>1. s \in Socket BY <1>0 DEF FeedTyped
  <2>2. FALSE \in BOOLEAN OBVIOUS
  <2>3. QED BY <2>1, <2>2 DEF Socket
<1> HIDE DEF quiet
<1>3. clients' \in SUBSET Socket BY <1>1, <1>2
<1>4. \A t \in clients' : \E s \in clients : t.id = s.id /\ t.stream = s.stream BY <1>1, <1>2
<1>5. \A t, u \in clients' : t.id = u.id => t = u BY <1>0, <1>1, <1>2 DEF SocketsOk
<1>6. QED BY <1>0, <1>1, <1>3, <1>4, <1>5, SocketStep DEF FeedTyped

LEMMA PongKeeps == ASSUME FeedInv, Pong PROVE FeedInv'
<1>0. FeedTyped /\ SocketsOk(clients, upstream.pool, commits, opened.sockets) BY DEF FeedInv
<1>1. PICK s \in clients : clients' = (clients \ {s}) \cup {[s EXCEPT !.isAlive = TRUE]} BY DEF Pong
<1>2. UNCHANGED <<games, commits, upstream, viewer, opened>> BY DEF Pong
<1> DEFINE p == [s EXCEPT !.isAlive = TRUE]
<1>3. p \in Socket /\ p.id = s.id /\ p.stream = s.stream
  <2>1. s \in Socket /\ TRUE \in BOOLEAN BY <1>0 DEF FeedTyped
  <2>2. QED BY <2>1 DEF Socket
<1>4. clients' = (clients \ {s}) \cup {p} BY <1>1
<1> HIDE DEF p
<1>5. clients' \in SUBSET Socket BY <1>0, <1>3, <1>4 DEF FeedTyped
<1>6. \A t \in clients' : \E r \in clients : t.id = r.id /\ t.stream = r.stream BY <1>3, <1>4
<1>7. \A t, u \in clients' : t.id = u.id => t = u BY <1>0, <1>3, <1>4 DEF SocketsOk
<1>8. QED BY <1>0, <1>2, <1>5, <1>6, <1>7, SocketStep DEF FeedTyped

LEMMA DisconnectKeeps == ASSUME FeedInv, Disconnect PROVE FeedInv'
<1>0. FeedTyped /\ SocketsOk(clients, upstream.pool, commits, opened.sockets) BY DEF FeedInv
<1>1. viewer' = [viewer EXCEPT !.socket = NoSocket] /\ clients' \subseteq clients
      /\ UNCHANGED <<games, commits, upstream, opened>>
  BY DEF Disconnect
<1>2. viewer' \in [socket: Nat, heard: Nat, list: Listing, poll: SUBSET Listing]
      /\ viewer'.socket = NoSocket /\ viewer'.heard = viewer.heard
  <2>1. NoSocket \in Nat BY DEF NoSocket
  <2>2. QED BY <1>0, <1>1, <2>1 DEF FeedTyped
<1>3. clients' \in SUBSET Socket BY <1>0, <1>1 DEF FeedTyped
<1>4. \A t, u \in clients' : t.id = u.id => t = u BY <1>0, <1>1 DEF SocketsOk
<1>5. QED BY <1>1, <1>2, <1>3, <1>4, SocketStep

\* What the relay hears goes to the sockets: it is the oldest message of the one live client.
LEMMA BroadcastKeeps == ASSUME FeedInv, Broadcast PROVE FeedInv'
<1>0. FeedTyped /\ PoolOk(upstream.pool, upstream.timers, commits)
      /\ SocketsOk(clients, upstream.pool, commits, opened.sockets)
      /\ ViewOk(viewer.socket, viewer.heard, clients, upstream.pool, commits, opened.sockets)
  BY DEF FeedInv
<1>1. PICK c \in upstream.pool : /\ c.queue # <<>>
                                 /\ upstream' = with_client(c, [c EXCEPT !.queue = Tail(@)])
                                 /\ \E slow \in SUBSET clients :
                                      clients' = {[s EXCEPT !.stream = Append(@, Head(c.queue))] : s \in clients \ slow}
  BY DEF Broadcast
<1>2. UNCHANGED <<games, commits, viewer, opened>> BY DEF Broadcast
<1> DEFINE m == Head(c.queue)
           q == Tail(c.queue)
           d == [c EXCEPT !.queue = q]
           sent(s) == [s EXCEPT !.stream = Append(s.stream, m)]
           conns == (upstream.pool \ {c}) \cup {d}
<1>3. PICK slow \in SUBSET clients : clients' = {sent(s) : s \in clients \ slow} BY <1>1
<1>4. ClientOk(c, commits) /\ c \in PgClient /\ c.queue \in Seq(Change) /\ Ordered(c.queue) /\ Upto(c.queue, commits)
  BY <1>0 DEF PoolOk, ClientOk, PgClient
<1>5. m \in Change /\ q \in Seq(Change) BY <1>1, <1>4, TailOf
<1>6. Ordered(q) /\ After(m.at, q) /\ Upto(q, commits) /\ m.at <= commits BY <1>1, <1>4, TailKeeps
<1>7. \A n : After(n, c.queue) => After(n, q) /\ n < m.at BY <1>1, <1>4, TailKeeps
<1>8. \A r : Before(r, c.queue) => Before(r, q) /\ \A i \in DOMAIN r : r[i].at < m.at BY <1>1, <1>4, TailKeeps
<1>9. ~c.dead BY <1>1, <1>4 DEF ClientOk
<1> HIDE DEF m, q
<1>10. d \in PgClient /\ d.queue = q /\ d.dead = c.dead /\ d.at = c.at /\ d.reports = c.reports
  BY <1>4, <1>5 DEF PgClient
<1>11. upstream' = with_client(c, d) BY <1>1 DEF q
<1> HIDE DEF d
<1>12. ClientOk(d, commits) BY <1>4, <1>6, <1>9, <1>10 DEF ClientOk
<1>13. PoolOk(conns, upstream.timers, commits) BY <1>0, <1>10, <1>12, ClientReplaced
<1>14. upstream' \in Upstreams /\ upstream'.pool = conns /\ upstream'.timers = upstream.timers
  <2>1. upstream' = [upstream EXCEPT !.pool = conns] BY <1>11 DEF with_client
  <2>2. conns \subseteq PgClient BY <1>0, <1>10 DEF FeedTyped
  <2> HIDE DEF conns
  <2>3. QED BY <1>0, <2>1, <2>2 DEF FeedTyped, Upstreams
<1>15. \A x \in conns : x = d \/ x.queue = <<>>
  <2>1. \A x \in upstream.pool : x # c => x.dead BY <1>0, <1>9 DEF PoolOk
  <2>2. \A x \in upstream.pool : x # c => x.queue = <<>> BY <1>0, <2>1 DEF PoolOk, ClientOk
  <2>3. QED BY <2>2
<1> HIDE DEF conns
<1>16. ASSUME NEW s \in clients
       PROVE  /\ sent(s) \in Socket /\ sent(s).id = s.id /\ SocketOk(sent(s), conns, commits)
              /\ \A n : After(n, s.stream) /\ n < m.at => After(n, sent(s).stream)
  <2> DEFINE r == Append(s.stream, m)
  <2>1. SocketOk(s, upstream.pool, commits) BY <1>0 DEF SocketsOk
  <2>2. s \in Socket /\ s.stream \in Seq(Change) /\ Ordered(s.stream) /\ Upto(s.stream, commits)
        /\ Before(s.stream, c.queue)
    BY <2>1 DEF SocketOk, Socket
  <2>3. Before(s.stream, q) /\ \A i \in DOMAIN s.stream : s.stream[i].at < m.at BY <1>8, <2>2
  <2>4. r \in Seq(Change) BY <1>5, <2>2, AppendOf
  <2>5. Ordered(r) /\ Upto(r, commits) /\ Before(r, q) BY <1>5, <1>6, <2>2, <2>3, AppendKeeps
  <2>6. \A n : After(n, s.stream) /\ n < m.at => After(n, r) BY <1>5, <2>2, <2>3, AppendKeeps
  <2> HIDE DEF r
  <2>7. sent(s) = [s EXCEPT !.stream = r] BY DEF r
  <2>8. sent(s) \in Socket /\ sent(s).id = s.id /\ sent(s).stream = r BY <2>2, <2>4, <2>7 DEF Socket
  <2> HIDE DEF sent
  <2>9. \A x \in conns : Before(r, x.queue) BY <1>10, <1>15, <2>5, EmptyQueue
  <2>10. SocketOk(sent(s), conns, commits) BY <2>5, <2>8, <2>9 DEF SocketOk
  <2>11. QED BY <2>6, <2>8, <2>10
<1> HIDE DEF sent
<1>17. SocketsOk(clients', conns, commits, opened.sockets) BY <1>0, <1>3, <1>16 DEF SocketsOk
<1>18. ViewOk(viewer.socket, viewer.heard, clients', conns, commits, opened.sockets)
  <2>1. After(viewer.heard, q) /\ viewer.heard < m.at BY <1>0, <1>7 DEF ViewOk
  <2>2. \A x \in conns : After(viewer.heard, x.queue) BY <1>10, <1>15, <2>1, EmptyQueue
  <2>3. ASSUME NEW t \in clients', t.id = viewer.socket PROVE After(viewer.heard, t.stream)
    <3>1. PICK s \in clients : t = sent(s) BY <1>3
    <3>2. After(viewer.heard, s.stream) BY <1>0, <1>16, <2>3, <3>1 DEF ViewOk
    <3>3. QED BY <1>16, <2>1, <3>1, <3>2
  <2>4. QED BY <1>0, <2>2, <2>3 DEF ViewOk
<1>19. clients' \in SUBSET Socket BY <1>3, <1>16
<1>20. FeedTyped' BY <1>0, <1>2, <1>14, <1>19 DEF FeedTyped, Upstreams
<1>21. QED BY <1>2, <1>13, <1>14, <1>17, <1>18, <1>20 DEF FeedInv

LEMMA ConnectKeeps == ASSUME FeedInv, Connect PROVE FeedInv'
<1>0. FeedTyped /\ PoolOk(upstream.pool, upstream.timers, commits)
      /\ SocketsOk(clients, upstream.pool, commits, opened.sockets)
      /\ ViewOk(viewer.socket, viewer.heard, clients, upstream.pool, commits, opened.sockets)
  BY DEF FeedInv
<1> DEFINE id == opened.sockets + 1
           t == [id |-> id, isAlive |-> TRUE, stream |-> <<>>]
<1>1. opened' = [opened EXCEPT !.sockets = id] /\ UNCHANGED <<games, commits, upstream>>
      /\ viewer' = [viewer EXCEPT !.socket = opened'.sockets]
      /\ clients' = clients \cup {[id |-> opened'.sockets, isAlive |-> TRUE, stream |-> <<>>]}
  BY DEF Connect
<1>2. opened.sockets \in Nat /\ id \in Nat /\ id > opened.sockets /\ id \in 1..id BY <1>0 DEF FeedTyped
<1>3. opened' \in [listeners: Nat, sockets: Nat] /\ opened'.sockets = id BY <1>0, <1>1, <1>2 DEF FeedTyped
<1>4. viewer' = [viewer EXCEPT !.socket = id] /\ clients' = clients \cup {t} BY <1>1, <1>3
<1>5. t \in Socket /\ t.id = id /\ t.stream = <<>>
  <2>1. <<>> \in Seq(Change) /\ TRUE \in BOOLEAN OBVIOUS
  <2>2. QED BY <1>2, <2>1 DEF Socket
<1> HIDE DEF t
<1>6. viewer' \in [socket: Nat, heard: Nat, list: Listing, poll: SUBSET Listing]
      /\ viewer'.socket = id /\ viewer'.heard = viewer.heard
  BY <1>0, <1>2, <1>4 DEF FeedTyped
<1>7. clients' \in SUBSET Socket BY <1>0, <1>4, <1>5 DEF FeedTyped
<1>8. \A s \in clients : SocketOk(s, upstream.pool, commits) /\ s.id \in 1..opened.sockets /\ s.id # id
  <2>1. \A k \in 1..opened.sockets : k # id BY <1>2
  <2>2. QED BY <1>0, <2>1 DEF SocketsOk
<1>9. SocketOk(t, upstream.pool, commits) BY <1>5, EmptyQueue DEF SocketOk
<1>10. \A k \in 1..opened.sockets : k \in 1..id BY <1>2
<1>11. SocketsOk(clients', upstream.pool, commits, id)
  <2>1. \A s \in clients' : SocketOk(s, upstream.pool, commits) /\ s.id \in 1..id BY <1>2, <1>4, <1>5, <1>8, <1>9, <1>10
  <2>2. \A s, u \in clients' : s.id = u.id => s = u BY <1>0, <1>4, <1>5, <1>8 DEF SocketsOk
  <2>3. QED BY <2>1, <2>2 DEF SocketsOk
<1>12. ViewOk(id, viewer.heard, clients', upstream.pool, commits, id)
  <2>1. id \in 0..id BY <1>2
  <2>2. \A s \in clients' : s.id = id => After(viewer.heard, s.stream) BY <1>4, <1>5, <1>8, EmptyQueue
  <2>3. QED BY <1>0, <2>1, <2>2 DEF ViewOk
<1> HIDE DEF id
<1>13. FeedTyped' BY <1>0, <1>1, <1>3, <1>6, <1>7 DEF FeedTyped
<1>14. QED BY <1>0, <1>1, <1>3, <1>6, <1>11, <1>12, <1>13 DEF FeedInv

\* A list that shows a game once still does with what is heard.
LEMMA ApplyKeeps ==
  ASSUME NEW list \in Listing, NEW game \in Change
  PROVE  applyIncoming(list, game) \in Listing
<1>1. list \in Seq(Change) /\ \A i, j \in DOMAIN list : i # j => list[i].slot # list[j].slot BY DEF Listing
<1>2. Len(list) \in Nat /\ DOMAIN list = 1..Len(list) /\ \A i \in 1..Len(list) : list[i] \in Change BY <1>1
<1>3. CASE shown(list, game.slot)
  <2> DEFINE new == [i \in DOMAIN list |-> IF list[i].slot = game.slot THEN game ELSE list[i]]
  <2>1. applyIncoming(list, game) = new BY <1>3 DEF applyIncoming
  <2>2. new \in [1..Len(list) -> Change] BY <1>2
  <2>3. DOMAIN new = DOMAIN list /\ \A i \in DOMAIN list : new[i].slot = list[i].slot BY <1>2
  <2> HIDE DEF new
  <2>4. new \in Seq(Change) BY <1>2, <2>2
  <2>5. QED BY <1>1, <2>1, <2>3, <2>4 DEF Listing
<1>4. CASE ~shown(list, game.slot)
  <2> DEFINE longer == <<game>> \o list
             n == IF Len(longer) < limit THEN Len(longer) ELSE limit
             new == SubSeq(longer, 1, n)
  <2>1. applyIncoming(list, game) = new BY <1>4 DEF applyIncoming
  <2>2. <<game>> \in Seq(Change) /\ Len(<<game>>) = 1 OBVIOUS
  <2>3. longer \in Seq(Change) /\ Len(longer) = Len(list) + 1 /\ longer[1] = game
        /\ \A i \in 2..(Len(list) + 1) : longer[i] = list[i - 1]
    BY <1>1, <1>2, <2>2
  <2>4. \A i, j \in 1..(Len(list) + 1) : i # j => longer[i].slot # longer[j].slot
    <3>1. \A i \in 1..Len(list) : list[i].slot # game.slot BY <1>2, <1>4 DEF shown
    <3>2. SUFFICES ASSUME NEW i \in 1..(Len(list) + 1), NEW j \in 1..(Len(list) + 1), i # j
                   PROVE  longer[i].slot # longer[j].slot
      OBVIOUS
    <3> HIDE DEF longer
    <3>3. CASE i = 1
      <4>1. j \in 2..(Len(list) + 1) /\ j - 1 \in 1..Len(list) BY <1>2, <3>2, <3>3
      <4>2. QED BY <2>3, <3>1, <3>3, <4>1
    <3>4. CASE j = 1
      <4>1. i \in 2..(Len(list) + 1) /\ i - 1 \in 1..Len(list) BY <1>2, <3>2, <3>4
      <4>2. QED BY <2>3, <3>1, <3>4, <4>1
    <3>5. CASE i # 1 /\ j # 1
      <4>1. i \in 2..(Len(list) + 1) /\ i - 1 \in 1..Len(list) /\ j \in 2..(Len(list) + 1) /\ j - 1 \in 1..Len(list)
            /\ i - 1 # j - 1
        BY <1>2, <3>2, <3>5
      <4>2. list[i-1].slot # list[j-1].slot BY <1>1, <1>2, <4>1
      <4>3. QED BY <2>3, <4>1, <4>2
    <3>6. QED BY <3>3, <3>4, <3>5
  <2>5. n \in Nat /\ n <= Len(list) + 1 BY <1>2, <2>3, LimitsAssumption
  <2> HIDE DEF longer, n
  <2>6. new \in Seq(Change) /\ Len(new) = n /\ \A i \in 1..n : new[i] = longer[i]
    <3>1. \A i \in 1..n : longer[i] \in Change
      <4>1. \A i \in 1..n : i \in 1..Len(longer) BY <1>2, <2>3, <2>5
      <4>2. QED BY <2>3, <4>1
    <3>2. QED BY <1>2, <2>3, <2>5, <3>1
  <2> HIDE DEF new
  <2>7. DOMAIN new = 1..n /\ \A i \in 1..n : i \in 1..(Len(list) + 1) BY <1>2, <2>5, <2>6
  <2>8. \A i, j \in 1..n : i # j => new[i].slot # new[j].slot BY <2>4, <2>6, <2>7
  <2>9. QED BY <2>1, <2>6, <2>7, <2>8 DEF Listing
<1>5. QED BY <1>3, <1>4

LEMMA HearKeeps == ASSUME FeedInv, Hear PROVE FeedInv'
<1>0. FeedTyped /\ PoolOk(upstream.pool, upstream.timers, commits)
      /\ SocketsOk(clients, upstream.pool, commits, opened.sockets)
      /\ ViewOk(viewer.socket, viewer.heard, clients, upstream.pool, commits, opened.sockets)
  BY DEF FeedInv
<1>1. PICK s \in clients :
         /\ s.id = viewer.socket /\ s.stream # <<>>
         /\ clients' = (clients \ {s}) \cup {[s EXCEPT !.stream = Tail(@)]}
         /\ viewer' = [viewer EXCEPT !.heard = Head(s.stream).at, !.list = applyIncoming(@, Head(s.stream))]
  BY DEF Hear
<1>2. UNCHANGED <<games, commits, upstream, opened>> BY DEF Hear
<1> DEFINE m == Head(s.stream)
           q == Tail(s.stream)
           t == [s EXCEPT !.stream = q]
           list == applyIncoming(viewer.list, m)
<1>3. SocketOk(s, upstream.pool, commits) /\ s.id \in 1..opened.sockets BY <1>0 DEF SocketsOk
<1>4. s \in Socket /\ s.stream \in Seq(Change) /\ Ordered(s.stream) /\ Upto(s.stream, commits)
      /\ \A c \in upstream.pool : Before(s.stream, c.queue)
  BY <1>3 DEF SocketOk, Socket
<1>5. m \in Change /\ q \in Seq(Change) BY <1>1, <1>4, TailOf
<1>6. Ordered(q) /\ After(m.at, q) /\ Upto(q, commits) /\ m.at <= commits BY <1>1, <1>4, TailKeeps
<1>7. \A r : Before(s.stream, r) => Before(q, r) /\ After(m.at, r) BY <1>1, <1>4, TailKeeps
<1>8. list \in Listing
  <2>1. viewer.list \in Listing BY <1>0 DEF FeedTyped
  <2> HIDE DEF m
  <2>2. QED BY <1>5, <2>1, ApplyKeeps
<1>9. viewer' = [viewer EXCEPT !.heard = m.at, !.list = list] /\ clients' = (clients \ {s}) \cup {t} BY <1>1
<1> HIDE DEF m, q, list
<1>10. t \in Socket /\ t.id = s.id /\ t.stream = q BY <1>4, <1>5 DEF Socket
<1> HIDE DEF t
<1>11. m.at \in Nat /\ m.at \in 0..commits BY <1>0, <1>5, <1>6 DEF Change, FeedTyped
<1>12. viewer' \in [socket: Nat, heard: Nat, list: Listing, poll: SUBSET Listing]
       /\ viewer'.socket = viewer.socket /\ viewer'.heard = m.at
  BY <1>0, <1>8, <1>9, <1>11 DEF FeedTyped
<1>13. clients' \in SUBSET Socket BY <1>0, <1>9, <1>10 DEF FeedTyped
<1>14. SocketOk(t, upstream.pool, commits) BY <1>4, <1>6, <1>7, <1>10 DEF SocketOk
<1>15. SocketsOk(clients', upstream.pool, commits, opened.sockets)
  <2>1. \A x \in clients' : SocketOk(x, upstream.pool, commits) /\ x.id \in 1..opened.sockets
    BY <1>0, <1>3, <1>9, <1>10, <1>14 DEF SocketsOk
  <2>2. \A x, y \in clients' : x.id = y.id => x = y BY <1>0, <1>9, <1>10 DEF SocketsOk
  <2>3. QED BY <2>1, <2>2 DEF SocketsOk
<1>16. ViewOk(viewer.socket, m.at, clients', upstream.pool, commits, opened.sockets)
  <2>1. \A c \in upstream.pool : After(m.at, c.queue) BY <1>4, <1>7
  <2>2. \A x \in clients' : x.id = viewer.socket => x = t BY <1>0, <1>1, <1>9 DEF SocketsOk
  <2>3. \A x \in clients' : x.id = viewer.socket => After(m.at, x.stream) BY <1>6, <1>10, <2>2
  <2>4. QED BY <1>0, <1>11, <2>1, <2>3 DEF ViewOk
<1>17. FeedTyped' BY <1>0, <1>2, <1>12, <1>13 DEF FeedTyped
<1>18. QED BY <1>0, <1>2, <1>12, <1>15, <1>16, <1>17 DEF FeedInv

\* What the route answers shows a game once.
LEMMA NewestListed == ASSUME FeedInv PROVE newest \in SUBSET Listing
<1> DEFINE rows == {s \in Slots : games[s] > 0}
           n == IF Cardinality(rows) < API_LIMIT THEN Cardinality(rows) ELSE API_LIMIT
           latest(sorted) == [i \in 1..n |-> [slot |-> sorted[i], at |-> games[sorted[i]]]]
<1>0. games \in [Slots -> Nat] /\ IsFiniteSet(rows) BY DEF FeedInv, FeedTyped
<1>1. newest = {latest(sorted) : sorted \in descending(rows)} BY DEF newest
<1>2. rows \subseteq Slots OBVIOUS
<1> HIDE DEF rows
<1>3. Cardinality(rows) \in Nat BY <1>0, FS_CardinalityType
<1>4. n \in Nat /\ \A i \in 1..n : i \in 1..Cardinality(rows) BY <1>3, LimitsAssumption
<1> HIDE DEF n
<1>5. SUFFICES ASSUME NEW sorted \in descending(rows) PROVE latest(sorted) \in Listing BY <1>1
<1>6. sorted \in [1..Cardinality(rows) -> rows] /\ \A i, j \in DOMAIN sorted : i < j => sorted[i] > sorted[j]
  BY DEF descending
<1>7. \A i \in 1..n : sorted[i] \in Slots /\ sorted[i] \in Nat BY <1>2, <1>4, <1>6, SlotsAssumption
<1>8. \A i \in 1..n : games[sorted[i]] \in Nat BY <1>0, <1>7
<1>9. latest(sorted) \in [1..n -> Change]
  <2>1. ASSUME NEW i \in 1..n PROVE [slot |-> sorted[i], at |-> games[sorted[i]]] \in Change
    BY <1>7, <1>8 DEF Change
  <2>2. QED BY <2>1
<1>10. DOMAIN latest(sorted) = 1..n /\ \A i \in 1..n : latest(sorted)[i].slot = sorted[i] OBVIOUS
<1> HIDE DEF latest
<1>11. latest(sorted) \in Seq(Change) BY <1>4, <1>9
<1>12. \A i, j \in 1..n : i # j => sorted[i] # sorted[j]
  <2>1. SUFFICES ASSUME NEW i \in 1..n, NEW j \in 1..n, i # j PROVE sorted[i] # sorted[j] OBVIOUS
  <2>2. i \in DOMAIN sorted /\ j \in DOMAIN sorted BY <1>4, <1>6
  <2>3. i < j \/ j < i BY <1>4, <2>1
  <2>4. sorted[i] > sorted[j] \/ sorted[j] > sorted[i] BY <1>6, <2>2, <2>3
  <2>5. QED BY <1>7, <2>4
<1>13. QED BY <1>10, <1>11, <1>12 DEF Listing

LEMMA PollKeeps == ASSUME FeedInv, Poll \/ PollEnds PROVE FeedInv'
<1>0. FeedTyped BY DEF FeedInv
<1>1. UNCHANGED <<games, commits, upstream, clients, opened>> BY DEF Poll, PollEnds
<1>2. viewer' \in [socket: Nat, heard: Nat, list: Listing, poll: SUBSET Listing]
      /\ viewer'.socket = viewer.socket /\ viewer'.heard = viewer.heard
  <2>1. CASE Poll
    <3>1. viewer' = [viewer EXCEPT !.poll = newest] BY <2>1 DEF Poll
    <3>2. newest \in SUBSET Listing BY NewestListed
    <3>3. QED BY <1>0, <3>1, <3>2 DEF FeedTyped
  <2>2. CASE PollEnds
    <3>1. PICK list \in viewer.poll \cup {viewer.list} : viewer' = [viewer EXCEPT !.poll = NoPoll, !.list = list]
      BY <2>2 DEF PollEnds
    <3>2. list \in Listing BY <1>0 DEF FeedTyped
    <3>3. NoPoll \in SUBSET Listing BY DEF NoPoll
    <3>4. QED BY <1>0, <3>1, <3>2, <3>3 DEF FeedTyped
  <2>3. QED BY <2>1, <2>2
<1>3. QED BY <1>0, <1>1, <1>2 DEF FeedInv, FeedTyped

LEMMA FeedInitially == ASSUME FeedInit PROVE FeedInv
<1>1. games = [s \in Slots |-> 0] /\ commits = 0 /\ clients = {}
      /\ upstream = [pool |-> {pg_client(1)}, timers |-> 0, shuttingDown |-> FALSE]
      /\ viewer = [socket |-> NoSocket, heard |-> 0, list |-> <<>>, poll |-> NoPoll]
      /\ opened = [listeners |-> 1, sockets |-> 0]
  BY DEF FeedInit
<1> DEFINE d == pg_client(1)
<1>2. 1 \in Nat /\ 0 \in Nat /\ <<>> \in Seq(Change) OBVIOUS
<1>3. ClientOk(d, 0) /\ d \in PgClient /\ d.queue = <<>> /\ ~d.dead BY <1>2, NewClient
<1> HIDE DEF d
<1>4. PoolOk({d}, 0, 0) BY <1>3 DEF PoolOk
<1>5. SocketsOk({}, {d}, 0, 0) BY DEF SocketsOk
<1>6. ViewOk(0, 0, {}, {d}, 0, 0) BY <1>3, EmptyQueue DEF ViewOk
<1>7. {s \in Slots : games[s] > 0} = {} BY <1>1
<1>8. IsFiniteSet({s \in Slots : games[s] > 0}) BY <1>7, FS_EmptySet
<1>9. games \in [Slots -> Nat] BY <1>1
<1>10. <<>> \in Listing /\ NoPoll \in SUBSET Listing BY <1>2 DEF Listing, NoPoll
<1>11. upstream \in [pool: SUBSET PgClient, timers: Nat, shuttingDown: BOOLEAN] BY <1>1, <1>2, <1>3 DEF d
<1>12. viewer \in [socket: Nat, heard: Nat, list: Listing, poll: SUBSET Listing] BY <1>1, <1>2, <1>10 DEF NoSocket
<1>13. opened \in [listeners: Nat, sockets: Nat] BY <1>1, <1>2
<1>14. FeedTyped BY <1>1, <1>2, <1>8, <1>9, <1>11, <1>12, <1>13 DEF FeedTyped
<1>15. QED BY <1>1, <1>4, <1>5, <1>6, <1>14 DEF FeedInv, NoSocket, d

LEMMA FeedInductive == FeedSpec => []FeedInv
<1>1. FeedInit => FeedInv BY FeedInitially
<1>2. FeedInv /\ [FeedNext]_feedVars => FeedInv'
  <2>1. SUFFICES ASSUME FeedInv, [FeedNext]_feedVars PROVE FeedInv' OBVIOUS
  <2>2. CASE UNCHANGED feedVars BY <2>1, <2>2 DEF feedVars, FeedInv, FeedTyped
  <2>3. QED
    BY <2>1, <2>2, CommitKeeps, ListeningKeeps, BreakKeeps, ReportKeeps, StartUpstreamKeeps, BroadcastKeeps,
       HeartbeatKeeps, PongKeeps, ShutdownKeeps, FeedRestartKeeps, ConnectKeeps, DisconnectKeeps, HearKeeps, PollKeeps
    DEF FeedNext
<1>3. QED BY <1>1, <1>2, PTL DEF FeedSpec

LEMMA FeedInOrder == FeedInv => HeardOnceInOrder
<1>1. SUFFICES ASSUME FeedInv PROVE HeardOnceInOrder OBVIOUS
<1>2. FeedTyped /\ SocketsOk(clients, upstream.pool, commits, opened.sockets)
      /\ ViewOk(viewer.socket, viewer.heard, clients, upstream.pool, commits, opened.sockets)
  BY <1>1 DEF FeedInv
<1>3. ASSUME NEW s \in clients, s.id = viewer.socket
      PROVE  increasing(<<viewer.heard>> \o [i \in DOMAIN s.stream |-> s.stream[i].at])
  <2>1. s.stream \in Seq(Change) /\ Ordered(s.stream) BY <1>2 DEF SocketsOk, SocketOk, Socket
  <2>2. viewer.heard \in Nat /\ After(viewer.heard, s.stream) BY <1>2, <1>3 DEF ViewOk, FeedTyped
  <2>3. QED BY <2>1, <2>2, HeardIncreasing
<1>4. viewer.list \in Listing BY <1>2 DEF FeedTyped
<1>5. QED BY <1>3, <1>4 DEF HeardOnceInOrder, Listing

\* Every notification of the log subscription is posted once within the relay's memory, and
\* a viewer hears of every change once, in the sorted of the commits, through any failures of
\* the relay's connection and of its own (alchemy-logs.ts, reconnect and broadcast in
\* apps/realtime/src/index.ts, useGlobalGames).
THEOREM RelaysOnce == PushSpec /\ FeedSpec => []RelayedOnce
<1>1. ReplaysPostedOnce /\ FeedInv => RelayedOnce BY FeedInOrder DEF RelayedOnce
<1>2. QED BY <1>1, PostedOnce, FeedInductive, PTL

=============================================================================
