------------------------------ MODULE BetPanel ------------------------------
(***************************************************************************)
(* The bet panel of the game page (apps/web/src/components/game/           *)
(* BetControls.tsx) with the store behind it (stores/game-store.ts) and    *)
(* the copy of the program's admission checks it works with                *)
(* (lib/vault-capacity.ts).                                                *)
(*                                                                         *)
(* The panel offers bets from a reading of the vault and of the wallet,    *)
(* polled every few seconds, and sends the start a moment later.  Between  *)
(* the click and the answer the player goes on using the panel: what is    *)
(* locked, and until when, is decided by the board's status and by a lock  *)
(* of its own that a click sets at once.                                   *)
(*                                                                         *)
(* Amounts are lamports.  Rounds are VrfClient's; here they are what the   *)
(* panel can tell of them.                                                 *)
(***************************************************************************)
EXTENDS KaboomMath

CONSTANTS
    VaultStates,        \* what others make of the vault: [assets, outstanding, paused, edge]
    MaxBetBps, MaxPayoutBps, VrfMaxPayoutBps, UnitsPending, UnitsIssued,  \* vault and LP configuration
    RentGap,            \* VAULT_RENT_LAMPORTS_FLOOR above the vault's real rent
    Wallets,            \* what the player's wallet may hold
    START_OVERHEAD,     \* start-cost.ts: rent and gas of a start
    MIN_BET, MINE_OPTIONS, Typed, \* what the player may choose
    DefaultBet, DefaultMines,                \* what the panel opens with
    FineStep, CoarseStep, CoarseFrom         \* snapDownToNiceBet

ASSUME PanelAssumption ==
    /\ VaultStates \subseteq [assets : Nat, outstanding : Nat, paused : BOOLEAN, edge : 0..(BPS - 1)]
    /\ {MaxBetBps, MaxPayoutBps, UnitsPending, UnitsIssued, RentGap} \subseteq Nat
    /\ VrfMaxPayoutBps \in Nat \ {0}
    /\ MINE_OPTIONS \subseteq 1..(GRID_SIZE - 1) /\ DefaultMines \in MINE_OPTIONS
    /\ {MIN_BET, DefaultBet, START_OVERHEAD} \cup Typed \cup Wallets \subseteq Nat
    /\ {FineStep, CoarseStep} \subseteq Nat \ {0}

VARIABLES
    vault, wallet,      \* on chain
    reading, balance,   \* the panel's polls; NoReading before the first
    panel,              \* the store: status, bet, mines, safe, pendingClose; and `lock`, lockStartedAtRef
    start,              \* the start under way: stage, and what the click closed over
    round               \* the player's round on chain

panelVars == <<vault, wallet, reading, balance, panel, start, round>>
readings == <<reading, balance>>
world == <<vault, wallet>>

NoReading == [assets |-> 0, outstanding |-> 0, paused |-> FALSE, edge |-> 0]
no_start == [stage |-> "none", from |-> "idle", bet |-> 0, mines |-> 0]
no_round == [live |-> FALSE, over |-> FALSE, bet |-> 0, mines |-> 0, safe |-> 0]

new_panel == [status |-> "idle", bet |-> DefaultBet, mines |-> DefaultMines, safe |-> 0,
              pendingClose |-> FALSE, lock |-> FALSE]

PanelInit ==
    /\ vault \in VaultStates /\ wallet \in Wallets
    /\ reading = NoReading /\ balance = 0
    /\ panel = new_panel /\ start = no_start /\ round = no_round

-----------------------------------------------------------------------------
(* The capacity of a vault: start_game_vrf's checks, and computeCapacity *)

\* Reserved for live rounds, and owed to LPs who leave.
obligations(v, free_of_rent) == v.outstanding + units_to_assets(UnitsPending, free_of_rent, UnitsIssued)

health(v, free_of_rent) == calc_health_bps(free_of_rent, v.outstanding, UnitsPending, UnitsIssued)

\* The program's payout cap of a VRF round.
vrf_payout_bps == min2(MaxPayoutBps, VrfMaxPayoutBps)

cap_of(v, bps, free_of_rent) == mul_div_floor(free_of_rent, (bps * health(v, free_of_rent)) \div BPS, BPS)

\* start_game_vrf, but for the health the vault must keep after the start.
start_admitted(v, bet, mines) ==
    /\ ~v.paused /\ bet >= MIN_BET
    /\ bet <= cap_of(v, MaxBetBps, v.assets)
    /\ worst_case_payout(bet, mines, v.edge) <= cap_of(v, vrf_payout_bps, v.assets)

available(v) == saturating_sub(v.assets, RentGap)

\* Mutant: the cap of the commit-reveal games.
payout_cap_bps_legacy == MaxPayoutBps

payout_cap_bps == IF VrfMaxPayoutBps > 0 THEN vrf_payout_bps ELSE MaxPayoutBps

\* Why nothing can be bet, whatever the amount.
refusal(v) == IF v.paused THEN "paused"
              ELSE IF available(v) = 0 THEN "vault_empty"
              ELSE IF health(v, available(v)) = 0 THEN "obligations_full"
              ELSE "ok"

maxBet(v, mines) ==
    IF refusal(v) # "ok" THEN 0
    ELSE min2(cap_of(v, MaxBetBps, available(v)),
              (cap_of(v, payout_cap_bps, available(v)) * BPS)
                  \div calc_multiplier(GRID_SIZE - mines, mines, v.edge))

-----------------------------------------------------------------------------
(* The panel *)

isLocked(p) == p.status \in {"starting", "cashing"} \/ p.pendingClose
inLiveRound(p) == p.status \in {"playing", "starting", "cashing", "revealing"}

affordable == saturating_sub(balance, START_OVERHEAD)

\* A cap of nothing is a vault that has not loaded.
uncovered(v, n) == maxBet(v, n) > 0 /\ maxBet(v, n) < MIN_BET

coverableMineCount(v, n) ==
    LET covered == {m \in MINE_OPTIONS : maxBet(v, m) >= MIN_BET}
    IN  IF uncovered(v, n) /\ covered # {} THEN CHOOSE m \in covered : \A o \in covered : m <= o ELSE n

\* What the effects make of a new state of the panel: an idle selection is held on
\* a count the vault covers, and the click's lock follows the board's.
settled(p, v) ==
    [p EXCEPT !.mines = IF p.status = "idle" THEN coverableMineCount(v, @) ELSE @,
              !.lock = IF isLocked(p) # isLocked(panel) THEN isLocked(p) ELSE @]

shows(p) == panel' = settled(p, reading)

poll_vault ==
    /\ reading' = vault
    /\ panel' = settled(panel, vault)
    /\ UNCHANGED <<world, balance, start, round>>

poll_wallet == balance' = wallet /\ UNCHANGED <<world, reading, panel, start, round>>

world_moves ==
    /\ vault' \in VaultStates /\ wallet' \in Wallets
    /\ UNCHANGED <<readings, panel, start, round>>

may_edit == panel.status \notin {"playing", "starting"}

edits(bet, mines) ==
    /\ may_edit
    /\ shows([panel EXCEPT !.bet = bet, !.mines = mines])
    /\ UNCHANGED <<world, readings, start, round>>

snapDownToNiceBet(b) == LET step == IF b < CoarseFrom THEN FineStep ELSE CoarseStep IN b - (b % step)

max2(a, b) == IF a >= b THEN a ELSE b

set_bet == \E b \in Typed : edits(b, panel.mines)
half == edits(max2(MIN_BET, panel.bet \div 2), panel.mines)
twice ==
    LET most == maxBet(reading, panel.mines)
    IN  edits(IF panel.bet * 2 <= most THEN panel.bet * 2 ELSE max2(MIN_BET, snapDownToNiceBet(most)), panel.mines)
max_bet ==
    LET ceiling == min2(maxBet(reading, panel.mines), affordable)
    IN  ceiling >= MIN_BET /\ edits(max2(MIN_BET, snapDownToNiceBet(ceiling)), panel.mines)
choose_mines ==
    \E n \in MINE_OPTIONS : (inLiveRound(panel) \/ ~uncovered(reading, n)) /\ edits(panel.bet, n)

-----------------------------------------------------------------------------
(* Engage *)

offered ==
    /\ panel.status \in {"idle", "won", "lost"} /\ ~isLocked(panel)
    /\ refusal(reading) = "ok" /\ panel.bet <= maxBet(reading, panel.mines)

\* handleStart lets the click through.
let_through ==
    /\ offered /\ ~panel.lock
    /\ panel.bet + START_OVERHEAD <= balance
    /\ panel.bet >= MIN_BET

click_engage ==
    /\ let_through /\ start.stage = "none"
    /\ panel' = [panel EXCEPT !.lock = TRUE]
    /\ start' = [stage |-> "preflight", from |-> panel.status, bet |-> panel.bet, mines |-> panel.mines]
    /\ UNCHANGED <<world, readings, round>>

\* Mutant: only the board's status releases the lock.
released_by_status(p) == p

\* startGame(...).finally: by the status the click closed over.
released(p) == [p EXCEPT !.lock = IF start.from = "idle" THEN FALSE ELSE @]

start_ends == start' = [no_start EXCEPT !.from = start.from]

start_preflight ==
    /\ start.stage = "preflight"
    /\ IF round.live
       THEN shows(released([panel EXCEPT !.status = "idle"])) /\ start_ends
       ELSE shows([panel EXCEPT !.status = "starting"]) /\ start' = [start EXCEPT !.stage = "sent"]
    /\ UNCHANGED <<world, readings, round>>

\* The transaction lands whole or not at all.
start_lands ==
    /\ start.stage = "sent"
    /\ start_admitted(vault, start.bet, start.mines) /\ start.bet + START_OVERHEAD <= wallet
    /\ round' = [no_round EXCEPT !.live = TRUE, !.bet = start.bet, !.mines = start.mines]
    /\ shows(released([panel EXCEPT !.status = "playing", !.safe = 0])) /\ start_ends
    /\ UNCHANGED <<world, readings>>

start_fails ==
    /\ start.stage = "sent"
    /\ shows(released([panel EXCEPT !.status = "idle"])) /\ start_ends
    /\ UNCHANGED <<world, readings, round>>

\* The clock on the button gives up; the button stays disabled.
lock_ceiling ==
    /\ isLocked(panel)
    /\ panel' = [panel EXCEPT !.lock = FALSE]
    /\ UNCHANGED <<world, readings, start, round>>

-----------------------------------------------------------------------------
(* The round on the board *)

turns(p, r) == shows(p) /\ round' = r /\ UNCHANGED <<world, readings, start>>

reveal == panel.status = "playing" /\ turns([panel EXCEPT !.status = "revealing"], round)

\* applySafeReveal counts by the mine count of the store.
safe_reveal ==
    LET safe == round.safe + 1
        won  == safe = GRID_SIZE - round.mines
        full == panel.safe + 1 >= GRID_SIZE - panel.mines
    IN  /\ panel.status = "revealing" /\ ~round.over
        /\ turns([panel EXCEPT !.safe = @ + 1, !.status = IF full THEN "won" ELSE "playing", !.pendingClose = won],
                 [round EXCEPT !.safe = safe, !.over = won])

mine_reveal ==
    /\ panel.status = "revealing" /\ ~round.over
    /\ turns([panel EXCEPT !.status = "lost", !.pendingClose = TRUE], [round EXCEPT !.over = TRUE])

draw_fails == panel.status = "revealing" /\ turns([panel EXCEPT !.status = "playing"], round)

cashes_out ==
    /\ panel.status = "playing" /\ panel.safe > 0 /\ ~round.over
    /\ turns([panel EXCEPT !.status = "cashing", !.pendingClose = TRUE], [round EXCEPT !.over = TRUE])

\* settleFlow: it always clears pendingClose; a settle that failed changes nothing else.
settle_flow ==
    /\ panel.pendingClose
    /\ \/ turns([panel EXCEPT !.pendingClose = FALSE, !.status = IF @ = "cashing" THEN "won" ELSE @], no_round)
       \/ turns([panel EXCEPT !.pendingClose = FALSE], round)

cron_settles == round.over /\ ~panel.pendingClose /\ turns(panel, no_round)

\* Play Again: the bet, the mine count and pendingClose outlive the reset.
play_again == panel.status \in {"won", "lost"} /\ turns([panel EXCEPT !.status = "idle", !.safe = 0], round)

\* A page that is opened again shows the round it finds.
reload ==
    /\ reading' = NoReading /\ balance' = 0 /\ start' = no_start
    /\ panel' = IF round.live /\ ~round.over
                THEN [new_panel EXCEPT !.status = "playing", !.bet = round.bet, !.mines = round.mines,
                                       !.safe = round.safe]
                ELSE new_panel
    /\ UNCHANGED <<world, round>>

PanelNext ==
    \/ poll_vault \/ poll_wallet \/ world_moves
    \/ set_bet \/ half \/ twice \/ max_bet \/ choose_mines
    \/ click_engage \/ start_preflight \/ start_lands \/ start_fails \/ lock_ceiling
    \/ reveal \/ safe_reveal \/ mine_reveal \/ draw_fails \/ cashes_out \/ settle_flow
    \/ cron_settles \/ play_again \/ reload

PanelSpec == PanelInit /\ [][PanelNext]_panelVars

-----------------------------------------------------------------------------
(* Properties *)

\* What is owed is rounded down: it is no larger a share of the vault than of the smaller
\* amount the panel counts with, but for such a rounding.
rounds_alike(v) == obligations(v, v.assets) * available(v) <= obligations(v, available(v)) * v.assets

\* BetControls.tsx:414, "MAX must never produce a bet the program will reject": a
\* bet Engage lets through is one start_game_vrf admits, as far as the readings are
\* those of the moment and what LPs are owed is rounded alike.  The program also keeps
\* a share of the vault free after the start, which the panel does not look at.
EngageIsAdmitted ==
    (let_through /\ reading = vault /\ balance = wallet /\ rounds_alike(vault)) =>
        /\ start_admitted(vault, panel.bet, panel.mines)
        /\ panel.bet + START_OVERHEAD <= wallet

\* A click on Engage is not swallowed: the lock a click sets is released once its
\* start is through, unless it was pressed over the board of an ended round.
EngageHeard ==
    (panel.lock /\ start.stage = "none" /\ ~isLocked(panel)) => start.from \in {"won", "lost"}

\* BetControls.tsx:130, "Mid-round: bet panel is read-only": the bet and the mine
\* count on the board of a live round do not change.
PanelReadOnly ==
    [][(inLiveRound(panel) /\ round.live)
           => (panel'.bet = panel.bet /\ panel'.mines = panel.mines) \/ reload]_panelVars

=============================================================================
