---------------------------- MODULE LegacyCrank -----------------------------
(***************************************************************************)
(* The server's part in the wind-down of the legacy games, composed with   *)
(* the sessions on chain (LegacyGame): the cron's legacy pass              *)
(* (apps/web/src/server/cron/legacy-passes.ts), the stored sessions it     *)
(* needs to settle (session-store.ts), and the two recoveries a returning  *)
(* player has: POST /api/cleanup, and the banner of the game page          *)
(* (use-game-resume.ts, GameRecoveryBanner.tsx) over GET /api/session.     *)
(*                                                                         *)
(* A pass scans the sessions once, expires what is past its expiry, and    *)
(* settles what was decided at the scan, each with a limited number of     *)
(* transactions.  To settle it needs the stored row of that very game: the *)
(* layout is in no other place.                                            *)
(***************************************************************************)
EXTENDS LegacyGame, Sequences, FiniteSetsExt

CONSTANTS
    MAX_TX,          \* transactions of a kind in one pass
    EXPIRE_PER_TX,   \* refunds in one transaction
    Returning        \* players who come back

VARIABLES
    row,             \* game_sessions: "this" game's row, one of an "other" game, or "none"
    phase,           \* of the pass: "idle", "expire", "cash" or "release"
    queue,           \* what the phase has still to do: batches, or players
    scanned,         \* the pass's scan: status of each session, and its branch
    txs,             \* transactions of the phase so far
    offer,           \* the instruction a returning player was given by /api/cleanup
    banner           \* what the banner of a player shows, with its countdown, if it is used

crankVars == <<row, phase, queue, scanned, txs, offer, banner>>
passVars == <<phase, queue, scanned, txs>>
recoveryVars == <<offer, banner>>

\* The banner before its first answer, and of a player who does not look at it.
EMPTY_INFO == [status |-> "none", settled |-> FALSE, flipped |-> FALSE, left |-> 0]
elsewhere == [EMPTY_INFO EXCEPT !.status = "unused"]

CrankInit ==
    /\ Init
    /\ row \in [Players -> {"this", "other", "none"}]
    /\ \A p \in Players : row[p] = "this" => game[p].known
    /\ phase = "idle" /\ queue = <<>> /\ txs = 0
    /\ scanned = [p \in Players |-> "none"]
    /\ offer = [p \in Players |-> "none"]
    /\ banner \in [Players -> {EMPTY_INFO, elsewhere}]
    /\ \A p \in Players \ Returning : banner[p] = elsewhere

-----------------------------------------------------------------------------
(* runLegacyPasses *)

\* What the scan makes of a session: expired with the bet to refund, expired
\* with winnings to pay, or decided and waiting for its settlement.
class(g) ==
    CASE g.status = "PLAYING" /\ expired(g)            -> IF refunds(g) THEN "refund" ELSE "cash"
      [] g.status \in {"WON", "LOST"} /\ ~g.settled    -> "decided"
      [] OTHER                                         -> "none"

\* The sessions of a class, in the order of the scan.
of_class(c, seen) == SelectSeq([p \in Players |-> p], LAMBDA p : seen[p] = c)

\* A transaction refunds up to EXPIRE_PER_TX sessions.
batches(s) == [i \in 1..((Len(s) + EXPIRE_PER_TX - 1) \div EXPIRE_PER_TX) |->
                  {s[j] : j \in {k \in DOMAIN s : (k - 1) \div EXPIRE_PER_TX = i - 1}}]

scanGameSessions ==
    LET seen == [p \in Players |-> class(game[p])]
    IN  /\ phase = "idle"
        /\ scanned' = seen
        /\ phase' = "expire"
        /\ queue' = batches(of_class("refund", seen))
        /\ txs' = 0
        /\ UNCHANGED <<row, recoveryVars, vars>>

\* Refund batches and cash-outs share one allowance; the settlements have one
\* of their own.
spent_so_far(next) == IF next = "release" THEN 0 ELSE txs

next_phase ==
    LET next == CASE phase = "expire" -> "cash" [] phase = "cash" -> "release" [] OTHER -> "idle"
    IN  /\ phase # "idle"
        /\ queue = <<>> \/ txs >= MAX_TX
        /\ phase' = next
        /\ queue' = CASE next = "cash"    -> of_class("cash", scanned)
                      [] next = "release" -> of_class("decided", scanned)
                      [] OTHER            -> <<>>
        /\ scanned' = IF next = "idle" THEN [p \in Players |-> "none"] ELSE scanned
        /\ txs' = IF next = "idle" THEN 0 ELSE spent_so_far(next)
        /\ UNCHANGED <<row, recoveryVars, vars>>

at_head(ph) == phase = ph /\ queue # <<>> /\ txs < MAX_TX

\* The head is dealt with; it counts whether or not its transaction landed.
take_head == queue' = Tail(queue) /\ txs' = txs + 1 /\ UNCHANGED <<phase, scanned, recoveryVars>>

\* A batch of expire_game: all of its sessions are refunded or none is.
expire_batch ==
    LET batch == Head(queue)
        owed  == FoldSet(LAMBDA p, sum : game[p].bet + sum, 0, batch)
        held  == FoldSet(LAMBDA p, sum : game[p].max_payout + sum, 0, batch)
    IN  /\ at_head("expire")
        /\ \A p \in batch : game[p].status = "PLAYING" /\ expired(game[p]) /\ refunds(game[p])
        /\ owed <= assets
        /\ assets' = assets - owed
        /\ outstanding' = saturating_sub(outstanding, held)
        /\ received' = [p \in Players |-> IF p \in batch THEN Append(received[p], game[p].bet) ELSE received[p]]
        /\ game' = [p \in Players |-> IF p \in batch THEN [game[p] EXCEPT !.status = "EXPIRED"] ELSE game[p]]
        /\ take_head
        /\ UNCHANGED <<house_edge, row>>

\* sessionFor: the row is this game's, as its commitment shows.
session_for(p) == row[p] = "this"

\* deleteSessionAfter: the row goes when the settlement is seen to confirm.
forget_session(p) == row' \in {row, [row EXCEPT ![p] = "none"]}

\* expire_game and settle_game in one transaction: paid, fees taken, released.
expire_and_settle(p) ==
    LET g    == game[p]
        left == assets - winnings(g)
        ref  == min2(mul_div_floor(g.bet, ReferralCut, BPS), left)
        held == left - ref
    IN  /\ at_head("cash") /\ Head(queue) = p
        /\ session_for(p)
        /\ g.status = "PLAYING" /\ expired(g) /\ ~refunds(g)
        /\ winnings(g) <= assets /\ proves(g)
        /\ received' = [received EXCEPT ![p] = Append(@, winnings(g))]
        /\ game' = [game EXCEPT ![p].status = "WON", ![p].settled = TRUE]
        /\ release_outstanding(p)
        /\ assets' = held - treasury_fee(g.bet, house_edge, TreasurySplitBps, held,
                                         outstanding', PendingUnits, TotalUnits)
        /\ forget_session(p)
        /\ take_head
        /\ UNCHANGED house_edge

\* Without a stored session the player is paid and the reservation stays.
expire_alone(p) ==
    /\ at_head("cash") /\ Head(queue) = p
    /\ ~session_for(p)
    /\ expire_game(p)
    /\ take_head
    /\ UNCHANGED row

settle_stuck(p) ==
    /\ at_head("release") /\ Head(queue) = p
    /\ session_for(p)
    /\ settle_game(p, TRUE)
    /\ forget_session(p)
    /\ take_head

\* Mutant: the row is deleted with the send, confirmed or not.
after_failure_forgets == row' = [p \in Players |-> IF phase = "release" /\ Head(queue) = p THEN "none" ELSE row[p]]

after_failure == UNCHANGED row

\* No session to settle with, a refused or a dropped transaction, an RPC error.
send_fails ==
    /\ phase # "idle" /\ queue # <<>> /\ txs < MAX_TX
    /\ after_failure
    /\ take_head
    /\ UNCHANGED vars

-----------------------------------------------------------------------------
(* POST /api/cleanup, and the player who follows it *)

\* Mutant: a decided game is offered close_game at once.
offered_early(g) == IF g.status = "PLAYING" THEN "refund_expired" ELSE "close_game"

\* The instruction the route builds for a session, "wait" before its time.
offered(g) ==
    CASE g.status = "EXPIRED" \/ g.settled -> "close_game"
      [] g.status \in {"WON", "LOST"}      -> IF g.age >= CLOSE_UNSETTLED_EXPIRY_SLOTS
                                              THEN "close_unsettled_game" ELSE "wait"
      [] OTHER                             -> IF g.age >= GAME_EXPIRY_SLOTS
                                              THEN "refund_expired" ELSE "wait"

\* For a closed game the route forgets the row; for a decided one with a
\* stored session it settles first and offers by what it reads after that.
cleanup(p) ==
    /\ p \in Returning /\ banner[p] = elsewhere
    /\ offer[p] \in {"none", "wait"}
    /\ IF game[p].status = "CLOSED"
       THEN row' = [row EXCEPT ![p] = "none"] /\ row[p] # "none" /\ UNCHANGED <<offer, vars>>
       ELSE /\ \/ row[p] = "this" /\ settle_game(p, TRUE)
               \/ UNCHANGED vars
            /\ offer' = [offer EXCEPT ![p] = offered(game'[p])]
            /\ offer' # offer
            /\ UNCHANGED row
    /\ UNCHANGED <<passVars, banner>>

\* The player signs what was offered; if the chain refuses it, they ask again.
follow_offer(p) ==
    /\ offer[p] \notin {"none", "wait"}
    /\ offer' = [offer EXCEPT ![p] = "none"]
    /\ \/ offer[p] = "close_game" /\ close_game(p)
       \/ offer[p] = "close_unsettled_game" /\ close_unsettled_game(p)
       \/ offer[p] = "refund_expired" /\ refund_expired(p)
    /\ UNCHANGED <<row, passVars, banner>>

offer_refused(p) ==
    /\ offer[p] \notin {"none", "wait"}
    /\ offer' = [offer EXCEPT ![p] = "none"]
    /\ UNCHANGED <<row, passVars, banner, vars>>

-----------------------------------------------------------------------------
(* The recovery banner *)

looks(p) == p \in Returning /\ banner[p] # elsewhere

\* Slots until the instruction for a session's status is due, as the route counts them.
slotsUntilRefund(g) ==
    LET due == CASE g.status = "PLAYING" -> GAME_EXPIRY_SLOTS
                 [] g.status = "EXPIRED" -> 0
                 [] OTHER                -> CLOSE_UNSETTLED_EXPIRY_SLOTS
    IN  saturating_sub(due, g.age)

\* useGameResume asks every 15 s, when the page comes back and when a game ends.
probe(p) ==
    /\ looks(p)
    /\ banner' = [banner EXCEPT ![p] =
            IF game[p].status = "CLOSED" THEN EMPTY_INFO
            ELSE [status |-> game[p].status, settled |-> game[p].settled,
                  flipped |-> game[p].safe # {}, left |-> slotsUntilRefund(game[p])]]
    /\ banner' # banner
    /\ UNCHANGED <<row, passVars, offer, vars>>

\* Between two answers the banner counts down by its own clock and a measured slot time.
countdown(p) ==
    /\ looks(p) /\ banner[p].left > 0
    /\ banner' = [banner EXCEPT ![p].left = @ - 1]
    /\ UNCHANGED <<row, passVars, offer, vars>>

\* The banner's one button, by what the last answer said.
Action(info) ==
    CASE info.status = "PLAYING"           -> IF info.flipped THEN "cash_out" ELSE "refund_expired"
      [] info.status = "EXPIRED"           -> "close_game"
      [] info.status \in {"WON", "LOST"}   -> IF info.settled THEN "close_game" ELSE "close_unsettled_game"
      [] OTHER                             -> "none"

isReady(info) == Action(info) \in {"cash_out", "close_game"} \/ (Action(info) # "none" /\ info.left = 0)

\* submit: the banner asks again once its transaction is confirmed.
submit(p) ==
    /\ looks(p) /\ isReady(banner[p])
    /\ \/ Action(banner[p]) = "cash_out" /\ cash_out(p)
       \/ Action(banner[p]) = "refund_expired" /\ refund_expired(p)
       \/ Action(banner[p]) = "close_game" /\ close_game(p)
       \/ Action(banner[p]) = "close_unsettled_game" /\ close_unsettled_game(p)
    /\ banner' = [banner EXCEPT ![p] = EMPTY_INFO]
    /\ UNCHANGED <<row, passVars, offer>>

-----------------------------------------------------------------------------

PassStep == scanGameSessions \/ next_phase \/ send_fails

PassSends(p) == expire_and_settle(p) \/ expire_alone(p) \/ settle_stuck(p)

OnChain == (tick \/ \E p \in Players : cash_out(p) \/ HonestReveal(p)) /\ UNCHANGED crankVars

CrankNext ==
    \/ OnChain \/ PassStep \/ expire_batch
    \/ \E p \in Players : PassSends(p) \/ cleanup(p) \/ follow_offer(p) \/ offer_refused(p)
                           \/ probe(p) \/ countdown(p) \/ submit(p)

(* Fairness: the cron keeps ticking, and a transaction that is sent again    *)
(* and again lands.  A returning player keeps asking and signing, and the    *)
(* banner keeps polling.                                                     *)
CrankFairness ==
    /\ WF_<<vars, crankVars>>(OnChain /\ tick)
    /\ WF_<<vars, crankVars>>(PassStep)
    /\ SF_<<vars, crankVars>>(expire_batch)
    /\ \A p \in Players : SF_<<vars, crankVars>>(PassSends(p))
    /\ \A p \in Returning : /\ WF_<<vars, crankVars>>(cleanup(p) \/ follow_offer(p) \/ offer_refused(p))
                           /\ SF_<<vars, crankVars>>(follow_offer(p))
                           /\ WF_<<vars, crankVars>>(probe(p))
                           /\ WF_<<vars, crankVars>>(countdown(p))
                           /\ SF_<<vars, crankVars>>(submit(p))

FairCrankSpec == CrankInit /\ [][CrankNext]_<<vars, crankVars>> /\ CrankFairness

-----------------------------------------------------------------------------
(* Properties *)

\* "A stray legacy game can never freeze the vault": the reservation of a game
\* whose row the server holds, or that nobody can play on, is released, though
\* sends fail, rows are deleted and the player walks away.
CrankReleases ==
    \A p \in Players :
        (row[p] = "this" \/ (game[p].status = "PLAYING" /\ ~game[p].known))
            ~> (reserved(game[p]) = 0)

\* A player who comes back and follows what the cleanup route offers, or presses
\* the banner's button whenever it is ready, gets the account closed, with or
\* without a stored session, whatever the cron does to the game meanwhile.
ReturningGetsOut == \A p \in Returning : <>[](game[p].status = "CLOSED")

=============================================================================
