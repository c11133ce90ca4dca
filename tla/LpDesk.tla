------------------------------- MODULE LpDesk -------------------------------
(***************************************************************************)
(* The LP panel of a browser (components/vault/lp-panel.tsx,               *)
(* hooks/use-vault-lp.ts), the routes it asks for instructions             *)
(* (app/api/vault), the numbers they work with (server/vault-math.ts) and  *)
(* the confirmation of a transaction by polling (lib/confirm.ts).          *)
(*                                                                         *)
(* The panel offers what its last readings of the vault, the position and  *)
(* the slot allow.  Each is polled on its own and may be of any age, so    *)
(* here anything a user may enter can be ordered.  The route looks again   *)
(* at a deposit; the program decides when the transaction lands, which it  *)
(* can as long as the block height is at most lastValidBlockHeight.  The   *)
(* panel learns what became of it from polls that fail or come late, and   *)
(* takes no second order before it has a verdict.                          *)
(*                                                                         *)
(* The program's side of a deposit and a withdrawal is VaultLp's, for one  *)
(* user; the others only move the vault.                                   *)
(***************************************************************************)
EXTENDS KaboomMath

CONSTANTS
    Pools,                          \* what others make of the vault
    HeldUnits,                      \* the user's units found
    SeedUnits, HousePending,        \* units that are nobody's deposit
    MinHouseShareBps, MaxUserPositionBps, MinLpDeposit,   \* v2 configuration
    WITHDRAW_COOLDOWN_SLOTS, WITHDRAW_CLAIM_WINDOW_SLOTS,
    POSITION_CAP_DISABLED_SENTINEL, \* the cap shown when there is none
    Amounts, Units,                 \* deposits and withdrawals a user may enter
    Validity,                       \* blocks a blockhash lives
    MaxHeight, MaxSkipped, MaxOrders  \* bounds: blocks, skipped slots, orders

ASSUME DeskAssumption ==
    /\ Pools \subseteq [assets : Nat, total : Nat, house : Nat, outstanding : Nat, pending : Nat]
    /\ {HeldUnits, SeedUnits, HousePending, MinLpDeposit, POSITION_CAP_DISABLED_SENTINEL} \subseteq Nat
    /\ {WITHDRAW_COOLDOWN_SLOTS, WITHDRAW_CLAIM_WINDOW_SLOTS, Validity} \cup Amounts \cup Units \subseteq Nat
    /\ {MinHouseShareBps, MaxUserPositionBps} \subseteq 0..BPS

VARIABLES
    pool,       \* vault and v2 state on chain: assets, total, house, outstanding, pending units
    pos,        \* the user's position: units, pending, unlock
    height,     \* confirmed block height
    skipped,    \* slots without a block so far
    txs,        \* the transactions sent: kind, arg, last (valid height) and what became of each
    desk,       \* the panel: "idle", or the step of signAndSend and confirmByPolling it is at
    told        \* what it told the user last

deskVars == <<pool, pos, height, skipped, txs, desk, told>>
slotVars == <<height, skipped>>

slot_now == height + skipped

with_position(p, q) == [p EXCEPT !.total = @ + q.units + q.pending, !.pending = @ + q.pending]

DeskInit ==
    /\ pos = [units |-> HeldUnits, pending |-> 0, unlock |-> 0]
    /\ pool \in {with_position(p, pos) : p \in Pools}
    /\ height = 0 /\ skipped = 0
    /\ txs = <<>> /\ desk = "idle" /\ told = "none"

-----------------------------------------------------------------------------
(* The program *)

health_of(p) == calc_health_bps(p.assets, p.outstanding, p.pending, p.total)
user_units(p) == p.total - SeedUnits - p.house - HousePending

deposited(p, amount, minted) == [p EXCEPT !.assets = @ + amount, !.total = @ + minted]

\* lp_deposit's limits, but for the pause and the health floor.
deposit_passes(p, q, amount) ==
    LET minted == deposit_to_units(amount, p.assets, p.total)
        after  == deposited(p, amount, minted)
        value  == units_to_assets(q.units + minted + q.pending, after.assets, after.total)
    IN  /\ amount >= MinLpDeposit /\ (p.total > 0 => p.assets > 0) /\ minted > 0
        /\ enforce_house_floor(p.house, user_units(after), MinHouseShareBps)
        /\ enforce_user_position_cap(value, after.assets, health_of(after), MaxUserPositionBps)

request_passes(q, units) == q.pending = 0 /\ units > 0 /\ units <= q.units
complete_passes(q, now) == q.pending > 0 /\ now >= q.unlock /\ now <= q.unlock + WITHDRAW_CLAIM_WINDOW_SLOTS

passes(kind, arg) ==
    CASE kind = "deposit"  -> deposit_passes(pool, pos, arg)
      [] kind = "request"  -> request_passes(pos, arg)
      [] kind = "cancel"   -> pos.pending > 0
      [] kind = "complete" -> complete_passes(pos, slot_now)
      [] kind = "restart"  -> pos.pending > 0 /\ arg <= pos.units + pos.pending

requested(units, held) ==
    /\ pos' = [units |-> held - units, pending |-> units, unlock |-> slot_now + WITHDRAW_COOLDOWN_SLOTS]
    /\ pool' = [pool EXCEPT !.pending = @ - pos.pending + units]

completed ==
    /\ pos' = [pos EXCEPT !.pending = 0, !.unlock = 0]
    /\ pool' = [pool EXCEPT !.assets = @ - units_to_assets(pos.pending, @, pool.total),
                            !.total = @ - pos.pending, !.pending = @ - pos.pending]

applies(kind, arg) ==
    \/ /\ kind = "deposit"
       /\ LET minted == deposit_to_units(arg, pool.assets, pool.total)
          IN  pos' = [pos EXCEPT !.units = @ + minted] /\ pool' = deposited(pool, arg, minted)
    \/ kind = "request" /\ requested(arg, pos.units)
    \/ kind = "cancel" /\ pos' = [units |-> pos.units + pos.pending, pending |-> 0, unlock |-> 0]
                       /\ pool' = [pool EXCEPT !.pending = @ - pos.pending]
    \/ kind = "complete" /\ completed
    \/ kind = "restart" /\ requested(arg, pos.units + pos.pending)

becomes(k, state) == [txs[k] EXCEPT !.state = state]

next_block ==
    /\ height < MaxHeight /\ height' = height + 1
    /\ txs' = [k \in DOMAIN txs |-> becomes(k, IF txs[k].state = "processed" THEN "confirmed" ELSE txs[k].state)]
    /\ UNCHANGED <<pool, pos, skipped, desk, told>>

skip_slot ==
    /\ skipped < MaxSkipped /\ skipped' = skipped + 1
    /\ UNCHANGED <<pool, pos, height, txs, desk, told>>

\* It lands in the block under way, and succeeds or fails there.
tx_lands ==
    \E k \in DOMAIN txs :
        /\ txs[k].state = "sent" /\ height < txs[k].last
        /\ IF passes(txs[k].kind, txs[k].arg)
           THEN applies(txs[k].kind, txs[k].arg) /\ txs' = [txs EXCEPT ![k] = becomes(k, "processed")]
           ELSE txs' = [txs EXCEPT ![k] = becomes(k, "failed")] /\ UNCHANGED <<pool, pos>>
        /\ UNCHANGED <<slotVars, desk, told>>

\* Games, other users and the house move the vault; this user's units stay.
others_move ==
    /\ \E p \in Pools : pool' = with_position(p, pos)
    /\ UNCHANGED <<pos, slotVars, txs, desk, told>>

\* The cron completes a matured withdrawal (LpPass).
crank_completes ==
    /\ complete_passes(pos, slot_now) /\ completed
    /\ UNCHANGED <<slotVars, txs, desk, told>>

-----------------------------------------------------------------------------
(* The readings and what they allow *)

position_cap(p) ==
    IF MaxUserPositionBps = 0 THEN POSITION_CAP_DISABLED_SENTINEL
    ELSE mul_div_floor(mul_div_floor(p.assets, MaxUserPositionBps, BPS), health_of(p), BPS)

\* Most units one deposit may mint before the house's share falls below its floor.
house_room(p) == (p.house * (BPS - MinHouseShareBps)) \div MinHouseShareBps - user_units(p)

\* Mutant: the amount that mints one unit too many.
amount_for_next(p, room) == ((room + 1) * p.assets) \div p.total

\* floor(a * T / A) <= room  <=>  a <= ((room + 1) * A - 1) / T
amount_for(p, room) == ((room + 1) * p.assets - 1) \div p.total

maxDepositLamports(p) ==
    LET room     == house_room(p)
        by_floor == IF room <= 0 THEN 0 ELSE IF p.total = 0 THEN room ELSE amount_for(p, room)
        most     == IF MinHouseShareBps > 0 THEN min2(position_cap(p), by_floor) ELSE position_cap(p)
    IN  IF most < MinLpDeposit THEN 0 ELSE most

\* The deposit route: what the user holds and adds, at the present value of a unit.
route_accepts(amount) ==
    /\ amount >= MinLpDeposit
    /\ units_to_assets(pos.units + pos.pending, pool.assets, pool.total) + amount <= position_cap(pool)

matured(q, now) == q.pending > 0 /\ now >= q.unlock
withdrawExpired(q, now) == q.pending > 0 /\ now > q.unlock + WITHDRAW_CLAIM_WINDOW_SLOTS
cooldownReady(q, now) == matured(q, now) /\ ~withdrawExpired(q, now)

\* The buttons of the panel, with what they would send.
offers(p, q, now) ==
    {<<"deposit", a>> : a \in {b \in Amounts : b <= maxDepositLamports(p)}}
    \cup (IF q.pending = 0 THEN {<<"request", u>> : u \in 1..q.units} ELSE {})
    \cup (IF q.pending > 0 /\ ~cooldownReady(q, now) THEN {<<"cancel", 0>>} ELSE {})
    \cup (IF cooldownReady(q, now) THEN {<<"complete", 0>>} ELSE {})
    \cup (IF withdrawExpired(q, now) THEN {<<"restart", q.pending>>} ELSE {})

\* What some earlier state may have made it offer.
Orders == ({"deposit"} \X Amounts) \cup ({"request", "restart"} \X Units) \cup ({"cancel", "complete"} \X {0})

-----------------------------------------------------------------------------
(* signAndSend and confirmByPolling *)

\* The route refuses, or returns the instruction; the blockhash is fetched and the
\* transaction signed and sent.  A send that throws may have been heard.
order ==
    \E o \in Orders :
        /\ desk = "idle" /\ Len(txs) < MaxOrders
        /\ \/ /\ o[1] = "deposit" /\ ~route_accepts(o[2])
              /\ told' = "refused" /\ UNCHANGED <<txs, desk>>
           \/ /\ o[1] = "deposit" => route_accepts(o[2])
              /\ txs' = Append(txs, [kind |-> o[1], arg |-> o[2], last |-> height + Validity, state |-> "sent"])
              /\ \/ desk' = "polling" /\ UNCHANGED told
                 \/ desk' = "idle" /\ told' = "unsent"
        /\ UNCHANGED <<pool, pos, slotVars>>

\* The transaction the panel asks about.
tx == txs[Len(txs)]

tells(v) == desk' = "idle" /\ told' = v
goes_on(at) == desk' = at /\ UNCHANGED told

\* getSignatureStatuses: "processed" is enough.
poll_status ==
    /\ desk = "polling"
    /\ \/ tx.state = "failed" /\ tells("failed")
       \/ tx.state \in {"processed", "confirmed"} /\ tells("confirmed")
    /\ UNCHANGED <<pool, pos, slotVars, txs>>

\* Mutant: getSlot, which runs ahead of the block height.
height_read_slot == slot_now

\* getBlockHeight.
height_read == height

poll_height ==
    /\ desk = "polling" /\ height_read > tx.last
    /\ goes_on("last_look")
    /\ UNCHANGED <<pool, pos, slotVars, txs>>

\* One last status check; if the read fails, the polls go on.
last_look ==
    /\ desk = "last_look"
    /\ \/ tx.state = "confirmed" /\ tells("confirmed")
       \/ tx.state # "confirmed" /\ tells("expired")
       \/ goes_on("polling")
    /\ UNCHANGED <<pool, pos, slotVars, txs>>

\* 90 seconds of failed polls.
deadline ==
    /\ desk \in {"polling", "last_look"} /\ height > tx.last /\ tells("timeout")
    /\ UNCHANGED <<pool, pos, slotVars, txs>>

DeskNext ==
    \/ next_block \/ skip_slot \/ tx_lands \/ others_move \/ crank_completes
    \/ order \/ poll_status \/ poll_height \/ last_look \/ deadline

DeskSpec == DeskInit /\ [][DeskNext]_deskVars

-----------------------------------------------------------------------------
(* Properties *)

\* A unit has a price, and the least deposit buys one.
priced(p) == p.total > 0 /\ p.assets > 0 /\ p.assets <= MinLpDeposit * p.total

\* What live rounds and LPs who leave are owed.
owed(p) == p.outstanding + units_to_assets(p.pending, p.assets, p.total)

\* A deposit does not make what is owed a larger share of the vault, as rounding may.
owed_alike(p, amount) ==
    LET after == deposited(p, amount, deposit_to_units(amount, p.assets, p.total))
    IN  owed(after) * p.assets <= owed(p) * after.assets

\* lp-panel.tsx, "an amount above it can only revert, so the button refuses it up
\* front", and the route's "pre-flight cap check matches the ON-CHAIN check": what
\* the panel offers on readings of the moment, and the route lets through, is an
\* instruction the program accepts, but for deposits too small to buy a unit and those
\* that a rounding of what is owed puts over the cap.
OfferedPasses ==
    \A o \in offers(pool, pos, slot_now) :
       (o[1] = "deposit" => route_accepts(o[2]) /\ priced(pool) /\ owed_alike(pool, o[2]))
          => passes(o[1], o[2])

\* An order the panel calls expired has not been executed and never will be: the
\* user may give it again without paying twice (confirm.ts, "getBlockHeight is the
\* apples-to-apples compare" and "one last status check before giving up").
ExpiredNeverLands ==
    (desk = "idle" /\ told = "expired") => tx.state \notin {"processed", "confirmed"}

=============================================================================
