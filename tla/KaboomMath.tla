----------------------------- MODULE KaboomMath -----------------------------
(***************************************************************************)
(* The pure arithmetic of the program (pinocchio/kaboom-p/src/helpers.rs): *)
(* basis-point products, the multiplier ladder, LP unit pricing, the vault *)
(* health factor and the per-click mine decision.                          *)
(*                                                                         *)
(* The program computes in checked u64/u128: an overflow aborts the        *)
(* instruction, so no wrapped value is ever stored.  Lamport supply is     *)
(* below 2^60, hence the model uses unbounded naturals.  Operators keep    *)
(* their Rust names.                                                       *)
(***************************************************************************)
EXTENDS Integers, Sequences

CONSTANTS GRID_SIZE,   \* tiles on the board (16 in consts.rs)
          BPS          \* basis points in one (10_000 in consts.rs)

ASSUME GridAssumption == GRID_SIZE \in Nat \ {0, 1}
ASSUME BpsAssumption == BPS \in Nat \ {0}

\* Rust's saturating_sub on unsigned integers.
saturating_sub(a, b) == IF a >= b THEN a - b ELSE 0

min2(a, b) == IF a <= b THEN a ELSE b

mul_div_floor(a, num, den) == (a * num) \div den

-----------------------------------------------------------------------------
(* The multiplier ladder *)

\* GRID_SIZE * (GRID_SIZE-1) * ... : the numerator after k safe reveals, and
\* the denominator, the same product over the safe tiles only.
falling(n, k) ==
    LET prod[i \in 0..k] == IF i = 0 THEN 1 ELSE prod[i-1] * (n - (i-1))
    IN  prod[k]

\* The ladder rejects a reveal count that the board cannot hold.
multiplier_defined(safe, mines) == safe = 0 \/ mines + safe <= GRID_SIZE

calc_multiplier(safe, mines, edge) ==
    IF safe = 0
    THEN BPS
    ELSE LET raw == (falling(GRID_SIZE, safe) * BPS) \div falling(GRID_SIZE - mines, safe)
         IN  mul_div_floor(raw, BPS - edge, BPS)

\* The reservation made at the start of a round: every safe tile revealed.
worst_case_payout(bet, mines, edge) ==
    mul_div_floor(bet, calc_multiplier(GRID_SIZE - mines, mines, edge), BPS)

\* One click hits a mine with probability mines / (tiles left), both sides of
\* the rollup deciding from the same random word.
decide_mine(rand, safe, mines) ==
    /\ GRID_SIZE - safe > 0
    /\ rand % (GRID_SIZE - safe) < mines

-----------------------------------------------------------------------------
(* LP unit pricing and the health factor *)

\* Mutant: the units of a deposit are rounded up.
deposit_to_units_up(amount, assets_pre, total_units) ==
    IF total_units = 0 THEN amount
    ELSE (amount * total_units + assets_pre - 1) \div assets_pre

\* An unpriced unit (units but no assets) aborts the deposit: see lp_deposit.
deposit_to_units(amount, assets_pre, total_units) ==
    IF total_units = 0 THEN amount ELSE mul_div_floor(amount, total_units, assets_pre)

units_to_assets(units, assets, total_units) ==
    IF total_units = 0 \/ units = 0 THEN 0 ELSE mul_div_floor(units, assets, total_units)

\* Mutant: live games are forgotten among the obligations.
free_assets_unreserved(assets, outstanding, pending_units, total_units) ==
    saturating_sub(assets, units_to_assets(pending_units, assets, total_units))

\* Assets no obligation lays claim to: neither reserved for a live game nor
\* owed to a pending LP withdrawal.
free_assets(assets, outstanding, pending_units, total_units) ==
    saturating_sub(assets, outstanding + units_to_assets(pending_units, assets, total_units))

calc_health_bps(assets, outstanding, pending_units, total_units) ==
    IF assets = 0
    THEN 0
    ELSE min2(BPS, mul_div_floor(free_assets(assets, outstanding, pending_units, total_units),
                                 BPS, assets))

\* min_health = 0 switches the floor off.
enforce_min_health(min_health, assets, outstanding, pending_units, total_units) ==
    \/ min_health = 0
    \/ calc_health_bps(assets, outstanding, pending_units, total_units) >= min_health

\* The house keeps its share of the units it holds together with the users.
enforce_house_floor(house_after, users_after, min_share) ==
    \/ min_share = 0
    \/ house_after + users_after = 0
    \/ house_after * BPS >= min_share * (house_after + users_after)

\* The cap on one user's position shrinks with the health of the vault.
enforce_user_position_cap(value, assets, health, max_bps) ==
    \/ max_bps = 0
    \/ value <= mul_div_floor(mul_div_floor(assets, max_bps, BPS), health, BPS)

\* The treasury's part of a settled bet, out of what the vault holds once the
\* player and the referrer are paid: the edge times the split, but never more
\* than no obligation lays claim to.
treasury_fee(bet, edge, split, held, outstanding, pending_units, total_units) ==
    IF split > 0
    THEN min2(mul_div_floor(mul_div_floor(bet, edge, BPS), split, BPS),
              saturating_sub(saturating_sub(held, outstanding),
                             units_to_assets(pending_units, held, total_units)))
    ELSE 0

\* What an owner-gated cleanup may spend: the last lamport stays while LP
\* units exist, so that units keep a price.
admin_spendable(assets, total_units) ==
    IF total_units > 0 THEN saturating_sub(assets, 1) ELSE assets

=============================================================================
