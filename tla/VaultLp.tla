------------------------------- MODULE VaultLp ------------------------------
(***************************************************************************)
(* Liquidity provision (pinocchio/kaboom-p/src/ix/v2_lp.rs, house.rs and   *)
(* the treasury side of vault_admin.rs).                                   *)
(*                                                                         *)
(* Ownership of the vault is counted in units.  The units of the users     *)
(* live in one LpPosition account each, those of the operator (the burnt   *)
(* seed, the house, the house's pending withdrawal) in VaultV2State, next  *)
(* to two counters, total_units and total_pending_units, that no handler   *)
(* ever recomputes.  A withdrawal is requested, waits for the cooldown,    *)
(* and may then be completed by anyone during a window, after which it     *)
(* lapses and can only be cancelled.                                       *)
(*                                                                         *)
(* Games are the environment here: games_move lets them set the two fields *)
(* they share with this module, the assets and the outstanding payouts, to *)
(* any values, so what holds here holds whatever the games do.  Slots are  *)
(* kept as the time left until a pending withdrawal unlocks.               *)
(***************************************************************************)
EXTENDS KaboomMath, Totals

CONSTANTS
    N,                            \* number of users
    Amounts,                      \* lamports a user, the house or a donor may bring
    Asks,                         \* units a holder may ask back
    Draws,                        \* lamports the treasury may ask for
    Holdings,                     \* assets the games may leave in the vault
    Reservations,                 \* outstanding payouts the games may leave
    WITHDRAW_COOLDOWN,            \* v2_state.withdraw_cooldown_slots
    WITHDRAW_CLAIM_WINDOW_SLOTS,  \* consts.rs
    MinLpDeposit, MinHouseShareBps, MaxUserPositionBps, MinHealthBps, \* v2_state config
    SeedLamports,                 \* ANTI_INFLATION_SEED_LAMPORTS
    InitAssets,                   \* assets at initialize_v2
    MaxAssets, MaxUnits           \* bounds on what deposits and donations add up to

Users == 1..N

ASSUME LpAssumption ==
    /\ N \in Nat
    /\ Amounts \subseteq Nat /\ Asks \subseteq Nat /\ Draws \subseteq Nat
    /\ Holdings \subseteq Nat /\ Reservations \subseteq Nat
    /\ {WITHDRAW_COOLDOWN, WITHDRAW_CLAIM_WINDOW_SLOTS, MinLpDeposit, MinHouseShareBps,
        MaxUserPositionBps, MinHealthBps, SeedLamports, InitAssets, MaxAssets, MaxUnits} \subseteq Nat
    /\ SeedLamports <= InitAssets
    /\ MinHouseShareBps <= BPS     \* update_v2_config

VARIABLES
    assets,               \* vault lamports above its rent
    outstanding,          \* v2_state.total_outstanding_max_payout
    paused,               \* vault.paused
    total_units, total_pending_units, seed_units,   \* v2_state
    house,                \* v2_state.house_units, house_pending_units, house_pending_unlock_slot
    position              \* LpPosition account of each user

vars == <<assets, outstanding, paused, total_units, total_pending_units, seed_units, house, position>>

\* A holder of units: free units, units pending withdrawal and the slots left
\* until those unlock (negative once they have).
Lapsed == -(WITHDRAW_CLAIM_WINDOW_SLOTS + 1)
Holder == [units: Nat, pending: Nat, wait: Lapsed..WITHDRAW_COOLDOWN]
Nothing == [units |-> 0, pending |-> 0, wait |-> 0]

\* The state initialize_v2 leaves: everything not seed is the house's.
Init ==
    /\ assets = InitAssets
    /\ outstanding = 0
    /\ paused = FALSE
    /\ total_units = InitAssets
    /\ total_pending_units = 0
    /\ seed_units = SeedLamports
    /\ house = [Nothing EXCEPT !.units = InitAssets - SeedLamports]
    /\ position = [u \in Users |-> Nothing]

-----------------------------------------------------------------------------
(* Units *)

user_units_total(total, h) == total - seed_units - h.units - h.pending

\* Bound: deposits stop at MaxAssets and MaxUnits.
bounded(amount, minted) == assets + amount <= MaxAssets /\ total_units + minted <= MaxUnits

\* A holder asks for units, takes the request back, or is paid.
requested(h, units) ==
    [units |-> h.units - units, pending |-> units, wait |-> WITHDRAW_COOLDOWN]
cancelled(h) == [units |-> h.units + h.pending, pending |-> 0, wait |-> 0]
paid(h) == [h EXCEPT !.pending = 0, !.wait = 0]

may_request(h, units) == h.pending = 0 /\ units > 0 /\ units <= h.units
matured(h) == h.pending > 0 /\ h.wait <= 0

\* A deposit is priced before the lamports arrive; units without assets behind
\* them have no price, and a deposit that buys no unit is refused.
priced(amount) ==
    /\ total_units = 0 \/ assets > 0
    /\ deposit_to_units(amount, assets, total_units) > 0

-----------------------------------------------------------------------------
(* Users *)

lp_deposit(u, amount) ==
    LET minted      == deposit_to_units(amount, assets, total_units)
        total_after == total_units + minted
        after       == assets + amount
        mine        == position[u].units + minted
        health      == calc_health_bps(after, outstanding, total_pending_units, total_after)
    IN  /\ ~paused
        /\ amount >= MinLpDeposit
        /\ priced(amount)
        /\ bounded(amount, minted)
        /\ enforce_house_floor(house.units, user_units_total(total_after, house), MinHouseShareBps)
        /\ enforce_user_position_cap(
               units_to_assets(mine + position[u].pending, after, total_after),
               after, health, MaxUserPositionBps)
        /\ MinHealthBps = 0 \/ health >= MinHealthBps
        /\ assets' = after
        /\ total_units' = total_after
        /\ position' = [position EXCEPT ![u].units = mine]
        /\ UNCHANGED <<outstanding, paused, total_pending_units, seed_units, house>>

request_withdraw(u, units) ==
    /\ may_request(position[u], units)
    /\ position' = [position EXCEPT ![u] = requested(@, units)]
    /\ total_pending_units' = total_pending_units + units
    /\ UNCHANGED <<assets, outstanding, paused, total_units, seed_units, house>>

\* Mutant: the counter keeps a withdrawal that was taken back.
pending_after_uncounted(units) == total_pending_units

\* The counter once a request is taken back or paid.
pending_after(units) == total_pending_units - units

cancel_withdraw(u) ==
    /\ position[u].pending > 0
    /\ pending_after(position[u].pending) >= 0
    /\ position' = [position EXCEPT ![u] = cancelled(@)]
    /\ total_pending_units' = pending_after(position[u].pending)
    /\ UNCHANGED <<assets, outstanding, paused, total_units, seed_units, house>>

withdrawal_value(units) == units_to_assets(units, assets, total_units)

\* Anyone may complete a matured request while its window lasts; games, pause
\* and health are not consulted.
complete_withdraw(u) ==
    LET units == position[u].pending
        out   == withdrawal_value(units)
    IN  /\ matured(position[u])
        /\ out <= assets
        /\ pending_after(units) >= 0 /\ total_units >= units
        /\ position[u].wait >= -WITHDRAW_CLAIM_WINDOW_SLOTS
        /\ position' = [position EXCEPT ![u] = paid(@)]
        /\ total_pending_units' = pending_after(units)
        /\ total_units' = total_units - units
        /\ assets' = assets - out
        /\ UNCHANGED <<outstanding, paused, seed_units, house>>

-----------------------------------------------------------------------------
(* The house *)

house_deposit(amount) ==
    LET minted == deposit_to_units(amount, assets, total_units)
    IN  /\ amount > 0
        /\ priced(amount)
        /\ bounded(amount, minted)
        /\ assets' = assets + amount
        /\ total_units' = total_units + minted
        /\ house' = [house EXCEPT !.units = @ + minted]
        /\ UNCHANGED <<outstanding, paused, total_pending_units, seed_units, position>>

\* Mutant: the floor is checked before the units leave.
house_keeps_floor_before(units) ==
    enforce_house_floor(house.units, user_units_total(total_units, house), MinHouseShareBps)

house_keeps_floor(units) ==
    enforce_house_floor(house.units - units, user_units_total(total_units, house), MinHouseShareBps)

\* The house's pending units are not in total_pending_units.
house_request_withdraw(units) ==
    /\ may_request(house, units)
    /\ house_keeps_floor(units)
    /\ house' = requested(house, units)
    /\ UNCHANGED <<assets, outstanding, paused, total_units, total_pending_units, seed_units, position>>

house_cancel_withdraw ==
    /\ house.pending > 0
    /\ house' = cancelled(house)
    /\ UNCHANGED <<assets, outstanding, paused, total_units, total_pending_units, seed_units, position>>

\* No window: a matured house withdrawal does not lapse.
house_complete_withdraw ==
    LET out == withdrawal_value(house.pending)
    IN  /\ matured(house)
        /\ out <= assets
        /\ total_units >= house.pending
        /\ house' = paid(house)
        /\ total_units' = total_units - house.pending
        /\ assets' = assets - out
        /\ UNCHANGED <<outstanding, paused, total_pending_units, seed_units, position>>

operator_units == seed_units + house.units + house.pending

\* The operator leaves with what live games and pending users do not need;
\* all of its units are burnt, also when it is paid less than their value.
unlock_operator_position ==
    LET value == units_to_assets(operator_units, assets, total_units)
        owed  == units_to_assets(total_pending_units, assets, total_units)
        out   == min2(value, saturating_sub(saturating_sub(assets, outstanding), owed))
        total == total_units - operator_units
    IN  /\ operator_units > 0
        /\ out > 0
        /\ total >= 0
        /\ enforce_min_health(MinHealthBps, assets - out, outstanding, total_pending_units, total)
        /\ total_units' = total
        /\ seed_units' = 0
        /\ house' = Nothing
        /\ assets' = assets - out
        /\ UNCHANGED <<outstanding, paused, total_pending_units, position>>

-----------------------------------------------------------------------------
(* Lamports that come and go without units *)

fund_vault(amount) ==
    /\ amount > 0
    /\ bounded(amount, 0)
    /\ assets' = assets + amount
    /\ UNCHANGED <<outstanding, paused, total_units, total_pending_units, seed_units, house, position>>

withdraw_to_treasury(amount) ==
    /\ amount > 0
    /\ assets' = assets - min2(amount, assets)
    /\ UNCHANGED <<outstanding, paused, total_units, total_pending_units, seed_units, house, position>>

games_move(held, reserved) ==
    /\ <<held, reserved>> # <<assets, outstanding>>
    /\ assets' = held
    /\ outstanding' = reserved
    /\ UNCHANGED <<paused, total_units, total_pending_units, seed_units, house, position>>

set_paused ==
    /\ paused' = ~paused
    /\ UNCHANGED <<assets, outstanding, total_units, total_pending_units, seed_units, house, position>>

\* A slot passes for every pending withdrawal that has not lapsed.
aged(h) == IF h.pending > 0 /\ h.wait > Lapsed THEN [h EXCEPT !.wait = @ - 1] ELSE h

tick ==
    /\ house' = aged(house)
    /\ position' = [u \in Users |-> aged(position[u])]
    /\ <<house, position>> # <<house', position'>>
    /\ UNCHANGED <<assets, outstanding, paused, total_units, total_pending_units, seed_units>>

\* The steps that trade units against lamports.
UnitStep ==
    \/ \E amount \in Amounts : house_deposit(amount) \/ \E u \in Users : lp_deposit(u, amount)
    \/ \E u \in Users :
        \/ \E units \in Asks : request_withdraw(u, units)
        \/ cancel_withdraw(u)
        \/ complete_withdraw(u)
    \/ \E units \in Asks : house_request_withdraw(units)
    \/ house_cancel_withdraw
    \/ house_complete_withdraw
    \/ unlock_operator_position

LamportStep ==
    \/ \E amount \in Amounts : fund_vault(amount)
    \/ \E amount \in Draws : withdraw_to_treasury(amount)
    \/ \E held \in Holdings, reserved \in Reservations : games_move(held, reserved)

Next == UnitStep \/ LamportStep \/ set_paused \/ tick

Spec == Init /\ [][Next]_vars

-----------------------------------------------------------------------------
(* Properties *)

TypeOK ==
    /\ assets \in Nat /\ outstanding \in Nat
    /\ paused \in BOOLEAN
    /\ total_units \in Nat /\ total_pending_units \in Nat /\ seed_units \in Nat
    /\ house \in Holder
    /\ position \in [Users -> Holder]

\* The two counters are exactly what the accounts add up to: units are never
\* minted or burnt on one side only, through any sequence of requests,
\* cancellations, completions and the operator's exit.
UnitsExact ==
    /\ total_units = operator_units
                       + Total([u \in Users |-> position[u].units + position[u].pending], N)
    /\ total_pending_units = Total([u \in Users |-> position[u].pending], N)

\* The lamports a user's units are worth.
worth(u) == units_to_assets(position[u].units + position[u].pending, assets, total_units)

\* Nobody's units lose value when somebody else trades units: all rounding
\* (deposits priced before the lamports arrive, payments before the units are
\* burnt, an operator paid less than its share) is in favour of those who stay.
NobodyIsDiluted ==
    [][UnitStep => \A u \in Users :
          position'[u].units + position'[u].pending = position[u].units + position[u].pending
              => worth(u)' >= worth(u)]_vars

\* A matured request inside its window can be paid: no checked subtraction
\* underflows and the vault holds the lamports, whatever the games, the pause
\* switch, the treasury and the other holders did during the cooldown.
MaturedIsPayable ==
    \A u \in Users :
        position[u].pending > 0 =>
            /\ withdrawal_value(position[u].pending) <= assets
            /\ pending_after(position[u].pending) >= 0
            /\ total_units >= position[u].pending

house_share_ok ==
    enforce_house_floor(house.units, user_units_total(total_units, house), MinHouseShareBps)

\* Only the operator's own exit takes the house below its share of the units:
\* neither a user's deposit nor a house withdrawal in any of its stages does.
HouseShareKept == [][house_share_ok => house_share_ok' \/ unlock_operator_position]_vars

=============================================================================
