---------------------------- MODULE VaultLpProofs ---------------------------
(***************************************************************************)
(* Theorems about the units of the vault, for any number of users, any     *)
(* amounts and configuration, and whatever the games do to the assets;     *)
(* about its administration, for any keys and any length of the allowlist; *)
(* about the mirror of an LP's position, for any history, any number of    *)
(* ingests and any number of failures; and about those who watch the       *)
(* vault, for any conditions it can be in, any number of visitors and any  *)
(* time-outs.                                                              *)
(***************************************************************************)
EXTENDS VaultLp, VaultAdmin, LpMirror, Monitoring, KaboomMathTheorems

\* Every action of the specification, flattened.
LEMMA LpCases ==
  ASSUME Next
  PROVE  \/ \E amount \in Amounts : \E u \in Users : lp_deposit(u, amount)
         \/ \E u \in Users : \/ \E units \in Asks : request_withdraw(u, units)
                             \/ cancel_withdraw(u)
                             \/ complete_withdraw(u)
         \/ \E amount \in Amounts : house_deposit(amount)
         \/ \E units \in Asks : house_request_withdraw(units)
         \/ house_cancel_withdraw \/ house_complete_withdraw
         \/ unlock_operator_position
         \/ LamportStep \/ set_paused \/ tick
BY DEF Next, UnitStep

-----------------------------------------------------------------------------
(* Type correctness *)

\* What happens to a holder keeps it a holder.
LEMMA HolderSteps ==
  ASSUME NEW h \in Holder
  PROVE  /\ \A units \in Nat : may_request(h, units) => requested(h, units) \in Holder
         /\ cancelled(h) \in Holder /\ paid(h) \in Holder /\ aged(h) \in Holder
         /\ \A n \in Nat : [h EXCEPT !.units = n] \in Holder
<1> USE LpAssumption
<1>1. h.units \in Nat /\ h.pending \in Nat /\ h.wait \in Lapsed..WITHDRAW_COOLDOWN
      /\ Lapsed \in Int /\ Lapsed <= 0
  BY DEF Holder, Lapsed
<1>2. ASSUME NEW units \in Nat, may_request(h, units) PROVE requested(h, units) \in Holder
  <2>1. h.units - units \in Nat BY <1>1, <1>2 DEF may_request
  <2>2. WITHDRAW_COOLDOWN \in Lapsed..WITHDRAW_COOLDOWN BY <1>1
  <2>3. QED BY <2>1, <2>2 DEF requested, Holder
<1>3. 0 \in Lapsed..WITHDRAW_COOLDOWN BY <1>1
<1>4. cancelled(h) \in Holder BY <1>1, <1>3 DEF cancelled, Holder
<1>5. paid(h) \in Holder BY <1>1, <1>3 DEF paid, Holder
<1>6. aged(h) \in Holder
  <2>1. CASE h.pending > 0 /\ h.wait > Lapsed
    <3>1. h.wait - 1 \in Lapsed..WITHDRAW_COOLDOWN BY <1>1, <2>1
    <3>2. QED BY <2>1, <3>1 DEF aged, Holder
  <2>2. CASE ~(h.pending > 0 /\ h.wait > Lapsed) BY <2>2 DEF aged
  <2>3. QED BY <2>1, <2>2
<1>7. \A n \in Nat : [h EXCEPT !.units = n] \in Holder BY DEF Holder
<1>8. QED BY <1>2, <1>4, <1>5, <1>6, <1>7

LEMMA NothingHolder == Nothing \in Holder
<1>1. 0 \in Lapsed..WITHDRAW_COOLDOWN BY LpAssumption DEF Lapsed
<1>2. QED BY <1>1 DEF Nothing, Holder

\* The units a deposit buys, and the lamports that units are worth.
LEMMA MintedNat ==
  ASSUME TypeOK, NEW amount \in Nat, priced(amount)
  PROVE  deposit_to_units(amount, assets, total_units) \in Nat \ {0}
<1>1. deposit_to_units(amount, assets, total_units) \in Nat
  <2>1. CASE total_units = 0 BY <2>1 DEF deposit_to_units
  <2>2. CASE total_units # 0
    <3>1. assets \in Nat \ {0} /\ total_units \in Nat BY <2>2 DEF TypeOK, priced
    <3>2. mul_div_floor(amount, total_units, assets) \in Nat BY <3>1, MulDivNat
    <3>3. QED BY <2>2, <3>2 DEF deposit_to_units
  <2>3. QED BY <2>1, <2>2
<1>2. QED BY <1>1 DEF priced

LEMMA InitLpTypeOK == Init => TypeOK
<1> SUFFICES ASSUME Init PROVE TypeOK OBVIOUS
<1> USE LpAssumption
<1>1. InitAssets - SeedLamports \in Nat OBVIOUS
<1>2. house \in Holder
  <2>1. house = [Nothing EXCEPT !.units = InitAssets - SeedLamports] BY DEF Init
  <2>2. QED BY <1>1, <2>1, NothingHolder, HolderSteps
<1>3. position \in [Users -> Holder] BY NothingHolder DEF Init
<1>4. QED BY <1>2, <1>3 DEF Init, TypeOK

LEMMA NextLpTypeOK == TypeOK /\ [Next]_vars => TypeOK'
<1> SUFFICES ASSUME TypeOK, [Next]_vars PROVE TypeOK' OBVIOUS
<1> USE LpAssumption
<1>1. ASSUME NEW u \in Users, NEW amount \in Amounts, lp_deposit(u, amount) PROVE TypeOK'
  <2> DEFINE minted == deposit_to_units(amount, assets, total_units)
  <2>1. amount \in Nat /\ minted \in Nat BY <1>1, MintedNat DEF lp_deposit
  <2>2. /\ assets' = assets + amount /\ total_units' = total_units + minted
        /\ position' = [position EXCEPT ![u].units = position[u].units + minted]
        /\ UNCHANGED <<outstanding, paused, total_pending_units, seed_units, house>>
    BY <1>1 DEF lp_deposit
  <2> HIDE DEF minted
  <2>3. position[u] \in Holder /\ position[u].units + minted \in Nat BY <2>1 DEF TypeOK, Holder
  <2>4. [position[u] EXCEPT !.units = position[u].units + minted] \in Holder BY <2>3, HolderSteps
  <2>5. position' \in [Users -> Holder] BY <2>2, <2>4 DEF TypeOK
  <2>6. QED BY <2>1, <2>2, <2>5 DEF TypeOK
<1>2. ASSUME NEW u \in Users, NEW units \in Asks, request_withdraw(u, units) PROVE TypeOK'
  <2>1. units \in Nat /\ position[u] \in Holder BY DEF TypeOK
  <2>2. requested(position[u], units) \in Holder BY <1>2, <2>1, HolderSteps DEF request_withdraw
  <2>3. position' \in [Users -> Holder] BY <1>2, <2>2 DEF request_withdraw, TypeOK
  <2>4. QED BY <1>2, <2>1, <2>3 DEF request_withdraw, TypeOK
<1>3. ASSUME NEW u \in Users, cancel_withdraw(u) PROVE TypeOK'
  <2>1. position[u] \in Holder /\ position[u].pending \in Nat BY DEF TypeOK, Holder
  <2>2. cancelled(position[u]) \in Holder BY <2>1, HolderSteps
  <2>3. position' \in [Users -> Holder] BY <1>3, <2>2 DEF cancel_withdraw, TypeOK
  <2>4. total_pending_units' \in Nat BY <1>3, <2>1 DEF cancel_withdraw, pending_after, TypeOK
  <2>5. QED BY <1>3, <2>3, <2>4 DEF cancel_withdraw, TypeOK
<1>4. ASSUME NEW u \in Users, complete_withdraw(u) PROVE TypeOK'
  <2> DEFINE units == position[u].pending
             out == withdrawal_value(units)
  <2>1. position[u] \in Holder /\ units \in Nat BY DEF TypeOK, Holder
  <2>2. out \in Nat BY <2>1, UnitsToAssetsNat DEF TypeOK, withdrawal_value
  <2>3. paid(position[u]) \in Holder BY <2>1, HolderSteps
  <2>4. /\ out <= assets /\ pending_after(units) >= 0 /\ total_units >= units
        /\ position' = [position EXCEPT ![u] = paid(@)]
        /\ total_pending_units' = pending_after(units)
        /\ total_units' = total_units - units /\ assets' = assets - out
        /\ UNCHANGED <<outstanding, paused, seed_units, house>>
    BY <1>4 DEF complete_withdraw
  <2> HIDE DEF units, out
  <2>5. position' \in [Users -> Holder] BY <2>3, <2>4 DEF TypeOK
  <2>6. QED BY <2>1, <2>2, <2>4, <2>5 DEF TypeOK, pending_after
<1>5. ASSUME NEW amount \in Amounts, house_deposit(amount) PROVE TypeOK'
  <2> DEFINE minted == deposit_to_units(amount, assets, total_units)
  <2>1. amount \in Nat /\ minted \in Nat BY <1>5, MintedNat DEF house_deposit
  <2>2. /\ assets' = assets + amount /\ total_units' = total_units + minted
        /\ house' = [house EXCEPT !.units = house.units + minted]
        /\ UNCHANGED <<outstanding, paused, total_pending_units, seed_units, position>>
    BY <1>5 DEF house_deposit
  <2> HIDE DEF minted
  <2>3. house \in Holder /\ house.units + minted \in Nat BY <2>1 DEF TypeOK, Holder
  <2>4. house' \in Holder BY <2>2, <2>3, HolderSteps
  <2>5. QED BY <2>1, <2>2, <2>4 DEF TypeOK
<1>6. ASSUME NEW units \in Asks, house_request_withdraw(units) PROVE TypeOK'
  <2>1. units \in Nat /\ house \in Holder BY DEF TypeOK
  <2>2. house' \in Holder BY <1>6, <2>1, HolderSteps DEF house_request_withdraw
  <2>3. QED BY <1>6, <2>2 DEF house_request_withdraw, TypeOK
<1>7. CASE house_cancel_withdraw
  <2>1. house' \in Holder BY <1>7, HolderSteps DEF house_cancel_withdraw, TypeOK
  <2>2. QED BY <1>7, <2>1 DEF house_cancel_withdraw, TypeOK
<1>8. CASE house_complete_withdraw
  <2> DEFINE out == withdrawal_value(house.pending)
  <2>1. house \in Holder /\ house.pending \in Nat BY DEF TypeOK, Holder
  <2>2. out \in Nat BY <2>1, UnitsToAssetsNat DEF TypeOK, withdrawal_value
  <2>3. house' \in Holder BY <1>8, <2>1, HolderSteps DEF house_complete_withdraw
  <2>4. /\ out <= assets /\ total_units >= house.pending
        /\ total_units' = total_units - house.pending /\ assets' = assets - out
        /\ UNCHANGED <<outstanding, paused, total_pending_units, seed_units, position>>
    BY <1>8 DEF house_complete_withdraw
  <2> HIDE DEF out
  <2>5. QED BY <2>1, <2>2, <2>3, <2>4 DEF TypeOK
<1>9. CASE unlock_operator_position
  <2> DEFINE value == units_to_assets(operator_units, assets, total_units)
             owed  == units_to_assets(total_pending_units, assets, total_units)
             free  == saturating_sub(saturating_sub(assets, outstanding), owed)
             out   == min2(value, free)
  <2>1. operator_units \in Nat BY DEF TypeOK, Holder, operator_units
  <2>2. value \in Nat /\ owed \in Nat BY <2>1, UnitsToAssetsNat DEF TypeOK
  <2>3. /\ out > 0 /\ total_units - operator_units >= 0
        /\ total_units' = total_units - operator_units
        /\ seed_units' = 0 /\ house' = Nothing /\ assets' = assets - out
        /\ UNCHANGED <<outstanding, paused, total_pending_units, position>>
    BY <1>9 DEF unlock_operator_position
  <2>4. saturating_sub(assets, outstanding) \in Nat /\ saturating_sub(assets, outstanding) <= assets
    BY SaturatingSub DEF TypeOK
  <2> HIDE DEF value, owed
  <2>5. free \in Nat /\ free <= saturating_sub(assets, outstanding) BY <2>2, <2>4, SaturatingSub
  <2> HIDE DEF free
  <2>6. out \in Nat /\ out <= free BY <2>2, <2>5, Min2
  <2> HIDE DEF out
  <2>7. assets' \in Nat /\ total_units' \in Nat BY <2>1, <2>3, <2>4, <2>5, <2>6 DEF TypeOK
  <2>8. QED BY <2>3, <2>7, NothingHolder DEF TypeOK
<1>10. CASE LamportStep
  <2>1. ASSUME NEW amount \in Draws, withdraw_to_treasury(amount) PROVE TypeOK'
    <3>1. min2(amount, assets) \in Nat /\ min2(amount, assets) <= assets BY Min2 DEF TypeOK
    <3>2. QED BY <2>1, <3>1 DEF withdraw_to_treasury, TypeOK
  <2>2. ASSUME NEW amount \in Amounts, fund_vault(amount) PROVE TypeOK'
    BY <2>2 DEF fund_vault, TypeOK
  <2>3. ASSUME NEW held \in Holdings, NEW reserved \in Reservations, games_move(held, reserved)
        PROVE  TypeOK'
    BY <2>3 DEF games_move, TypeOK
  <2>4. QED BY <1>10, <2>1, <2>2, <2>3 DEF LamportStep
<1>11. CASE set_paused BY <1>11 DEF set_paused, TypeOK
<1>12. CASE tick
  <2>1. house' \in Holder /\ position' \in [Users -> Holder]
    BY <1>12, HolderSteps DEF tick, TypeOK
  <2>2. QED BY <1>12, <2>1 DEF tick, TypeOK
<1>13. CASE UNCHANGED vars BY <1>13 DEF vars, TypeOK
<1>14. CASE Next
  BY <1>1, <1>2, <1>3, <1>4, <1>5, <1>6, <1>7, <1>8, <1>9, <1>10, <1>11, <1>12, <1>14, LpCases
<1>15. QED BY <1>13, <1>14

-----------------------------------------------------------------------------
(* The counters *)

Held == [u \in Users |-> position[u].units + position[u].pending]
Pending == [u \in Users |-> position[u].pending]

LEMMA SumsType ==
  ASSUME TypeOK
  PROVE  Held \in [1..N -> Nat] /\ Pending \in [1..N -> Nat] /\ N \in Nat
<1>1. \A u \in Users : position[u].units \in Nat /\ position[u].pending \in Nat BY DEF TypeOK, Holder
<1>2. \A u \in Users : position[u].units + position[u].pending \in Nat BY <1>1
<1>3. QED BY <1>1, <1>2, LpAssumption DEF Held, Pending, Users

\* A step that changes one position moves the two sums by the difference.
LEMMA SumsMove ==
  ASSUME TypeOK, TypeOK', NEW u \in Users, \A v \in Users \ {u} : position'[v] = position[v]
  PROVE  /\ Total(Held', N) = Total(Held, N) - (position[u].units + position[u].pending)
                                + (position'[u].units + position'[u].pending)
         /\ Total(Pending', N) = Total(Pending, N) - position[u].pending + position'[u].pending
<1> DEFINE f == [v \in Users |-> position[v].units + position[v].pending]
           h == [v \in Users |-> position'[v].units + position'[v].pending]
           k == [v \in Users |-> position[v].pending]
           l == [v \in Users |-> position'[v].pending]
<1>1. N \in Nat /\ u \in 1..N BY LpAssumption DEF Users
<1>2. f \in [1..N -> Nat] /\ h \in [1..N -> Nat] /\ k \in [1..N -> Nat] /\ l \in [1..N -> Nat]
  <2>1. \A v \in Users : /\ position[v].units \in Nat /\ position[v].pending \in Nat
                         /\ position'[v].units \in Nat /\ position'[v].pending \in Nat
    BY DEF TypeOK, Holder
  <2>2. \A v \in Users : /\ position[v].units + position[v].pending \in Nat
                         /\ position'[v].units + position'[v].pending \in Nat
    BY <2>1
  <2>3. QED BY <2>1, <2>2 DEF Users
<1>3. /\ \A v \in 1..N \ {u} : h[v] = f[v]
      /\ \A v \in 1..N \ {u} : l[v] = k[v]
  BY DEF Users
<1>4. /\ f[u] = position[u].units + position[u].pending
      /\ h[u] = position'[u].units + position'[u].pending
      /\ k[u] = position[u].pending /\ l[u] = position'[u].pending
  OBVIOUS
<1>5. Held = f /\ Held' = h /\ Pending = k /\ Pending' = l BY DEF Held, Pending
<1> HIDE DEF f, h, k, l
<1>6. Total(h, N) = Total(f, N) - f[u] + h[u] BY <1>1, <1>2, <1>3, TotalUpdate
<1>7. Total(l, N) = Total(k, N) - k[u] + l[u] BY <1>1, <1>2, <1>3, TotalUpdate
<1>8. QED BY <1>4, <1>5, <1>6, <1>7

LEMMA SumsKept ==
  ASSUME \A u \in Users : /\ position'[u].units = position[u].units
                          /\ position'[u].pending = position[u].pending
  PROVE  Held' = Held /\ Pending' = Pending
BY DEF Held, Pending

LEMMA ExactParts ==
  UnitsExact <=> /\ total_units = operator_units + Total(Held, N)
                 /\ total_pending_units = Total(Pending, N)
BY DEF UnitsExact, Held, Pending

\* The sums bound each user's part of them.
LEMMA SumsBound ==
  ASSUME TypeOK, NEW u \in Users
  PROVE  /\ position[u].units + position[u].pending <= Total(Held, N)
         /\ position[u].pending <= Total(Pending, N)
         /\ Total(Held, N) \in Nat /\ Total(Pending, N) \in Nat
<1>1. Held \in [1..N -> Nat] /\ Pending \in [1..N -> Nat] /\ N \in Nat BY SumsType
<1>2. u \in 1..N BY DEF Users
<1>3. Held[u] = position[u].units + position[u].pending /\ Pending[u] = position[u].pending
  BY DEF Held, Pending
<1>4. Held[u] <= Total(Held, N) /\ Pending[u] <= Total(Pending, N) BY <1>1, <1>2, TotalBounds
<1>5. QED BY <1>1, <1>3, <1>4, TotalNat

LEMMA SumsNat == TypeOK => Total(Held, N) \in Nat /\ Total(Pending, N) \in Nat
BY SumsType, TotalNat

\* Every step keeps the counters exact.
LEMMA NextUnitsExact == TypeOK /\ UnitsExact /\ [Next]_vars => UnitsExact'
<1> SUFFICES ASSUME TypeOK, UnitsExact, [Next]_vars PROVE UnitsExact' OBVIOUS
<1> USE LpAssumption
<1>1. TypeOK' BY NextLpTypeOK
<1>2. SUFFICES /\ total_units' = operator_units' + Total(Held', N)
               /\ total_pending_units' = Total(Pending', N)
  BY DEF UnitsExact, Held, Pending
<1> DEFINE Exact == /\ total_units' = operator_units' + Total(Held', N)
                    /\ total_pending_units' = Total(Pending', N)
<1> SUFFICES Exact OBVIOUS
<1>3. /\ total_units = operator_units + Total(Held, N)
      /\ total_pending_units = Total(Pending, N)
  BY ExactParts
<1>4. /\ Total(Held, N) \in Nat /\ Total(Pending, N) \in Nat BY SumsNat
<1>5. operator_units = seed_units + house.units + house.pending
      /\ operator_units' = seed_units' + house'.units + house'.pending
      /\ seed_units \in Nat /\ house.units \in Nat /\ house.pending \in Nat
  BY DEF operator_units, TypeOK, Holder
<1>6. ASSUME NEW u \in Users PROVE position[u] \in Holder /\ position[u].units \in Nat /\ position[u].pending \in Nat
  BY DEF TypeOK, Holder
<1>7. ASSUME NEW u \in Users, NEW amount \in Amounts, lp_deposit(u, amount) PROVE Exact
  <2> DEFINE minted == deposit_to_units(amount, assets, total_units)
  <2>1. minted \in Nat BY <1>7, MintedNat DEF lp_deposit
  <2>2. /\ total_units' = total_units + minted
        /\ position' = [position EXCEPT ![u].units = position[u].units + minted]
        /\ UNCHANGED <<total_pending_units, seed_units, house>>
    BY <1>7 DEF lp_deposit
  <2> HIDE DEF minted
  <2>3. /\ position'[u].units = position[u].units + minted /\ position'[u].pending = position[u].pending
        /\ \A v \in Users \ {u} : position'[v] = position[v]
    BY <1>6, <2>2 DEF TypeOK, Holder
  <2>4. Total(Held', N) = Total(Held, N) + minted /\ Total(Pending', N) = Total(Pending, N)
    BY <1>1, <1>4, <1>6, <2>1, <2>3, SumsMove
  <2>5. operator_units' = operator_units BY <1>5, <2>2
  <2>6. QED BY <1>3, <1>4, <1>5, <2>1, <2>2, <2>4, <2>5
<1>8. ASSUME NEW u \in Users, NEW units \in Asks, request_withdraw(u, units) PROVE Exact
  <2>1. units \in Nat OBVIOUS
  <2>2. /\ position'[u].units = position[u].units - units /\ position'[u].pending = units
        /\ position[u].pending = 0
        /\ \A v \in Users \ {u} : position'[v] = position[v]
    BY <1>8 DEF request_withdraw, requested, may_request, TypeOK
  <2>3. Total(Held', N) = Total(Held, N) /\ Total(Pending', N) = Total(Pending, N) + units
    BY <1>1, <1>4, <1>6, <2>1, <2>2, SumsMove
  <2>4. /\ UNCHANGED <<total_units, seed_units, house>>
        /\ total_pending_units' = total_pending_units + units
    BY <1>8 DEF request_withdraw
  <2>5. QED BY <1>3, <1>5, <2>3, <2>4
<1>9. ASSUME NEW u \in Users, cancel_withdraw(u) PROVE Exact
  <2>1. /\ position'[u].units = position[u].units + position[u].pending /\ position'[u].pending = 0
        /\ \A v \in Users \ {u} : position'[v] = position[v]
    BY <1>9 DEF cancel_withdraw, cancelled, TypeOK
  <2>2. Total(Held', N) = Total(Held, N)
        /\ Total(Pending', N) = Total(Pending, N) - position[u].pending
    BY <1>1, <1>4, <1>6, <2>1, SumsMove
  <2>3. /\ UNCHANGED <<total_units, seed_units, house>>
        /\ total_pending_units' = total_pending_units - position[u].pending
    BY <1>9 DEF cancel_withdraw, pending_after
  <2>4. QED BY <1>3, <1>5, <2>2, <2>3
<1>10. ASSUME NEW u \in Users, complete_withdraw(u) PROVE Exact
  <2>1. position' = [position EXCEPT ![u] = paid(@)] BY <1>10 DEF complete_withdraw
  <2>2. /\ position'[u].units = position[u].units /\ position'[u].pending = 0
        /\ \A v \in Users \ {u} : position'[v] = position[v]
    BY <1>6, <2>1 DEF paid, TypeOK, Holder
  <2>3. Total(Held', N) = Total(Held, N) - position[u].pending
        /\ Total(Pending', N) = Total(Pending, N) - position[u].pending
    BY <1>1, <1>4, <1>6, <2>2, SumsMove
  <2>4. /\ UNCHANGED <<seed_units, house>>
        /\ total_units' = total_units - position[u].pending
        /\ total_pending_units' = total_pending_units - position[u].pending
    BY <1>10 DEF complete_withdraw, pending_after
  <2>5. operator_units' = operator_units BY <1>5, <2>4
  <2>6. QED BY <1>3, <1>4, <1>5, <1>6, <2>3, <2>4, <2>5
<1>11. ASSUME position' = position PROVE Held' = Held /\ Pending' = Pending
  BY <1>11, SumsKept
<1>12. ASSUME NEW amount \in Amounts, house_deposit(amount) PROVE Exact
  <2> DEFINE minted == deposit_to_units(amount, assets, total_units)
  <2>1. minted \in Nat BY <1>12, MintedNat DEF house_deposit
  <2>2. /\ total_units' = total_units + minted
        /\ house' = [house EXCEPT !.units = house.units + minted]
        /\ UNCHANGED <<total_pending_units, seed_units, position>>
    BY <1>12 DEF house_deposit
  <2> HIDE DEF minted
  <2>3. house'.units = house.units + minted /\ house'.pending = house.pending
    BY <2>2 DEF TypeOK, Holder
  <2>4. QED BY <1>3, <1>4, <1>5, <1>11, <2>1, <2>2, <2>3
<1>13. ASSUME NEW units \in Asks, house_request_withdraw(units) PROVE Exact
  <2>1. /\ house'.units = house.units - units /\ house'.pending = units /\ house.pending = 0
        /\ UNCHANGED <<total_units, total_pending_units, seed_units, position>>
    BY <1>13 DEF house_request_withdraw, may_request, requested
  <2>2. units \in Nat OBVIOUS
  <2>3. QED BY <1>3, <1>4, <1>5, <1>11, <2>1, <2>2
<1>14. CASE house_cancel_withdraw
  <2>1. /\ house'.units = house.units + house.pending /\ house'.pending = 0
        /\ UNCHANGED <<total_units, total_pending_units, seed_units, position>>
    BY <1>14 DEF house_cancel_withdraw, cancelled
  <2>2. QED BY <1>3, <1>4, <1>5, <1>11, <2>1
<1>15. CASE house_complete_withdraw
  <2>1. /\ house' = paid(house) /\ total_units' = total_units - house.pending
        /\ UNCHANGED <<total_pending_units, seed_units, position>>
    BY <1>15 DEF house_complete_withdraw
  <2>2. house'.units = house.units /\ house'.pending = 0 BY <2>1 DEF paid, TypeOK, Holder
  <2>3. QED BY <1>3, <1>4, <1>5, <1>11, <2>1, <2>2
<1>16. CASE unlock_operator_position
  <2>1. /\ total_units' = total_units - operator_units /\ seed_units' = 0 /\ house' = Nothing
        /\ UNCHANGED <<total_pending_units, position>>
    BY <1>16 DEF unlock_operator_position
  <2>2. house'.units = 0 /\ house'.pending = 0 BY <2>1 DEF Nothing
  <2>3. QED BY <1>3, <1>4, <1>5, <1>11, <2>1, <2>2
<1>17. CASE LamportStep \/ set_paused \/ UNCHANGED vars
  <2>1. UNCHANGED <<total_units, total_pending_units, seed_units, house, position>>
    BY <1>17 DEF LamportStep, fund_vault, withdraw_to_treasury, games_move, set_paused, vars
  <2>2. QED BY <1>3, <1>5, <1>11, <2>1
<1>18. CASE tick
  <2>1. ASSUME NEW h \in Holder PROVE aged(h).units = h.units /\ aged(h).pending = h.pending
    BY DEF aged, Holder
  <2>2. /\ house'.units = house.units /\ house'.pending = house.pending
        /\ UNCHANGED <<total_units, total_pending_units, seed_units>>
    BY <1>18, <2>1 DEF tick, TypeOK
  <2>3. \A u \in Users : position'[u].units = position[u].units /\ position'[u].pending = position[u].pending
    BY <1>18, <2>1 DEF tick, TypeOK
  <2>4. Held' = Held /\ Pending' = Pending BY <2>3, SumsKept
  <2>5. QED BY <1>3, <1>5, <2>2, <2>4
<1> HIDE DEF Exact
<1>19. CASE Next
  BY <1>7, <1>8, <1>9, <1>10, <1>12, <1>13, <1>14, <1>15, <1>16, <1>17, <1>18, <1>19, LpCases
<1>20. QED BY <1>17, <1>19

LEMMA InitUnitsExact == Init => UnitsExact
<1> SUFFICES ASSUME Init PROVE UnitsExact OBVIOUS
<1>1. TypeOK BY InitLpTypeOK
<1>2. Held \in [1..N -> Nat] /\ Pending \in [1..N -> Nat] /\ N \in Nat BY <1>1, SumsType
<1>3. \A u \in 1..N : Held[u] = 0 /\ Pending[u] = 0 BY DEF Init, Held, Pending, Nothing, Users
<1>4. Total(Held, N) = 0 /\ Total(Pending, N) = 0 BY <1>2, <1>3, TotalZero
<1>5. operator_units = total_units /\ operator_units \in Nat
  BY LpAssumption DEF Init, operator_units, Nothing
<1>6. QED BY <1>4, <1>5, ExactParts DEF Init

\* The types and the counters of the vault, through every sequence of LP,
\* house, treasury and game steps.
THEOREM LpInvariant == Spec => [](TypeOK /\ UnitsExact)
<1>1. Init => TypeOK /\ UnitsExact BY InitLpTypeOK, InitUnitsExact
<1>2. TypeOK /\ UnitsExact /\ [Next]_vars => (TypeOK /\ UnitsExact)'
  BY NextLpTypeOK, NextUnitsExact
<1>3. QED BY <1>1, <1>2, PTL DEF Spec

\* total_units and total_pending_units are the sums they stand for.
THEOREM UnitsStayExact == Spec => []UnitsExact
BY LpInvariant, PTL

\* A pending withdrawal can always be paid: the vault's books never refuse it.
THEOREM MaturedStaysPayable == Spec => []MaturedIsPayable
<1>1. TypeOK /\ UnitsExact => MaturedIsPayable
  <2> SUFFICES ASSUME TypeOK, UnitsExact, NEW u \in Users, position[u].pending > 0
               PROVE  /\ withdrawal_value(position[u].pending) <= assets
                      /\ pending_after(position[u].pending) >= 0
                      /\ total_units >= position[u].pending
    BY DEF MaturedIsPayable
  <2>1. position[u].units \in Nat /\ position[u].pending \in Nat BY DEF TypeOK, Holder
  <2>2. /\ position[u].units + position[u].pending <= Total(Held, N)
        /\ position[u].pending <= Total(Pending, N)
        /\ Total(Held, N) \in Nat /\ Total(Pending, N) \in Nat
    BY SumsBound
  <2>3. /\ total_units = operator_units + Total(Held, N) /\ total_pending_units = Total(Pending, N)
        /\ operator_units \in Nat
    BY ExactParts DEF TypeOK, Holder, operator_units
  <2>4. total_units >= position[u].pending /\ pending_after(position[u].pending) >= 0
    BY <2>1, <2>2, <2>3 DEF pending_after
  <2>5. withdrawal_value(position[u].pending) <= assets
    BY <2>1, <2>4, ShareBound DEF TypeOK, withdrawal_value
  <2>6. QED BY <2>4, <2>5
<1>2. QED BY <1>1, LpInvariant, PTL

-----------------------------------------------------------------------------
(* The house's share *)

\* The floor stays satisfied when the house holds no less and the users no more.
LEMMA FloorKept ==
  ASSUME NEW h \in Nat, NEW k \in Nat, NEW v \in Nat, NEW w \in Nat,
         h <= k, w <= v, enforce_house_floor(h, v, MinHouseShareBps)
  PROVE  enforce_house_floor(k, w, MinHouseShareBps)
<1> DEFINE min == MinHouseShareBps
<1>1. min \in Nat /\ BPS \in Nat /\ min <= BPS BY LpAssumption, BpsAssumption
<1>2. SUFFICES ASSUME min # 0 PROVE k * BPS >= min * (k + w) BY DEF enforce_house_floor
<1> HIDE DEF min
<1>3. ASSUME NEW n \in Nat PROVE n * min <= n * BPS
  <2>1. min * n <= BPS * n BY <1>1, TimesMonotone
  <2>2. QED BY <1>1, <2>1
<1>4. CASE h + v = 0
  <2>1. w = 0 BY <1>4
  <2>2. min * (k + w) = k * min BY <1>1, <2>1
  <2>3. QED BY <1>1, <1>3, <2>2
<1>5. CASE h + v # 0
  <2>1. min * (h + v) <= h * BPS BY <1>1, <1>2, <1>5 DEF enforce_house_floor, min
  <2> DEFINE d == k - h
  <2>2. d \in Nat /\ k = h + d OBVIOUS
  <2> HIDE DEF d
  <2>3. d * min <= d * BPS BY <1>3, <2>2
  <2>4. w * min <= v * min BY <1>1, TimesMonotone
  <2>5. /\ k * BPS = h * BPS + d * BPS
        /\ min * (h + v) = h * min + v * min
        /\ min * (k + w) = h * min + d * min + w * min
    BY <1>1, <2>2
  <2>6. /\ h * BPS \in Nat /\ d * BPS \in Nat /\ h * min \in Nat /\ v * min \in Nat
        /\ d * min \in Nat /\ w * min \in Nat
    BY <1>1, <2>2
  <2>7. QED BY <2>1, <2>3, <2>4, <2>5, <2>6
<1>6. QED BY <1>4, <1>5

\* The units of the users are what the accounts add up to.
LEMMA UsersTotal ==
  TypeOK /\ UnitsExact => /\ user_units_total(total_units, house) = Total(Held, N)
                         /\ Total(Held, N) \in Nat
<1> SUFFICES ASSUME TypeOK, UnitsExact
             PROVE  /\ user_units_total(total_units, house) = Total(Held, N)
                    /\ Total(Held, N) \in Nat
  OBVIOUS
<1>1. total_units = operator_units + Total(Held, N) /\ Total(Held, N) \in Nat
  BY ExactParts, SumsNat
<1>2. seed_units \in Nat /\ house.units \in Nat /\ house.pending \in Nat BY DEF TypeOK, Holder
<1>3. QED BY <1>1, <1>2 DEF user_units_total, operator_units

LEMMA UsersTotalNext ==
  TypeOK' /\ UnitsExact' => (user_units_total(total_units, house) \in Nat)'
<1>1. TypeOK /\ UnitsExact => user_units_total(total_units, house) \in Nat BY UsersTotal
<1>2. QED BY <1>1, PTL

\* No step but the operator's exit takes the house below its floor.
LEMMA HouseShareStep ==
  TypeOK /\ UnitsExact /\ house_share_ok /\ [Next]_vars
      => house_share_ok' \/ unlock_operator_position
<1> SUFFICES ASSUME TypeOK, UnitsExact, house_share_ok, [Next]_vars, ~unlock_operator_position
             PROVE  house_share_ok'
  OBVIOUS
<1> USE LpAssumption
<1> DEFINE theirs == user_units_total(total_units, house)
<1>1. TypeOK' /\ UnitsExact' BY NextLpTypeOK, NextUnitsExact
<1>2. theirs \in Nat /\ theirs' \in Nat
  <2>1. theirs \in Nat BY UsersTotal
  <2>2. theirs' \in Nat BY <1>1, UsersTotalNext
  <2>3. QED BY <2>1, <2>2
<1>3. /\ house.units \in Nat /\ house.pending \in Nat /\ seed_units \in Nat /\ total_units \in Nat
      /\ house'.units \in Nat /\ house'.pending \in Nat /\ seed_units' \in Nat /\ total_units' \in Nat
  BY <1>1 DEF TypeOK, Holder
<1>4. ASSUME house'.units >= house.units, theirs' <= theirs PROVE house_share_ok'
  <2>1. enforce_house_floor(house.units, theirs, MinHouseShareBps) BY DEF house_share_ok
  <2> HIDE DEF theirs
  <2>2. enforce_house_floor(house'.units, theirs', MinHouseShareBps)
    BY <1>2, <1>3, <1>4, <2>1, FloorKept
  <2>3. QED BY <2>2 DEF house_share_ok, theirs
<1>5. ASSUME NEW u \in Users, NEW amount \in Amounts, lp_deposit(u, amount) PROVE house_share_ok'
  <2> DEFINE after == total_units + deposit_to_units(amount, assets, total_units)
  <2>1. /\ total_units' = after /\ UNCHANGED <<seed_units, house>>
        /\ enforce_house_floor(house.units, user_units_total(after, house), MinHouseShareBps)
    BY <1>5 DEF lp_deposit
  <2>2. QED BY <2>1 DEF house_share_ok, user_units_total
<1>6. ASSUME NEW u \in Users, complete_withdraw(u) PROVE house_share_ok'
  <2>1. total_units' = total_units - position[u].pending /\ UNCHANGED <<seed_units, house>>
        /\ position[u].pending \in Nat
    BY <1>6 DEF complete_withdraw, TypeOK, Holder
  <2>2. theirs' <= theirs BY <1>3, <2>1 DEF user_units_total
  <2>3. QED BY <1>3, <1>4, <2>1, <2>2
<1>7. ASSUME NEW amount \in Amounts, house_deposit(amount) PROVE house_share_ok'
  <2> DEFINE minted == deposit_to_units(amount, assets, total_units)
  <2>1. minted \in Nat BY <1>7, MintedNat DEF house_deposit
  <2>2. /\ total_units' = total_units + minted
        /\ house' = [house EXCEPT !.units = house.units + minted]
        /\ UNCHANGED seed_units
    BY <1>7 DEF house_deposit
  <2> HIDE DEF minted
  <2>3. house'.units = house.units + minted /\ house'.pending = house.pending
    BY <2>2 DEF TypeOK, Holder
  <2>4. theirs' = theirs BY <1>3, <2>1, <2>2, <2>3 DEF user_units_total
  <2>5. QED BY <1>2, <1>3, <1>4, <2>1, <2>3, <2>4
<1>8. ASSUME NEW units \in Asks, house_request_withdraw(units) PROVE house_share_ok'
  <2>1. /\ house'.units = house.units - units /\ house'.pending = units /\ house.pending = 0
        /\ units <= house.units /\ UNCHANGED <<total_units, seed_units>>
        /\ enforce_house_floor(house.units - units, theirs, MinHouseShareBps)
    BY <1>8 DEF house_request_withdraw, may_request, requested, house_keeps_floor
  <2>2. units \in Nat OBVIOUS
  <2>3. theirs' = theirs BY <1>3, <2>1, <2>2 DEF user_units_total
  <2>4. house'.units = house.units - units BY <2>1
  <2> HIDE DEF theirs
  <2>5. enforce_house_floor(house'.units, theirs', MinHouseShareBps) BY <2>1, <2>3, <2>4
  <2>6. QED BY <2>5 DEF house_share_ok, theirs
<1>9. CASE house_cancel_withdraw
  <2>1. /\ house'.units = house.units + house.pending /\ house'.pending = 0
        /\ UNCHANGED <<total_units, seed_units>>
    BY <1>9 DEF house_cancel_withdraw, cancelled
  <2>2. theirs' = theirs BY <1>3, <2>1 DEF user_units_total
  <2>3. QED BY <1>2, <1>3, <1>4, <2>1, <2>2
<1>10. CASE house_complete_withdraw
  <2>1. house' = paid(house) /\ total_units' = total_units - house.pending /\ UNCHANGED seed_units
    BY <1>10 DEF house_complete_withdraw
  <2>2. house'.units = house.units /\ house'.pending = 0 BY <2>1 DEF paid, TypeOK, Holder
  <2>3. theirs' = theirs BY <1>3, <2>1, <2>2 DEF user_units_total
  <2>4. QED BY <1>2, <1>3, <1>4, <2>2, <2>3
<1>11. ASSUME UNCHANGED <<total_units, seed_units>>, house'.units = house.units,
              house'.pending = house.pending
       PROVE  house_share_ok'
  <2>1. theirs' = theirs BY <1>11 DEF user_units_total
  <2>2. QED BY <1>2, <1>3, <1>4, <1>11, <2>1
<1>12. ASSUME NEW u \in Users,
              cancel_withdraw(u) \/ \E units \in Asks : request_withdraw(u, units)
       PROVE  house_share_ok'
  BY <1>11, <1>12 DEF cancel_withdraw, request_withdraw
<1>13. CASE LamportStep \/ set_paused \/ UNCHANGED vars
  BY <1>11, <1>13 DEF LamportStep, fund_vault, withdraw_to_treasury, games_move, set_paused, vars
<1>14. CASE tick
  <2>1. house'.units = house.units /\ house'.pending = house.pending
        /\ UNCHANGED <<total_units, seed_units>>
    BY <1>14 DEF tick, aged, TypeOK, Holder
  <2>2. QED BY <1>11, <2>1
<1> HIDE DEF theirs
<1>15. CASE Next
  BY <1>5, <1>6, <1>7, <1>8, <1>9, <1>10, <1>12, <1>13, <1>14, <1>15, LpCases
<1>16. QED BY <1>13, <1>15

\* The house keeps its floor: only the operator's own exit may take it below,
\* no deposit of a user and no stage of a house withdrawal.
THEOREM HouseKeepsItsShare == Spec => HouseShareKept
<1>1. TypeOK /\ UnitsExact /\ [Next]_vars
          => [house_share_ok => house_share_ok' \/ unlock_operator_position]_vars
  BY HouseShareStep
<1>2. QED BY <1>1, LpInvariant, PTL DEF Spec, HouseShareKept

-----------------------------------------------------------------------------
(* Dilution *)

\* Units bought at the rounded price leave the others' assets per unit alone:
\* (assets + amount) / (total + minted) >= assets / total.
LEMMA DepositKeepsPrice ==
  ASSUME TypeOK, NEW amount \in Nat, priced(amount)
  PROVE  assets * (total_units + deposit_to_units(amount, assets, total_units))
             <= (assets + amount) * total_units \/ total_units = 0
<1> SUFFICES ASSUME total_units # 0
             PROVE  assets * (total_units + deposit_to_units(amount, assets, total_units))
                        <= (assets + amount) * total_units
  OBVIOUS
<1> DEFINE minted == mul_div_floor(amount, total_units, assets)
<1>1. assets \in Nat \ {0} /\ total_units \in Nat BY DEF TypeOK, priced
<1>2. deposit_to_units(amount, assets, total_units) = minted BY DEF deposit_to_units
<1>3. minted \in Nat /\ minted * assets <= amount * total_units BY <1>1, MulDivNat, MulDivFloor
<1> HIDE DEF minted
<1>4. /\ assets * (total_units + minted) = assets * total_units + minted * assets
      /\ (assets + amount) * total_units = assets * total_units + amount * total_units
  BY <1>1, <1>3
<1>5. /\ assets * total_units \in Nat /\ minted * assets \in Nat /\ amount * total_units \in Nat
  BY <1>1, <1>3
<1>6. QED BY <1>2, <1>3, <1>4, <1>5

\* So do units that are burnt for at most their rounded value.
LEMMA PaymentKeepsPrice ==
  ASSUME NEW a \in Nat, NEW t \in Nat, NEW u \in Nat, u <= t, NEW out \in Nat, out <= a,
         out <= units_to_assets(u, a, t)
  PROVE  a * (t - u) <= (a - out) * t
<1> DEFINE value == units_to_assets(u, a, t)
<1>1. value \in Nat /\ value * t <= u * a
  <2>1. CASE t = 0 \/ u = 0
    <3>1. value = 0 BY <2>1 DEF units_to_assets
    <3>2. QED BY <3>1
  <2>2. CASE t # 0 /\ u # 0
    <3>1. value = mul_div_floor(u, a, t) BY <2>2 DEF units_to_assets
    <3>2. QED BY <2>2, <3>1, MulDivNat, MulDivFloor
  <2>3. QED BY <2>1, <2>2
<1>2. out <= value OBVIOUS
<1> HIDE DEF value
<1>3. out * t <= value * t BY <1>1, <1>2, TimesMonotone
<1>4. a * (t - u) = a * t - u * a /\ (a - out) * t = a * t - out * t OBVIOUS
<1>5. a * t \in Nat /\ u * a \in Nat /\ out * t \in Nat /\ value * t \in Nat BY <1>1
<1>6. QED BY <1>1, <1>3, <1>4, <1>5

LEMMA HeldBelowTotal ==
  TypeOK /\ UnitsExact => \A u \in Users : position[u].units + position[u].pending <= total_units
<1> SUFFICES ASSUME TypeOK, UnitsExact, NEW u \in Users
             PROVE  position[u].units + position[u].pending <= total_units
  OBVIOUS
<1>1. /\ position[u].units + position[u].pending <= Total(Held, N) /\ Total(Held, N) \in Nat
  BY SumsBound
<1>2. total_units = operator_units + Total(Held, N) /\ operator_units \in Nat
  BY ExactParts DEF TypeOK, Holder, operator_units
<1>3. position[u].units + position[u].pending \in Nat BY DEF TypeOK, Holder
<1>4. QED BY <1>1, <1>2, <1>3

LEMMA HeldBelowTotalNext ==
  (TypeOK /\ UnitsExact)'
      => (\A u \in Users : position[u].units + position[u].pending <= total_units)'
BY HeldBelowTotal, PTL

\* A trade of units never lowers the assets per unit.
LEMMA PriceKept ==
  ASSUME TypeOK, UnitsExact, UnitStep
  PROVE  assets * total_units' <= assets' * total_units \/ total_units = 0
<1> USE LpAssumption
<1>1. assets \in Nat /\ total_units \in Nat BY DEF TypeOK
<1>2. ASSUME assets' = assets, total_units' = total_units
      PROVE  assets * total_units' <= assets' * total_units
  <2>1. assets * total_units \in Nat BY <1>1
  <2>2. QED BY <1>2, <2>1
<1>3. ASSUME NEW amount \in Amounts, priced(amount), assets' = assets + amount,
             total_units' = total_units + deposit_to_units(amount, assets, total_units)
      PROVE  assets * total_units' <= assets' * total_units \/ total_units = 0
  BY <1>3, DepositKeepsPrice
<1>4. ASSUME NEW units \in Nat, units <= total_units, NEW out \in Nat, out <= assets,
             out <= units_to_assets(units, assets, total_units),
             assets' = assets - out, total_units' = total_units - units
      PROVE  assets * total_units' <= assets' * total_units
  BY <1>1, <1>4, PaymentKeepsPrice
<1>5. CASE \E amount \in Amounts : house_deposit(amount) \/ \E u \in Users : lp_deposit(u, amount)
  BY <1>3, <1>5 DEF house_deposit, lp_deposit
<1>6. CASE \E u \in Users : cancel_withdraw(u) \/ \E units \in Asks : request_withdraw(u, units)
  BY <1>2, <1>6 DEF cancel_withdraw, request_withdraw
<1>7. ASSUME NEW u \in Users, complete_withdraw(u) PROVE assets * total_units' <= assets' * total_units
  <2> DEFINE units == position[u].pending
             out == units_to_assets(units, assets, total_units)
  <2>1. units \in Nat BY DEF TypeOK, Holder
  <2>2. out \in Nat BY <1>1, <2>1, UnitsToAssetsNat
  <2>3. units <= total_units /\ out <= assets /\ assets' = assets - out
        /\ total_units' = total_units - units
    BY <1>7, <2>1, <1>1 DEF complete_withdraw, withdrawal_value
  <2> HIDE DEF units
  <2>4. out <= units_to_assets(units, assets, total_units) BY <2>2
  <2> HIDE DEF out
  <2>5. QED BY <1>4, <2>1, <2>2, <2>3, <2>4
<1>8. CASE \E units \in Asks : house_request_withdraw(units)
  BY <1>2, <1>8 DEF house_request_withdraw
<1>9. CASE house_cancel_withdraw BY <1>2, <1>9 DEF house_cancel_withdraw
<1>10. CASE house_complete_withdraw
  <2> DEFINE units == house.pending
             out == units_to_assets(units, assets, total_units)
  <2>1. units \in Nat BY DEF TypeOK, Holder
  <2>2. out \in Nat BY <1>1, <2>1, UnitsToAssetsNat
  <2>3. units <= total_units /\ out <= assets /\ assets' = assets - out
        /\ total_units' = total_units - units
    BY <1>10, <2>1, <1>1 DEF house_complete_withdraw, withdrawal_value
  <2> HIDE DEF units
  <2>4. out <= units_to_assets(units, assets, total_units) BY <2>2
  <2> HIDE DEF out
  <2>5. QED BY <1>4, <2>1, <2>2, <2>3, <2>4
<1>11. CASE unlock_operator_position
  <2> DEFINE units == operator_units
             value == units_to_assets(units, assets, total_units)
             owed == units_to_assets(total_pending_units, assets, total_units)
             rest == saturating_sub(assets, outstanding)
             free == saturating_sub(rest, owed)
             out == min2(value, free)
  <2>1. units \in Nat BY DEF TypeOK, Holder, operator_units
  <2>2. value \in Nat /\ owed \in Nat BY <1>1, <2>1, UnitsToAssetsNat DEF TypeOK
  <2>3. rest \in Nat /\ rest <= assets BY SaturatingSub DEF TypeOK
  <2>4. assets' = assets - out /\ total_units' = total_units - units
        /\ total_units - units >= 0
    BY <1>11 DEF unlock_operator_position
  <2> HIDE DEF units, value, owed, rest
  <2>5. free \in Nat /\ free <= rest BY <2>2, <2>3, SaturatingSub
  <2> HIDE DEF free
  <2>6. out \in Nat /\ out <= value /\ out <= free BY <2>2, <2>5, Min2
  <2> HIDE DEF out
  <2>7. units <= total_units /\ out <= assets BY <1>1, <2>1, <2>3, <2>4, <2>5, <2>6
  <2>8. QED BY <1>4, <2>1, <2>4, <2>6, <2>7 DEF value
<1>12. QED BY <1>5, <1>6, <1>7, <1>8, <1>9, <1>10, <1>11 DEF UnitStep

\* No trade of units lowers what somebody else's units are worth: deposits are
\* priced before the lamports arrive, payments before the units are burnt, and
\* the operator may be paid less than its share.
THEOREM NobodyGetsDiluted == Spec => NobodyIsDiluted
<1> DEFINE Undiluted == \A u \in Users :
               position'[u].units + position'[u].pending = position[u].units + position[u].pending
                   => worth(u)' >= worth(u)
<1>1. TypeOK /\ UnitsExact /\ (TypeOK /\ UnitsExact)' /\ UnitStep => Undiluted
  <2> SUFFICES ASSUME TypeOK, UnitsExact, (TypeOK /\ UnitsExact)', UnitStep, NEW u \in Users,
                      position'[u].units + position'[u].pending
                          = position[u].units + position[u].pending
               PROVE  worth(u)' >= worth(u)
    OBVIOUS
  <2> DEFINE held == position[u].units + position[u].pending
  <2>1. held \in Nat /\ assets \in Nat /\ total_units \in Nat /\ assets' \in Nat /\ total_units' \in Nat
    BY DEF TypeOK, Holder
  <2>2. held <= total_units' BY HeldBelowTotalNext
  <2>3. held <= total_units BY HeldBelowTotal
  <2>4. worth(u) = units_to_assets(held, assets, total_units)
        /\ worth(u)' = units_to_assets(held, assets', total_units')
    BY DEF worth
  <2> HIDE DEF held
  <2>5. CASE total_units = 0
    <3>1. worth(u) = 0 BY <2>4, <2>5 DEF units_to_assets
    <3>2. worth(u)' \in Nat BY <2>1, <2>4, UnitsToAssetsNat
    <3>3. QED BY <3>1, <3>2
  <2>6. CASE total_units # 0
    <3>1. assets * total_units' <= assets' * total_units BY <2>6, PriceKept
    <3>2. units_to_assets(held, assets, total_units) <= units_to_assets(held, assets', total_units')
      BY <2>1, <2>2, <3>1, ValueKept
    <3>3. worth(u) \in Nat /\ worth(u)' \in Nat BY <2>1, <2>4, UnitsToAssetsNat
    <3>4. QED BY <2>4, <3>2, <3>3
  <2>7. QED BY <2>5, <2>6
<1>2. TypeOK /\ UnitsExact /\ [Next]_vars => (TypeOK /\ UnitsExact)'
  BY NextLpTypeOK, NextUnitsExact
<1>3. TypeOK /\ UnitsExact /\ [Next]_vars => [UnitStep => Undiluted]_vars
  <2> HIDE DEF Undiluted
  <2>1. QED BY <1>1, <1>2
<1>4. Spec => [][UnitStep => Undiluted]_vars
  <2> HIDE DEF Undiluted
  <2>1. QED BY <1>3, LpInvariant, PTL DEF Spec
<1>5. QED BY <1>4 DEF NobodyIsDiluted

-----------------------------------------------------------------------------
(* The administration of the vault *)

AdminInv == AdminTypeOK /\ AllowlistExact /\ ProposalIsOwners

\* An empty list approves nobody.
LEMMA InitEstablishes == AdminInit => AdminInv
<1> SUFFICES ASSUME AdminInit PROVE AdminInv OBVIOUS
<1> USE AdminAssumption
<1>1. AdminTypeOK BY DEF AdminInit, AdminTypeOK, Addresses
<1>2. 1..count = {} /\ (count + 1)..MAX_ALLOWLIST \subseteq Slots BY DEF AdminInit, Slots
<1>3. AllowlistExact BY <1>2 DEF AdminInit, AllowlistExact, is_allowlisted
<1>4. ProposalIsOwners BY DEF AdminInit, ProposalIsOwners
<1>5. QED BY <1>1, <1>3, <1>4 DEF AdminInv

\* A new address goes behind the used slots.
LEMMA AddPreserves ==
  ASSUME AdminInv, NEW signer \in Signers, NEW address \in Addresses, allowlist_add(signer, address)
  PROVE  AdminInv'
<1> USE AdminAssumption DEF AdminInv, Slots
<1>1. count \in Nat /\ count < MAX_ALLOWLIST /\ count + 1 \in 1..MAX_ALLOWLIST /\ count' = count + 1
  BY DEF allowlist_add, has_room, AdminTypeOK
<1>2. slots' = [slots EXCEPT ![count + 1] = address] /\ approved' = approved \cup {address}
      /\ UNCHANGED ownerVars
  BY DEF allowlist_add
<1>3. AdminTypeOK' BY <1>1, <1>2 DEF AdminTypeOK, ownerVars
<1>4. \A i \in 1..MAX_ALLOWLIST : slots'[i] = IF i = count + 1 THEN address ELSE slots[i]
  BY <1>1, <1>2 DEF AdminTypeOK
<1>5. \A i \in 1..count : slots[i] # address BY DEF allowlist_add, is_allowlisted
<1>6. 1..count' = 1..count \cup {count + 1} /\ 1..count' \subseteq 1..MAX_ALLOWLIST BY <1>1
<1>7. \A i \in 1..count : slots'[i] = slots[i] BY <1>1, <1>4
<1>8. slots'[count + 1] = address BY <1>1, <1>4
<1>9. ASSUME NEW x \in Addresses
      PROVE  (\E i \in 1..count' : slots'[i] = x) <=> x \in approved'
  <2>1. (\E i \in 1..count : slots[i] = x) <=> x \in approved BY DEF AllowlistExact, is_allowlisted
  <2>2. (\E i \in 1..count' : slots'[i] = x) <=> (\E i \in 1..count : slots[i] = x) \/ x = address
    BY <1>6, <1>7, <1>8
  <2>3. QED BY <1>2, <2>1, <2>2
<1>10. ASSUME NEW i \in 1..count', NEW j \in 1..count', slots'[i] = slots'[j] PROVE i = j
  BY <1>5, <1>6, <1>7, <1>8, <1>10 DEF AllowlistExact
<1>11. ASSUME NEW i \in (count' + 1)..MAX_ALLOWLIST PROVE slots'[i] = ZERO
  BY <1>1, <1>4 DEF AllowlistExact
<1>12. AllowlistExact' BY <1>9, <1>10, <1>11 DEF AllowlistExact, is_allowlisted
<1>13. ProposalIsOwners' BY <1>2 DEF ProposalIsOwners, ownerVars
<1>14. QED BY <1>3, <1>12, <1>13

\* Moving the last entry into the gap loses the removed address and no other:
\* entries are distinct, so the gap was its only place.
LEMMA RemovePreserves ==
  ASSUME AdminInv, NEW signer \in Signers, NEW address \in Addresses, allowlist_remove(signer, address)
  PROVE  AdminInv'
<1> USE AdminAssumption DEF AdminInv, Slots
<1>1. PICK idx \in 1..count : slots[idx] = address /\ slots' = without(idx)
  BY DEF allowlist_remove
<1>2. count \in Nat /\ count <= MAX_ALLOWLIST /\ count' = count - 1 /\ count \in 1..MAX_ALLOWLIST
      /\ idx \in 1..MAX_ALLOWLIST /\ approved' = approved \ {address} /\ UNCHANGED ownerVars
  BY <1>1 DEF allowlist_remove, AdminTypeOK
<1>3. \A i \in 1..MAX_ALLOWLIST :
        slots'[i] = IF i = count THEN ZERO ELSE IF i = idx THEN slots[count] ELSE slots[i]
  BY <1>1, <1>2 DEF AdminTypeOK, without
<1>4. AdminTypeOK'
  <2>1. slots' \in [1..MAX_ALLOWLIST -> Addresses] BY <1>1, <1>2 DEF AdminTypeOK, without, Addresses
  <2>2. QED BY <1>2, <2>1 DEF AdminTypeOK, ownerVars
<1>5. 1..count' = 1..count \ {count} BY <1>2
<1>6. \A i \in 1..count' : slots'[i] = IF i = idx THEN slots[count] ELSE slots[i]
  BY <1>2, <1>3, <1>5
<1>7. \A i, j \in 1..count : slots[i] = slots[j] => i = j BY DEF AllowlistExact
<1>8. ASSUME NEW x \in Addresses
      PROVE  (\E i \in 1..count' : slots'[i] = x) <=> x \in approved'
  <2>1. (\E i \in 1..count : slots[i] = x) <=> x \in approved BY DEF AllowlistExact, is_allowlisted
  <2>2. ASSUME NEW i \in 1..count', slots'[i] = x PROVE x \in approved'
    <3>1. i \in 1..count /\ i # count /\ count \in 1..count BY <1>2, <1>5
    <3>2. x # address BY <1>1, <1>6, <1>7, <2>2, <3>1
    <3>3. x \in approved BY <1>6, <2>1, <2>2, <3>1
    <3>4. QED BY <1>2, <3>2, <3>3
  <2>3. ASSUME x \in approved' PROVE \E i \in 1..count' : slots'[i] = x
    <3>1. x \in approved /\ x # address BY <1>2, <2>3
    <3>2. PICK i \in 1..count : slots[i] = x BY <2>1, <3>1
    <3>3. i # idx BY <1>1, <3>1, <3>2
    <3>4. CASE i = count
      <4>1. idx \in 1..count' BY <1>1, <1>5, <3>3, <3>4
      <4>2. QED BY <1>6, <3>2, <3>4, <4>1
    <3>5. CASE i # count
      <4>1. i \in 1..count' BY <1>5, <3>5
      <4>2. QED BY <1>6, <3>2, <3>3, <4>1
    <3>6. QED BY <3>4, <3>5
  <2>4. QED BY <2>2, <2>3
<1>9. ASSUME NEW i \in 1..count', NEW j \in 1..count', slots'[i] = slots'[j] PROVE i = j
  <2>1. i \in 1..count /\ i # count /\ j \in 1..count /\ j # count /\ count \in 1..count BY <1>2, <1>5
  <2>2. QED BY <1>6, <1>7, <1>9, <2>1
<1>10. ASSUME NEW i \in (count' + 1)..MAX_ALLOWLIST PROVE slots'[i] = ZERO
  <2>1. i \in 1..MAX_ALLOWLIST /\ (i = count \/ i \in (count + 1)..MAX_ALLOWLIST) /\ (i # count => i # idx)
    BY <1>1, <1>2
  <2>2. QED BY <1>3, <2>1 DEF AllowlistExact
<1>11. AllowlistExact' BY <1>8, <1>9, <1>10 DEF AllowlistExact, is_allowlisted
<1>12. ProposalIsOwners' BY <1>2 DEF ProposalIsOwners, ownerVars
<1>13. QED BY <1>4, <1>11, <1>12

\* A step that leaves the list alone leaves its exactness alone.
LEMMA ListKept ==
  ASSUME AllowlistExact, UNCHANGED listVars
  PROVE  AllowlistExact'
BY DEF AllowlistExact, listVars, is_allowlisted

\* The allowlist is exactly what owners approved, and a pending proposal is the
\* present owner's, after any sequence of administrative instructions.
THEOREM AdminInvariant == AdminSpec => []AdminInv
<1>1. ASSUME AdminInv, [AdminNext]_adminVars PROVE AdminInv'
  <2> USE <1>1, AdminAssumption
  <2>1. ASSUME NEW signer \in Signers, NEW new_owner \in Addresses, propose_owner(signer, new_owner)
        PROVE  AdminInv'
    <3>1. AdminTypeOK' /\ ProposalIsOwners' /\ UNCHANGED listVars
      BY <2>1 DEF AdminInv, AdminTypeOK, ProposalIsOwners, propose_owner, listVars, Addresses
    <3>2. QED BY <3>1, ListKept DEF AdminInv
  <2>2. ASSUME NEW signer \in Signers, cancel_proposed_owner(signer) PROVE AdminInv'
    <3>1. AdminTypeOK' /\ ProposalIsOwners' /\ UNCHANGED listVars
      BY <2>2 DEF AdminInv, AdminTypeOK, ProposalIsOwners, cancel_proposed_owner, listVars, Addresses
    <3>2. QED BY <3>1, ListKept DEF AdminInv
  <2>3. ASSUME NEW signer \in Signers, accept_ownership(signer) PROVE AdminInv'
    <3>1. AdminTypeOK' /\ ProposalIsOwners' /\ UNCHANGED listVars
      BY <2>3 DEF AdminInv, AdminTypeOK, ProposalIsOwners, accept_ownership, proposal_after, listVars, Addresses
    <3>2. QED BY <3>1, ListKept DEF AdminInv
  <2>4. CASE UNCHANGED adminVars
    <3>1. AdminTypeOK' /\ ProposalIsOwners' /\ UNCHANGED listVars
      BY <2>4 DEF AdminInv, AdminTypeOK, ProposalIsOwners, adminVars, listVars
    <3>2. QED BY <3>1, ListKept DEF AdminInv
  <2>5. QED BY <2>1, <2>2, <2>3, <2>4, AddPreserves, RemovePreserves DEF AdminNext, AdminStep
<1>2. QED BY <1>1, InitEstablishes, PTL DEF AdminSpec

\* Destinations are paid exactly if approved (is_allowlisted, allowlist_add,
\* allowlist_remove).
THEOREM AllowlistStaysExact == AdminSpec => []AllowlistExact
BY AdminInvariant, PTL DEF AdminInv

\* A pending proposal is the present owner's (propose_owner, accept_ownership).
THEOREM ProposalStaysOwners == AdminSpec => []ProposalIsOwners
BY AdminInvariant, PTL DEF AdminInv

-----------------------------------------------------------------------------
(* The mirror of an LP's position *)

Transaction == [kind: Kinds, units: Nat, lamports: Nat, slot: Nat]
Position == [units: Int, pending: Int, deposited: Int, withdrawn: Int]

\* A transaction of the chain, and a position after it.
LEMMA ChainEntry ==
  ASSUME NEW s \in Sigs
  PROVE  Chain[s] \in Transaction
<1>1. Chain \in Seq(Transaction) BY ChainAssumption DEF Transaction
<1>2. QED BY <1>1 DEF Sigs

LEMMA ExecutedPosition ==
  ASSUME NEW p \in Position, NEW ev \in Transaction
  PROVE  executed(p, ev) \in Position
<1>1. ev.kind \in Kinds /\ ev.units \in Int /\ ev.lamports \in Int BY DEF Transaction
<1>2. p.units + ev.units \in Int /\ p.units - ev.units \in Int /\ p.deposited + ev.lamports \in Int
      /\ p.withdrawn + ev.lamports \in Int /\ 0 \in Int
  BY <1>1 DEF Position
<1>3. CASE ev.kind = "deposit"
  <2>1. executed(p, ev) = [p EXCEPT !.units = @ + ev.units, !.deposited = @ + ev.lamports] BY <1>3 DEF executed
  <2>2. QED BY <1>2, <2>1 DEF Position
<1>4. CASE ev.kind = "request"
  <2>1. executed(p, ev) = [p EXCEPT !.units = @ - ev.units, !.pending = ev.units] BY <1>4 DEF executed
  <2>2. QED BY <1>1, <1>2, <2>1 DEF Position
<1>5. CASE ev.kind = "cancel"
  <2>1. executed(p, ev) = [p EXCEPT !.units = @ + ev.units, !.pending = 0] BY <1>5 DEF executed
  <2>2. QED BY <1>2, <2>1 DEF Position
<1>6. CASE ev.kind = "complete"
  <2>1. executed(p, ev) = [p EXCEPT !.pending = 0, !.withdrawn = @ + ev.lamports] BY <1>6 DEF executed
  <2>2. QED BY <1>2, <2>1 DEF Position
<1>7. QED BY <1>1, <1>3, <1>4, <1>5, <1>6 DEF Kinds

\* g holds the positions up to n.
Positions(g, n) ==
    /\ g \in [0..n -> Position]
    /\ g[0] = no_position
    /\ \A i \in 1..n : g[i] = executed(g[i-1], Chain[i])

LEMMA PositionsExtend ==
  ASSUME NEW n \in Sigs, NEW g, Positions(g, n - 1)
  PROVE  \E h : Positions(h, n)
<1> DEFINE h == [i \in 0..n |-> IF i = n THEN executed(g[n-1], Chain[n]) ELSE g[i]]
<1>0. n \in Nat \ {0} /\ n - 1 \in 0..(n-1) BY DEF Sigs
<1>1. g[n-1] \in Position BY <1>0 DEF Positions
<1>2. executed(g[n-1], Chain[n]) \in Position BY <1>1, ChainEntry, ExecutedPosition
<1>3. h \in [0..n -> Position]
  <2>1. ASSUME NEW i \in 0..n PROVE h[i] \in Position
    <3>1. CASE i = n BY <3>1, <1>2
    <3>2. CASE i # n
      <4>1. i \in 0..(n-1) BY <3>2, <1>0
      <4>2. g[i] \in Position BY <4>1 DEF Positions
      <4>3. QED BY <3>2, <4>2
    <3>3. QED BY <3>1, <3>2
  <2>2. QED BY <2>1
<1>4. h[0] = no_position BY <1>0 DEF Positions
<1>5. ASSUME NEW i \in 1..n PROVE h[i] = executed(h[i-1], Chain[i])
  <2>1. i - 1 \in 0..(n-1) /\ i - 1 # n /\ i - 1 \in 0..n BY <1>0
  <2>2. h[i-1] = g[i-1] BY <2>1
  <2>3. CASE i = n BY <2>2, <2>3
  <2>4. CASE i # n
    <3>1. i \in 1..(n-1) BY <2>4, <1>0
    <3>2. g[i] = executed(g[i-1], Chain[i]) BY <3>1 DEF Positions
    <3>3. h[i] = g[i] BY <2>4
    <3>4. QED BY <2>2, <3>2, <3>3
  <2>5. QED BY <2>3, <2>4
<1>6. Positions(h, n) BY <1>3, <1>4, <1>5 DEF Positions
<1>7. QED BY <1>6

LEMMA PositionsExist == \E g : Positions(g, Len(Chain))
<1>0. Len(Chain) \in Nat BY ChainAssumption
<1> DEFINE Bad == {m \in 0..Len(Chain) : ~ \E g : Positions(g, m)}
<1>1. SUFFICES ASSUME Bad # {} PROVE FALSE
  <2>1. Len(Chain) \in 0..Len(Chain) BY <1>0
  <2>2. QED BY <1>1, <2>1
<1>2. PICK m \in Bad : \A k \in Bad : m <= k
  <2>1. Bad \subseteq Nat BY <1>0
  <2>2. QED BY <1>1, <2>1, NatMin
<1>3. m # 0
  <2>1. no_position \in Position BY DEF no_position, Position
  <2>2. Positions([i \in 0..0 |-> no_position], 0) BY <2>1 DEF Positions
  <2>3. QED BY <2>2, <1>2
<1>4. m - 1 \in 0..Len(Chain) /\ m - 1 \notin Bad /\ m \in Sigs
  BY <1>0, <1>2, <1>3 DEF Sigs
<1>5. PICK g : Positions(g, m - 1) BY <1>4
<1>6. \E h : Positions(h, m) BY <1>4, <1>5, PositionsExtend
<1>7. QED BY <1>2, <1>6

\* The recursive function of LpMirror is that function.
LEMMA OnchainPositions == Positions(onchain, Len(Chain))
<1>0. Len(Chain) \in Nat BY ChainAssumption
<1>1. PICK g : Positions(g, Len(Chain)) BY PositionsExist
<1>2. g = [n \in 0..Len(Chain) |-> IF n = 0 THEN no_position ELSE executed(g[n - 1], Chain[n])]
  <2>1. ASSUME NEW n \in 0..Len(Chain)
        PROVE  g[n] = IF n = 0 THEN no_position ELSE executed(g[n - 1], Chain[n])
    <3>1. CASE n = 0 BY <1>1, <3>1 DEF Positions
    <3>2. CASE n # 0
      <4>1. n \in 1..Len(Chain) BY <1>0, <3>2
      <4>2. QED BY <1>1, <3>2, <4>1 DEF Positions
    <3>3. QED BY <3>1, <3>2
  <2>2. g \in [0..Len(Chain) -> Position] BY <1>1 DEF Positions
  <2>3. QED BY <2>1, <2>2
<1>3. onchain = [n \in 0..Len(Chain) |-> IF n = 0 THEN no_position ELSE executed(onchain[n - 1], Chain[n])]
  BY <1>2 DEF onchain
<1>4. onchain[0] = no_position BY <1>0, <1>3
<1>5. ASSUME NEW i \in 1..Len(Chain) PROVE onchain[i] = executed(onchain[i-1], Chain[i])
  <2>1. i \in 0..Len(Chain) /\ i # 0 BY <1>0
  <2>2. QED BY <1>3, <2>1
<1>6. onchain \in [0..Len(Chain) -> Position]
  <2> DEFINE Bad == {m \in 0..Len(Chain) : onchain[m] \notin Position}
  <2>1. SUFFICES Bad = {} BY <1>3
  <2>2. SUFFICES ASSUME Bad # {} PROVE FALSE OBVIOUS
  <2>3. PICK m \in Bad : \A k \in Bad : m <= k
    <3>1. Bad \subseteq Nat BY <1>0
    <3>2. QED BY <2>2, <3>1, NatMin
  <2>4. m # 0
    <3>1. no_position \in Position BY DEF no_position, Position
    <3>2. QED BY <3>1, <2>3, <1>4
  <2>5. m - 1 \in 0..Len(Chain) /\ m - 1 \notin Bad /\ m \in 1..Len(Chain) BY <1>0, <2>3, <2>4
  <2>6. onchain[m-1] \in Position BY <2>5
  <2>7. Chain[m] \in Transaction BY <2>5, ChainEntry DEF Sigs
  <2>8. onchain[m] \in Position BY <1>5, <2>5, <2>6, <2>7, ExecutedPosition
  <2>9. QED BY <2>3, <2>8
<1>7. QED BY <1>4, <1>5, <1>6 DEF Positions

HeldPosition == [units: Nat, pending: Nat, deposited: Nat, withdrawn: Nat]

\* What the program executed never leaves a position negative.
LEMMA OnchainHeld == \A n \in 0..Len(Chain) : onchain[n] \in HeldPosition
<1>0. Len(Chain) \in Nat BY ChainAssumption
<1> DEFINE Bad == {m \in 0..Len(Chain) : onchain[m] \notin HeldPosition}
<1>1. SUFFICES ASSUME Bad # {} PROVE FALSE OBVIOUS
<1>2. PICK m \in Bad : \A k \in Bad : m <= k
  <2>1. Bad \subseteq Nat BY <1>0
  <2>2. QED BY <1>1, <2>1, NatMin
<1>3. m # 0
  <2>1. no_position \in HeldPosition BY DEF no_position, HeldPosition
  <2>2. QED BY <2>1, <1>2, OnchainPositions DEF Positions
<1>4. m - 1 \in 0..Len(Chain) /\ m - 1 \notin Bad /\ m \in 1..Len(Chain) /\ m \in Sigs
  BY <1>0, <1>2, <1>3 DEF Sigs
<1>5. onchain[m-1] \in HeldPosition BY <1>4
<1>6. Chain[m] \in Transaction BY <1>4, ChainEntry
<1>7. allowed(onchain[m-1], Chain[m]) BY <1>4, ChainAssumption
<1>8. onchain[m] = executed(onchain[m-1], Chain[m]) BY <1>4, OnchainPositions DEF Positions
<1>9. executed(onchain[m-1], Chain[m]) \in HeldPosition
  <2> DEFINE p == onchain[m-1]
             ev == Chain[m]
  <2>1. p \in HeldPosition /\ ev \in Transaction /\ allowed(p, ev) BY <1>5, <1>6, <1>7
  <2>0. SUFFICES executed(p, ev) \in HeldPosition OBVIOUS
  <2> HIDE DEF p, ev
  <2>2. ev.kind \in Kinds /\ ev.units \in Nat /\ ev.lamports \in Nat BY <2>1 DEF Transaction
  <2>3. p.units + ev.units \in Nat /\ p.deposited + ev.lamports \in Nat /\ p.withdrawn + ev.lamports \in Nat /\ 0 \in Nat
    <3>1. p.units \in Nat /\ p.deposited \in Nat /\ p.withdrawn \in Nat BY <2>1 DEF HeldPosition
    <3>2. \A a, b \in Nat : a + b \in Nat /\ 0 \in Nat OBVIOUS
    <3>3. QED BY <2>2, <3>1, <3>2
  <2>4. CASE ev.kind = "deposit"
    <3>1. executed(p, ev) = [p EXCEPT !.units = @ + ev.units, !.deposited = @ + ev.lamports] BY <2>4 DEF executed
    <3>2. QED BY <2>1, <2>3, <3>1 DEF HeldPosition
  <2>5. CASE ev.kind = "request"
    <3>1. ev.units <= p.units BY <2>1, <2>5 DEF allowed
    <3>2. p.units - ev.units \in Nat BY <2>1, <2>2, <3>1 DEF HeldPosition
    <3>3. executed(p, ev) = [p EXCEPT !.units = @ - ev.units, !.pending = ev.units] BY <2>5 DEF executed
    <3>4. QED BY <2>1, <2>2, <3>2, <3>3 DEF HeldPosition
  <2>6. CASE ev.kind = "cancel"
    <3>1. executed(p, ev) = [p EXCEPT !.units = @ + ev.units, !.pending = 0] BY <2>6 DEF executed
    <3>2. QED BY <2>1, <2>3, <3>1 DEF HeldPosition
  <2>7. CASE ev.kind = "complete"
    <3>1. executed(p, ev) = [p EXCEPT !.pending = 0, !.withdrawn = @ + ev.lamports] BY <2>7 DEF executed
    <3>2. QED BY <2>1, <2>3, <3>1 DEF HeldPosition
  <2>8. QED BY <2>2, <2>4, <2>5, <2>6, <2>7 DEF Kinds
<1>10. QED BY <1>2, <1>8, <1>9

\* What a transaction adds to the totals.
LEMMA ExecutedTotals ==
  ASSUME NEW p \in Position, NEW ev \in Transaction
  PROVE  /\ executed(p, ev).deposited = p.deposited + (IF ev.kind = "deposit" THEN ev.lamports ELSE 0)
         /\ executed(p, ev).withdrawn = p.withdrawn + (IF ev.kind = "complete" THEN ev.lamports ELSE 0)
<1>1. ev.kind \in Kinds /\ ev.lamports \in Int BY DEF Transaction
<1>2. p.deposited \in Int /\ p.withdrawn \in Int BY DEF Position
<1>3. CASE ev.kind = "deposit"
  <2>1. executed(p, ev) = [p EXCEPT !.units = @ + ev.units, !.deposited = @ + ev.lamports] BY <1>3 DEF executed
  <2>2. QED BY <1>1, <1>2, <1>3, <2>1 DEF Position
<1>4. CASE ev.kind = "request"
  <2>1. executed(p, ev) = [p EXCEPT !.units = @ - ev.units, !.pending = ev.units] BY <1>4 DEF executed
  <2>2. QED BY <1>1, <1>2, <1>4, <2>1 DEF Position
<1>5. CASE ev.kind = "cancel"
  <2>1. executed(p, ev) = [p EXCEPT !.units = @ + ev.units, !.pending = 0] BY <1>5 DEF executed
  <2>2. QED BY <1>1, <1>2, <1>5, <2>1 DEF Position
<1>6. CASE ev.kind = "complete"
  <2>1. executed(p, ev) = [p EXCEPT !.pending = 0, !.withdrawn = @ + ev.lamports] BY <1>6 DEF executed
  <2>2. QED BY <1>1, <1>2, <1>6, <2>1 DEF Position
<1>7. QED BY <1>1, <1>3, <1>4, <1>5, <1>6 DEF Kinds

\* The lamports of the transactions that were seen and are of the kind.
lamports_of(seen, kind) == [s \in Sigs |-> IF s \in seen /\ Chain[s].kind = kind THEN Chain[s].lamports ELSE 0]

LEMMA LamportsOf ==
  ASSUME NEW seen, NEW kind
  PROVE  /\ lamports_of(seen, kind) \in [1..Len(Chain) -> Nat]
         /\ total_of(seen, kind) = Total(lamports_of(seen, kind), Len(Chain))
         /\ total_of(seen, kind) \in Nat
<1>1. ASSUME NEW s \in Sigs PROVE lamports_of(seen, kind)[s] \in Nat
  <2>1. Chain[s].lamports \in Nat BY ChainEntry DEF Transaction
  <2>2. QED BY <2>1 DEF lamports_of
<1>2. lamports_of(seen, kind) \in [Sigs -> Nat] BY <1>1 DEF lamports_of
<1>3. total_of(seen, kind) = Total(lamports_of(seen, kind), Len(Chain)) BY DEF total_of, lamports_of
<1>4. lamports_of(seen, kind) \in [1..Len(Chain) -> Nat] BY <1>2 DEF Sigs
<1>5. Len(Chain) \in Nat BY ChainAssumption
<1>6. QED BY <1>3, <1>4, <1>5, TotalNat

\* One transaction more.
LEMMA TotalOfNext ==
  ASSUME NEW n \in Sigs, NEW kind
  PROVE  /\ total_of(1..(n-1), kind) \in Nat
         /\ total_of(1..n, kind) = total_of(1..(n-1), kind) + (IF Chain[n].kind = kind THEN Chain[n].lamports ELSE 0)
<1>0. Len(Chain) \in Nat /\ n \in 1..Len(Chain) BY ChainAssumption DEF Sigs
<1> DEFINE f == lamports_of(1..(n-1), kind)
           h == lamports_of(1..n, kind)
<1>1. f \in [1..Len(Chain) -> Nat] /\ h \in [1..Len(Chain) -> Nat] BY LamportsOf
<1>2. total_of(1..(n-1), kind) = Total(f, Len(Chain)) /\ total_of(1..n, kind) = Total(h, Len(Chain))
  BY LamportsOf
<1>3. f[n] = 0 BY <1>0 DEF lamports_of
<1>4. h[n] = IF Chain[n].kind = kind THEN Chain[n].lamports ELSE 0 BY <1>0 DEF lamports_of
<1>5. ASSUME NEW i \in 1..Len(Chain) \ {n} PROVE h[i] = f[i]
  <2>1. i \in Sigs BY DEF Sigs
  <2>2. i \in 1..n <=> i \in 1..(n-1) BY <1>0
  <2>3. QED BY <2>1, <2>2 DEF lamports_of
<1> HIDE DEF f, h
<1>6. Total(h, Len(Chain)) = Total(f, Len(Chain)) - f[n] + h[n]
  BY <1>0, <1>1, <1>5, TotalUpdate
<1>7. Total(f, Len(Chain)) \in Nat BY <1>0, <1>1, TotalNat
<1>8. h[n] \in Nat BY <1>0, <1>1
<1>9. QED BY <1>2, <1>3, <1>4, <1>6, <1>7, <1>8

\* The totals of the repair are the totals on chain.
LEMMA TotalsOnchain ==
  \A n \in 0..Len(Chain) : /\ total_of(1..n, "deposit") = onchain[n].deposited
                           /\ total_of(1..n, "complete") = onchain[n].withdrawn
<1>0. Len(Chain) \in Nat BY ChainAssumption
<1> DEFINE Right(n) == /\ total_of(1..n, "deposit") = onchain[n].deposited
                       /\ total_of(1..n, "complete") = onchain[n].withdrawn
           Bad == {m \in 0..Len(Chain) : ~Right(m)}
<1>1. SUFFICES ASSUME Bad # {} PROVE FALSE OBVIOUS
<1>2. PICK m \in Bad : \A k \in Bad : m <= k
  <2>1. Bad \subseteq Nat BY <1>0
  <2> HIDE DEF Bad
  <2>2. QED BY <1>1, <2>1, NatMin
<1>3. Right(0)
  <2>1. onchain[0] = no_position BY OnchainPositions DEF Positions
  <2>2. ASSUME NEW kind PROVE total_of(1..0, kind) = 0
    <3>1. lamports_of(1..0, kind) \in [1..Len(Chain) -> Nat] BY LamportsOf
    <3>2. \A i \in 1..Len(Chain) : lamports_of(1..0, kind)[i] = 0 BY DEF lamports_of, Sigs
    <3>3. Total(lamports_of(1..0, kind), Len(Chain)) = 0 BY <1>0, <3>1, <3>2, TotalZero
    <3>4. QED BY <3>3, LamportsOf
  <2>3. QED BY <2>1, <2>2 DEF no_position
<1>4. m # 0 /\ ~Right(m) /\ m \in 0..Len(Chain) BY <1>2, <1>3
<1> HIDE DEF Right
<1>5. m - 1 \in 0..Len(Chain) /\ m \in Sigs /\ m \in 1..Len(Chain) BY <1>0, <1>4 DEF Sigs
<1>6. Right(m - 1) BY <1>2, <1>5
<1>7. onchain[m] = executed(onchain[m-1], Chain[m]) BY <1>5, OnchainPositions DEF Positions
<1>8. onchain[m-1] \in Position BY <1>5, OnchainPositions DEF Positions
<1>9. Chain[m] \in Transaction BY <1>5, ChainEntry
<1>10. /\ onchain[m].deposited = onchain[m-1].deposited + (IF Chain[m].kind = "deposit" THEN Chain[m].lamports ELSE 0)
       /\ onchain[m].withdrawn = onchain[m-1].withdrawn + (IF Chain[m].kind = "complete" THEN Chain[m].lamports ELSE 0)
  BY <1>7, <1>8, <1>9, ExecutedTotals
<1>11. /\ total_of(1..m, "deposit") = total_of(1..(m-1), "deposit") + (IF Chain[m].kind = "deposit" THEN Chain[m].lamports ELSE 0)
       /\ total_of(1..m, "complete") = total_of(1..(m-1), "complete") + (IF Chain[m].kind = "complete" THEN Chain[m].lamports ELSE 0)
  BY <1>5, TotalOfNext
<1>12. Right(m) BY <1>6, <1>10, <1>11 DEF Right
<1>13. QED BY <1>4, <1>12

\* The slot of the repair is that of the last deposit or completion.
LEMMA LastSlot ==
  ASSUME NEW n \in Sigs, NEW seen \in SUBSET (1..n)
  PROVE  /\ last_slot(seen) \in Nat
         /\ \A s \in seen : Chain[s].kind \in {"deposit", "complete"} => Chain[s].slot <= last_slot(seen)
<1> DEFINE SlotsSeen == {0} \cup {Chain[s].slot : s \in {t \in seen : Chain[t].kind \in {"deposit", "complete"}}}
           Bounds == {b \in Nat : \A x \in SlotsSeen : x <= b}
<1>0. Len(Chain) \in Nat /\ n \in 1..Len(Chain) BY ChainAssumption DEF Sigs
<1>1. \A s \in seen : s \in Sigs /\ Chain[s].slot \in Nat /\ Chain[s].slot <= Chain[n].slot
  <2>1. SUFFICES ASSUME NEW s \in seen
                 PROVE s \in Sigs /\ Chain[s].slot \in Nat /\ Chain[s].slot <= Chain[n].slot
    OBVIOUS
  <2>2. s \in Sigs /\ s <= n BY <1>0 DEF Sigs
  <2>3. Chain[s] \in Transaction BY <2>2, ChainEntry
  <2>4. Chain[s].slot \in Nat BY <2>3 DEF Transaction
  <2>5. \A r, t \in Sigs : r <= t => Chain[r].slot <= Chain[t].slot BY ChainAssumption
  <2>6. Chain[s].slot <= Chain[n].slot BY <2>2, <2>5
  <2>7. QED BY <2>2, <2>4, <2>6
<1>2. SlotsSeen \subseteq Nat
  <2>1. ASSUME NEW x \in SlotsSeen PROVE x \in Nat
    <3>1. CASE x = 0 BY <3>1
    <3>2. CASE x # 0
      <4>1. PICK s \in seen : x = Chain[s].slot BY <3>2
      <4>2. QED BY <1>1, <4>1
    <3>3. QED BY <3>1, <3>2
  <2> HIDE DEF SlotsSeen
  <2>2. QED BY <2>1
<1>3. Chain[n].slot \in Bounds
  <2>1. Chain[n] \in Transaction BY ChainEntry
  <2>2. Chain[n].slot \in Nat BY <2>1 DEF Transaction
  <2>3. ASSUME NEW x \in SlotsSeen PROVE x <= Chain[n].slot
    <3>1. CASE x = 0 BY <2>2, <3>1
    <3>2. CASE x # 0
      <4>1. PICK s \in seen : x = Chain[s].slot BY <3>2
      <4>2. QED BY <1>1, <4>1
    <3>3. QED BY <3>1, <3>2
  <2>4. QED BY <2>2, <2>3
<1>4. PICK b \in Bounds : \A c \in Bounds : b <= c
  <2>1. Bounds \subseteq Nat /\ Bounds # {} BY <1>3
  <2> HIDE DEF Bounds
  <2>2. QED BY <2>1, NatMin
<1>5. b \in Nat /\ \A x \in SlotsSeen : x <= b BY <1>4
<1>6. b \in SlotsSeen
  <2> HIDE DEF SlotsSeen
  <2>1. SUFFICES ASSUME b \notin SlotsSeen PROVE FALSE OBVIOUS
  <2>2. 0 \in SlotsSeen BY DEF SlotsSeen
  <2>3. b - 1 \in Nat BY <1>5, <2>1, <2>2
  <2>4. \A x \in SlotsSeen : x <= b - 1 BY <1>2, <1>5, <2>1
  <2>5. b - 1 \in Bounds BY <2>3, <2>4
  <2>6. b <= b - 1 BY <1>4, <2>5
  <2>7. QED BY <1>5, <2>6
<1>7. last_slot(seen) \in SlotsSeen /\ \A x \in SlotsSeen : last_slot(seen) >= x
  <2>1. last_slot(seen) = CHOOSE y \in SlotsSeen : \A x \in SlotsSeen : y >= x BY DEF last_slot, Max
  <2>2. \A x \in SlotsSeen : b >= x BY <1>2, <1>5
  <2> HIDE DEF SlotsSeen
  <2>3. QED BY <1>6, <2>1, <2>2
<1>8. ASSUME NEW s \in seen, Chain[s].kind \in {"deposit", "complete"} PROVE Chain[s].slot <= last_slot(seen)
  <2>1. Chain[s].slot \in SlotsSeen BY <1>8
  <2> HIDE DEF SlotsSeen
  <2>2. Chain[s].slot \in Nat /\ last_slot(seen) \in Nat BY <1>2, <1>7, <2>1
  <2>3. QED BY <1>7, <2>1, <2>2
<1>9. last_slot(seen) \in Nat
  <2> HIDE DEF SlotsSeen
  <2>1. QED BY <1>2, <1>7
<1>10. QED BY <1>8, <1>9

Matches(r, p) ==
    /\ r.units = p.units /\ r.pending = p.pending
    /\ r.deposited = p.deposited /\ r.withdrawn = p.withdrawn

\* What a database function does to a row.
LEMMA MovedRow ==
  ASSUME NEW r \in Row, NEW ev \in Transaction
  PROVE  /\ moved(r, ev) \in Row
         /\ ev.kind \notin {"deposit", "complete"} =>
                moved(r, ev).deposited = r.deposited /\ moved(r, ev).withdrawn = r.withdrawn
<1>1. ev.kind \in Kinds /\ ev.units \in Nat /\ ev.lamports \in Nat BY DEF Transaction
<1>2. /\ r.units + ev.units \in Nat /\ r.pending + ev.units \in Nat
      /\ clamped(r.units, ev.units) \in Nat /\ clamped(r.pending, ev.units) \in Nat
      /\ r.deposited + ev.lamports \in Nat /\ r.withdrawn + ev.lamports \in Nat /\ TRUE \in BOOLEAN
  BY <1>1 DEF Row, clamped
<1>3. CASE ev.kind = "deposit"
  <2>1. moved(r, ev) = [r EXCEPT !.exists = TRUE, !.units = @ + ev.units, !.deposited = @ + ev.lamports]
    BY <1>3 DEF moved, idx_apply_lp_deposit
  <2>2. QED BY <1>2, <1>3, <2>1 DEF Row
<1>4. CASE ev.kind = "request"
  <2>1. moved(r, ev) = [r EXCEPT !.units = clamped(@, ev.units), !.pending = @ + ev.units]
    BY <1>4 DEF moved, idx_apply_lp_request
  <2>2. QED BY <1>2, <2>1 DEF Row
<1>5. CASE ev.kind = "cancel"
  <2>1. moved(r, ev) = [r EXCEPT !.units = @ + ev.units, !.pending = clamped(@, ev.units)]
    BY <1>5 DEF moved, idx_apply_lp_cancel
  <2>2. QED BY <1>2, <2>1 DEF Row
<1>6. CASE ev.kind = "complete"
  <2>1. moved(r, ev) = [r EXCEPT !.pending = clamped(@, ev.units), !.withdrawn = @ + ev.lamports]
    BY <1>6 DEF moved, idx_apply_lp_complete
  <2>2. QED BY <1>2, <1>6, <2>1 DEF Row
<1>7. QED BY <1>1, <1>3, <1>4, <1>5, <1>6 DEF Kinds

\* On a row that matches the chain it does what the program did: the clamps change nothing.
LEMMA MovedMatches ==
  ASSUME NEW r \in Row, NEW p \in HeldPosition, NEW ev \in Transaction, allowed(p, ev), Matches(r, p)
  PROVE  Matches(moved(r, ev), executed(p, ev))
<1>1. ev.kind \in Kinds /\ ev.units \in Nat /\ ev.lamports \in Nat BY DEF Transaction
<1>2. /\ r.units = p.units /\ r.pending = p.pending /\ r.deposited = p.deposited /\ r.withdrawn = p.withdrawn
      /\ p.units \in Nat /\ p.pending \in Nat
  BY DEF Matches, HeldPosition
<1>3. CASE ev.kind = "deposit"
  <2>1. moved(r, ev) = [r EXCEPT !.exists = TRUE, !.units = @ + ev.units, !.deposited = @ + ev.lamports]
    BY <1>3 DEF moved, idx_apply_lp_deposit
  <2>2. executed(p, ev) = [p EXCEPT !.units = @ + ev.units, !.deposited = @ + ev.lamports] BY <1>3 DEF executed
  <2>3. QED BY <1>2, <2>1, <2>2 DEF Row, HeldPosition, Matches
<1>4. CASE ev.kind = "request"
  <2>1. moved(r, ev) = [r EXCEPT !.units = clamped(@, ev.units), !.pending = @ + ev.units]
    BY <1>4 DEF moved, idx_apply_lp_request
  <2>2. executed(p, ev) = [p EXCEPT !.units = @ - ev.units, !.pending = ev.units] BY <1>4 DEF executed
  <2>3. p.pending = 0 /\ ev.units <= p.units BY <1>4 DEF allowed
  <2>4. clamped(r.units, ev.units) = p.units - ev.units /\ r.pending + ev.units = ev.units
    BY <1>1, <1>2, <2>3 DEF clamped
  <2>5. QED BY <1>2, <2>1, <2>2, <2>4 DEF Row, HeldPosition, Matches
<1>5. CASE ev.kind = "cancel"
  <2>1. moved(r, ev) = [r EXCEPT !.units = @ + ev.units, !.pending = clamped(@, ev.units)]
    BY <1>5 DEF moved, idx_apply_lp_cancel
  <2>2. executed(p, ev) = [p EXCEPT !.units = @ + ev.units, !.pending = 0] BY <1>5 DEF executed
  <2>3. p.pending = ev.units BY <1>5 DEF allowed
  <2>4. clamped(r.pending, ev.units) = 0 BY <1>1, <1>2, <2>3 DEF clamped
  <2>5. QED BY <1>2, <2>1, <2>2, <2>4 DEF Row, HeldPosition, Matches
<1>6. CASE ev.kind = "complete"
  <2>1. moved(r, ev) = [r EXCEPT !.pending = clamped(@, ev.units), !.withdrawn = @ + ev.lamports]
    BY <1>6 DEF moved, idx_apply_lp_complete
  <2>2. executed(p, ev) = [p EXCEPT !.pending = 0, !.withdrawn = @ + ev.lamports] BY <1>6 DEF executed
  <2>3. p.pending = ev.units BY <1>6 DEF allowed
  <2>4. clamped(r.pending, ev.units) = 0 BY <1>1, <1>2, <2>3 DEF clamped
  <2>5. QED BY <1>2, <2>1, <2>2, <2>4 DEF Row, HeldPosition, Matches
<1>7. QED BY <1>1, <1>3, <1>4, <1>5, <1>6 DEF Kinds

-----------------------------------------------------------------------------
(* The invariant *)

\* The repair has read no more than has landed, and writes only what it has read.
RepairOK ==
    /\ head \in 0..Len(Chain) /\ healed \in BOOLEAN
    /\ repair \in [at: {"idle", "walk", "write"}, head: 0..Len(Chain), seen: SUBSET Sigs, runs: 0..MaxTroubles]
    /\ repair.head <= head
    /\ repair.at # "idle" => repair.runs > 0 /\ repair.head > 0

\* An ingest works on what has landed and holds its claim, alone.
ClaimsOK ==
    /\ \A w \in Ingests : work[w] # idle => work[w].sig \in 1..head /\ work[w].sig \in processed_events
    /\ OneIngestPerSignature

\* The row of a repair that saw the whole chain: nothing that is late can change it, for
\* every deposit and completion is at or below its slot.
RowRepaired ==
    healed =>
        /\ head > 0
        /\ row.deposited = onchain[head].deposited /\ row.withdrawn = onchain[head].withdrawn
        /\ \A s \in 1..head : Chain[s].kind \in {"deposit", "complete"} => Chain[s].slot <= row.slot
        /\ Chain[head].kind \in {"deposit", "complete"} =>
               row.units = onchain[head].units /\ row.pending = onchain[head].pending

\* The row after transactions in their order.
RowInOrder ==
    (repair.runs = 0 /\ \A i \in 1..Len(applied) : applied[i] = i) =>
        Len(applied) \in 0..Len(Chain) /\ Matches(row, onchain[Len(applied)])

MirrorInv == MirrorTypeOK /\ RepairOK /\ ClaimsOK /\ RowRepaired /\ RowInOrder

\* A statement that commits leaves the row of an ingest's transaction as the invariant says.
LEMMA CommitKeeps ==
  ASSUME MirrorInv, NEW sig \in 1..head, commit(sig) \/ UNCHANGED <<row, applied>>, UNCHANGED repairVars
  PROVE  row' \in Row /\ applied' \in Seq(Sigs) /\ RowRepaired' /\ RowInOrder'
<1> DEFINE ev == Chain[sig]
           r == [moved(row, ev) EXCEPT !.slot = ev.slot]
<1>0. /\ row \in Row /\ applied \in Seq(Sigs) /\ RowRepaired /\ RowInOrder
      /\ head \in 0..Len(Chain) /\ Len(Chain) \in Nat
      /\ head' = head /\ repair' = repair /\ healed' = healed
  BY ChainAssumption DEF MirrorInv, MirrorTypeOK, RepairOK, repairVars
<1>1. sig \in Sigs /\ sig \in 1..Len(Chain) BY <1>0 DEF Sigs
<1>2. ev \in Transaction BY <1>1, ChainEntry
<1>3. CASE UNCHANGED <<row, applied>> BY <1>0, <1>3 DEF RowRepaired, RowInOrder
<1>4. CASE newer(row, ev) /\ row' = r /\ applied' = Append(applied, sig)
  <2>1. moved(row, ev) \in Row BY <1>0, <1>2, MovedRow
  <2>2. ev.slot \in Nat BY <1>2 DEF Transaction
  <2>3. r \in Row BY <2>1, <2>2 DEF Row
  <2>4. /\ r.units = moved(row, ev).units /\ r.pending = moved(row, ev).pending /\ r.slot = ev.slot
        /\ r.deposited = moved(row, ev).deposited /\ r.withdrawn = moved(row, ev).withdrawn
    BY <2>1 DEF Row
  <2>5. row.slot \in Nat /\ row.slot < ev.slot BY <1>0, <1>4 DEF newer, Row
  <2>6. applied' \in Seq(Sigs) /\ Len(applied') = Len(applied) + 1
        /\ (\A i \in 1..Len(applied) : applied'[i] = applied[i]) /\ applied'[Len(applied) + 1] = sig
    BY <1>0, <1>1, <1>4
  <2>7. RowRepaired'
    <3>1. SUFFICES ASSUME healed PROVE RowRepaired' BY <1>0 DEF RowRepaired
    <3>2. /\ head > 0
          /\ row.deposited = onchain[head].deposited /\ row.withdrawn = onchain[head].withdrawn
          /\ \A s \in 1..head : Chain[s].kind \in {"deposit", "complete"} => Chain[s].slot <= row.slot
      BY <1>0, <3>1 DEF RowRepaired
    <3>3. ev.kind \notin {"deposit", "complete"}
      <4>1. ASSUME ev.kind \in {"deposit", "complete"} PROVE FALSE
        <5>1. ev.slot <= row.slot BY <3>2, <4>1
        <5>2. QED BY <2>2, <2>5, <5>1
      <4>2. QED BY <4>1
    <3>4. r.deposited = row.deposited /\ r.withdrawn = row.withdrawn BY <1>0, <1>2, <2>4, <3>3, MovedRow
    <3>5. ASSUME NEW s \in 1..head, Chain[s].kind \in {"deposit", "complete"} PROVE Chain[s].slot <= r.slot
      <4>1. Chain[s].slot <= row.slot BY <3>2, <3>5
      <4>2. s \in Sigs BY <1>0 DEF Sigs
      <4>3. Chain[s].slot \in Nat BY <4>2, ChainEntry DEF Transaction
      <4>4. QED BY <2>2, <2>4, <2>5, <4>1, <4>3
    <3>6. Chain[head].kind \notin {"deposit", "complete"}
      <4>1. ASSUME Chain[head].kind \in {"deposit", "complete"} PROVE FALSE
        <5>1. head \in 1..head /\ head \in Sigs /\ sig <= head BY <1>0, <3>2 DEF Sigs
        <5>2. Chain[head].slot <= row.slot BY <3>2, <4>1, <5>1
        <5>3. ev.slot <= Chain[head].slot BY <1>1, <5>1, ChainAssumption
        <5>4. Chain[head].slot \in Nat BY <5>1, ChainEntry DEF Transaction
        <5>5. QED BY <2>2, <2>5, <5>2, <5>3, <5>4
      <4>2. QED BY <4>1
    <3> HIDE DEF r, ev
    <3>7. QED BY <1>0, <1>4, <3>2, <3>4, <3>5, <3>6 DEF RowRepaired
  <2>8. RowInOrder'
    <3>1. SUFFICES ASSUME repair.runs = 0, \A i \in 1..Len(applied') : applied'[i] = i
                   PROVE  Len(applied') \in 0..Len(Chain) /\ Matches(r, onchain[Len(applied')])
      BY <1>0, <1>4 DEF RowInOrder
    <3> DEFINE n == Len(applied)
    <3>2. n \in Nat BY <1>0
    <3>3. \A i \in 1..n : applied[i] = i
      <4>1. ASSUME NEW i \in 1..n PROVE applied[i] = i
        <5>1. i \in 1..Len(applied') BY <2>6, <3>2
        <5>2. QED BY <2>6, <3>1, <5>1
      <4>2. QED BY <4>1
    <3>4. sig = n + 1
      <4>1. n + 1 \in 1..Len(applied') BY <2>6, <3>2
      <4>2. applied'[n + 1] = n + 1 BY <3>1, <4>1
      <4>3. QED BY <2>6, <4>2
    <3>5. Matches(row, onchain[n]) BY <1>0, <3>1, <3>3 DEF RowInOrder
    <3>6. n \in 0..Len(Chain) /\ sig - 1 = n /\ Len(applied') = sig /\ sig \in 0..Len(Chain)
      BY <1>0, <1>1, <2>6, <3>2, <3>4
    <3>7. onchain[n] \in HeldPosition BY <3>6, OnchainHeld
    <3>8. allowed(onchain[n], ev) BY <1>1, <3>6, ChainAssumption
    <3>9. onchain[sig] = executed(onchain[n], ev) BY <1>1, <3>6, OnchainPositions DEF Positions
    <3>10. Matches(moved(row, ev), executed(onchain[n], ev))
      <4> HIDE DEF ev, n
      <4>1. QED BY <1>0, <1>2, <3>5, <3>7, <3>8, MovedMatches
    <3>11. Matches(r, onchain[sig])
      <4> HIDE DEF r
      <4>1. QED BY <2>4, <3>9, <3>10 DEF Matches
    <3>12. QED BY <3>6, <3>11
  <2>9. QED BY <1>4, <2>3, <2>6, <2>7, <2>8
<1>5. QED BY <1>3, <1>4 DEF commit

Busy == [sig: Sigs, step: {"log", "apply", "release"}]

\* An ingest that is not idle.
LEMMA BusyIngest ==
  ASSUME MirrorInv, NEW w \in Ingests
  PROVE  /\ work[w] \in Busy \cup {idle}
         /\ work[w] # idle => work[w] \in Busy
         /\ work[w].step \in {"log", "apply", "release"} => work[w] # idle /\ work[w] \in Busy
BY DEF MirrorInv, MirrorTypeOK, Busy, idle

\* What the claims are after an ingest goes on to its next step, or ends with or without
\* its claim.
LEMMA WorkGoesOn ==
  ASSUME MirrorInv, NEW w \in Ingests, work[w] # idle, NEW step \in {"log", "apply", "release"},
         moves_on(w, step), UNCHANGED <<processed_events, head>>
  PROVE  work' \in [Ingests -> Busy \cup {idle}] /\ ClaimsOK'
<1>0. work \in [Ingests -> Busy \cup {idle}] /\ ClaimsOK BY DEF MirrorInv, MirrorTypeOK, Busy
<1>1. work[w] \in Busy BY BusyIngest
<1>2. work' = [work EXCEPT ![w].step = step] BY DEF moves_on
<1>3. work'[w] = [work[w] EXCEPT !.step = step] /\ \A v \in Ingests \ {w} : work'[v] = work[v] BY <1>0, <1>2
<1>4. work'[w] \in Busy /\ work'[w].sig = work[w].sig BY <1>1, <1>3 DEF Busy
<1>5. work' \in [Ingests -> Busy \cup {idle}] BY <1>0, <1>1, <1>2 DEF Busy
<1>6. \A v \in Ingests : work'[v] # idle => work[v] # idle /\ work'[v].sig = work[v].sig BY <1>3, <1>4
<1>7. \A v \in Ingests : work'[v].sig = work[v].sig BY <1>3, <1>4
<1>8. QED BY <1>0, <1>5, <1>6, <1>7 DEF ClaimsOK, OneIngestPerSignature

LEMMA WorkEnds ==
  ASSUME MirrorInv, NEW w \in Ingests, work[w] # idle, work' = [work EXCEPT ![w] = idle], UNCHANGED head,
         processed_events' = processed_events \/ processed_events' = processed_events \ {work[w].sig}
  PROVE  work' \in [Ingests -> Busy \cup {idle}] /\ ClaimsOK' /\ processed_events' \subseteq Sigs
<1>0. /\ work \in [Ingests -> Busy \cup {idle}] /\ ClaimsOK /\ processed_events \subseteq Sigs
      /\ head \in Nat
  BY ChainAssumption DEF MirrorInv, MirrorTypeOK, Busy, RepairOK
<1>1. work' \in [Ingests -> Busy \cup {idle}] BY <1>0
<1>2. work'[w] = idle /\ \A v \in Ingests \ {w} : work'[v] = work[v] BY <1>0
<1>3. idle.sig \notin 1..head BY <1>0 DEF idle
<1>4. ASSUME NEW v \in Ingests, work'[v] # idle
      PROVE  work'[v].sig \in 1..head' /\ work'[v].sig \in processed_events'
  <2>1. v # w /\ work'[v] = work[v] BY <1>2, <1>4
  <2>2. work[v].sig \in 1..head /\ work[v].sig \in processed_events BY <1>0, <1>4, <2>1 DEF ClaimsOK
  <2>3. work[v].sig # work[w].sig BY <1>0, <1>4, <2>1 DEF ClaimsOK, OneIngestPerSignature
  <2>4. QED BY <2>1, <2>2, <2>3
<1>5. ASSUME NEW v \in Ingests, NEW u \in Ingests, v # u, work'[v] # idle PROVE work'[v].sig # work'[u].sig
  <2>1. v # w /\ work'[v] = work[v] BY <1>2, <1>5
  <2>2. work[v].sig \in 1..head BY <1>0, <1>5, <2>1 DEF ClaimsOK
  <2>3. CASE u = w BY <1>2, <1>3, <2>1, <2>2, <2>3
  <2>4. CASE u # w
    <3>1. work'[u] = work[u] BY <1>2, <2>4
    <3>2. work[v].sig # work[u].sig BY <1>0, <1>5, <2>1 DEF ClaimsOK, OneIngestPerSignature
    <3>3. QED BY <2>1, <3>1, <3>2
  <2>5. QED BY <2>3, <2>4
<1>6. QED BY <1>0, <1>1, <1>4, <1>5 DEF ClaimsOK, OneIngestPerSignature

LEMMA WorkStarts ==
  ASSUME MirrorInv, NEW w \in Ingests, NEW sig \in 1..head, claim(w, sig), UNCHANGED head
  PROVE  work' \in [Ingests -> Busy \cup {idle}] /\ ClaimsOK' /\ processed_events' \subseteq Sigs
<1>0. /\ work \in [Ingests -> Busy \cup {idle}] /\ ClaimsOK /\ processed_events \subseteq Sigs
      /\ head \in 0..Len(Chain) /\ Len(Chain) \in Nat
  BY ChainAssumption DEF MirrorInv, MirrorTypeOK, Busy, RepairOK
<1> DEFINE new == [sig |-> sig, step |-> "log"]
<1>1. /\ work[w] = idle /\ sig \notin processed_events
      /\ processed_events' = processed_events \cup {sig} /\ work' = [work EXCEPT ![w] = new]
  BY DEF claim, may_claim
<1>2. sig \in Sigs BY <1>0 DEF Sigs
<1>3. new \in Busy BY <1>2 DEF Busy
<1>4. work' \in [Ingests -> Busy \cup {idle}] BY <1>0, <1>1, <1>3
<1>5. work'[w] = new /\ \A v \in Ingests \ {w} : work'[v] = work[v] BY <1>0, <1>1
<1>6. new.sig = sig /\ idle.sig = 0 BY DEF idle
<1> HIDE DEF new
<1>7. ASSUME NEW v \in Ingests, work'[v] # idle
      PROVE  work'[v].sig \in 1..head' /\ work'[v].sig \in processed_events'
  BY <1>0, <1>1, <1>5, <1>6, <1>7 DEF ClaimsOK
<1>8. ASSUME NEW v \in Ingests \ {w} PROVE work'[v].sig # sig
  <2>1. CASE work[v] = idle BY <1>0, <1>5, <1>6, <2>1
  <2>2. CASE work[v] # idle BY <1>0, <1>1, <1>5, <2>2 DEF ClaimsOK
  <2>3. QED BY <2>1, <2>2
<1>9. ASSUME NEW v \in Ingests, NEW u \in Ingests, v # u, work'[v] # idle PROVE work'[v].sig # work'[u].sig
  <2>1. CASE v = w \/ u = w BY <1>5, <1>6, <1>8, <1>9, <2>1
  <2>2. CASE v # w /\ u # w BY <1>0, <1>5, <1>9, <2>2 DEF ClaimsOK, OneIngestPerSignature
  <2>3. QED BY <2>1, <2>2
<1>10. QED BY <1>0, <1>1, <1>2, <1>4, <1>7, <1>9 DEF ClaimsOK, OneIngestPerSignature

\* A failure stays within its bound.
LEMMA FaultCounted ==
  ASSUME MirrorInv, fault
  PROVE  faults' \in 0..MaxTroubles
<1>1. faults \in 0..MaxTroubles /\ repair.runs \in 0..MaxTroubles BY DEF MirrorInv, MirrorTypeOK, RepairOK
<1>2. QED BY <1>1, TroublesAssumption DEF fault

\* Every step of an ingest.
LEMMA IngestKeeps ==
  ASSUME MirrorInv, NEW w \in Ingests, IngestStep(w)
  PROVE  MirrorInv'
<1> USE DEF Busy
<1>0. UNCHANGED <<head, repair, healed>> BY DEF IngestStep, repairVars
<1>1. RepairOK' BY <1>0 DEF MirrorInv, RepairOK
<1>2. /\ processed_events \subseteq Sigs /\ logged \subseteq Sigs /\ faults \in 0..MaxTroubles
      /\ row \in Row /\ applied \in Seq(Sigs) /\ head \in 0..Len(Chain) /\ Len(Chain) \in Nat
  BY ChainAssumption DEF MirrorInv, MirrorTypeOK, RepairOK
<1>3. \A v \in Ingests : work[v] # idle => work[v].sig \in 1..head /\ work[v].sig \in Sigs
  BY <1>2 DEF MirrorInv, ClaimsOK, Sigs
<1> DEFINE Kept == row' \in Row /\ applied' \in Seq(Sigs) /\ RowRepaired' /\ RowInOrder'
           Typed == work' \in [Ingests -> Busy \cup {idle}]
<1>4. ASSUME UNCHANGED <<row, applied>> PROVE Kept
  <2>1. row' \in Row /\ applied' \in Seq(Sigs) BY <1>2, <1>4
  <2>2. RowRepaired' BY <1>0, <1>4 DEF MirrorInv, RowRepaired
  <2>3. RowInOrder' BY <1>0, <1>4 DEF MirrorInv, RowInOrder
  <2>4. QED BY <2>1, <2>2, <2>3
<1>5. ASSUME NEW sig \in 1..head, commit(sig) PROVE Kept
  BY <1>0, <1>5, CommitKeeps DEF repairVars
<1>6. SUFFICES /\ Typed /\ ClaimsOK' /\ Kept
               /\ processed_events' \subseteq Sigs /\ logged' \subseteq Sigs /\ faults' \in 0..MaxTroubles
  BY <1>1 DEF MirrorInv, MirrorTypeOK
<1> HIDE DEF Kept, Typed
<1>7. ASSUME NEW sig \in 1..head, claim(w, sig) PROVE <1>6!1
  <2>1. Typed /\ ClaimsOK' /\ processed_events' \subseteq Sigs BY <1>0, <1>7, WorkStarts DEF Typed
  <2>2. UNCHANGED <<logged, row, faults, applied>> BY <1>7 DEF claim
  <2>3. QED BY <1>2, <1>4, <2>1, <2>2
<1>8. ASSUME log_action(w) PROVE <1>6!1
  <2>1. work[w].step = "log" /\ moves_on(w, "apply") /\ UNCHANGED <<processed_events, row, applied>>
    BY <1>8 DEF log_action
  <2>2. work[w] # idle BY <2>1, BusyIngest
  <2>3. Typed /\ ClaimsOK' BY <1>0, <2>1, <2>2, WorkGoesOn DEF Typed
  <2>4. logged' \subseteq Sigs /\ faults' \in 0..MaxTroubles BY <1>2, <1>3, <1>8, <2>2, FaultCounted DEF log_action
  <2>5. QED BY <1>2, <1>4, <2>1, <2>3, <2>4
<1>9. ASSUME apply_event(w) PROVE <1>6!1
  <2>1. /\ work[w].step = "apply" /\ commit(work[w].sig) /\ work' = [work EXCEPT ![w] = idle]
        /\ UNCHANGED <<processed_events, logged, faults>>
    BY <1>9 DEF apply_event
  <2>2. work[w] # idle BY <2>1, BusyIngest
  <2>3. Typed /\ ClaimsOK' BY <1>0, <2>1, <2>2, WorkEnds DEF Typed
  <2>4. Kept BY <1>3, <1>5, <2>1, <2>2
  <2>5. QED BY <1>2, <2>1, <2>3, <2>4
<1>10. ASSUME call_fails(w) PROVE <1>6!1
  <2>1. /\ work[w].step = "apply" /\ fault /\ moves_on(w, "release")
        /\ commit(work[w].sig) \/ UNCHANGED <<row, applied>>
        /\ UNCHANGED <<processed_events, logged>>
    BY <1>10 DEF call_fails
  <2>2. work[w] # idle BY <2>1, BusyIngest
  <2>3. Typed /\ ClaimsOK' BY <1>0, <2>1, <2>2, WorkGoesOn DEF Typed
  <2>4. Kept BY <1>3, <1>4, <1>5, <2>1, <2>2
  <2>5. faults' \in 0..MaxTroubles BY <2>1, FaultCounted
  <2>6. QED BY <1>2, <2>1, <2>3, <2>4, <2>5
<1>11. ASSUME release_claim(w) PROVE <1>6!1
  <2>1. /\ work[w].step = "release" /\ work' = [work EXCEPT ![w] = idle]
        /\ processed_events' = processed_events \/ processed_events' = processed_events \ {work[w].sig}
        /\ UNCHANGED <<logged, row, applied>>
        /\ UNCHANGED faults \/ fault
    BY <1>11 DEF release_claim
  <2>2. work[w] # idle BY <2>1, BusyIngest
  <2>3. Typed /\ ClaimsOK' /\ processed_events' \subseteq Sigs BY <1>0, <2>1, <2>2, WorkEnds DEF Typed
  <2>4. faults' \in 0..MaxTroubles BY <1>2, <2>1, FaultCounted
  <2>5. QED BY <1>2, <1>4, <2>1, <2>3, <2>4
<1>12. ASSUME dies(w) PROVE <1>6!1
  <2>1. /\ work[w] # idle /\ fault /\ work' = [work EXCEPT ![w] = idle]
        /\ UNCHANGED <<processed_events, logged, row, applied>>
    BY <1>12 DEF dies
  <2>2. Typed /\ ClaimsOK' BY <1>0, <2>1, WorkEnds DEF Typed
  <2>3. faults' \in 0..MaxTroubles BY <2>1, FaultCounted
  <2>4. QED BY <1>2, <1>4, <2>1, <2>2, <2>3
<1>13. QED BY <1>7, <1>8, <1>9, <1>10, <1>11, <1>12 DEF IngestStep

\* Every step of the chain and of the repair.
LEMMA RepairKeeps ==
  ASSUME MirrorInv, lands \/ repair_reads \/ repair_walks \/ repair_writes
  PROVE  MirrorInv'
<1>0. /\ MirrorTypeOK /\ RepairOK /\ ClaimsOK /\ RowRepaired /\ RowInOrder /\ Len(Chain) \in Nat
      /\ head \in 0..Len(Chain)
  BY ChainAssumption DEF MirrorInv, RepairOK
<1>1. CASE lands
  <2>1. head < Len(Chain) /\ head' = head + 1 /\ healed' = FALSE /\ UNCHANGED <<ingestVars, repair>>
    BY <1>1 DEF lands
  <2>2. MirrorTypeOK' BY <1>0, <2>1 DEF MirrorTypeOK, ingestVars
  <2>3. RepairOK'
    <3>1. head + 1 \in 0..Len(Chain) BY <1>0, <2>1
    <3>2. repair.head \in 0..Len(Chain) /\ repair.head <= head + 1 BY <1>0 DEF RepairOK
    <3>3. QED BY <1>0, <2>1, <3>1, <3>2 DEF RepairOK
  <2>4. ClaimsOK' BY <1>0, <2>1 DEF ClaimsOK, OneIngestPerSignature, ingestVars
  <2>5. RowRepaired' BY <2>1 DEF RowRepaired
  <2>6. RowInOrder' BY <1>0, <2>1 DEF RowInOrder, ingestVars
  <2>7. QED BY <2>2, <2>3, <2>4, <2>5, <2>6 DEF MirrorInv
<1>2. CASE repair_reads
  <2>1. /\ faults + repair.runs < MaxTroubles /\ head > 0
        /\ repair' = [at |-> "walk", head |-> head, seen |-> {}, runs |-> repair.runs + 1]
        /\ UNCHANGED <<ingestVars, head, healed>>
    BY <1>2 DEF repair_reads
  <2>2. faults \in 0..MaxTroubles /\ repair.runs \in 0..MaxTroubles BY <1>0 DEF MirrorTypeOK, RepairOK
  <2>3. repair.runs + 1 \in 0..MaxTroubles /\ repair.runs + 1 > 0 BY <2>1, <2>2, TroublesAssumption
  <2>4. MirrorTypeOK' BY <1>0, <2>1 DEF MirrorTypeOK, ingestVars
  <2>5. RepairOK' BY <1>0, <2>1, <2>3 DEF RepairOK
  <2>6. ClaimsOK' BY <1>0, <2>1 DEF ClaimsOK, OneIngestPerSignature, ingestVars
  <2>7. RowRepaired' BY <1>0, <2>1 DEF RowRepaired, ingestVars
  <2>8. repair'.runs # 0 BY <2>1, <2>3
  <2>9. RowInOrder' BY <2>8 DEF RowInOrder
  <2>10. QED BY <2>4, <2>5, <2>6, <2>7, <2>9 DEF MirrorInv
<1>3. CASE repair_walks
  <2>1. PICK seen \in SUBSET (1..head) : repair' = [repair EXCEPT !.at = "write", !.seen = seen]
    BY <1>3 DEF repair_walks
  <2>2. repair.at = "walk" /\ UNCHANGED <<processed_events, logged, row, work, applied, head, healed>>
    BY <1>3 DEF repair_walks
  <2>3. faults' \in 0..MaxTroubles
    <3>1. UNCHANGED faults \/ fault BY <1>3 DEF repair_walks
    <3>2. QED BY <1>0, <3>1, FaultCounted DEF MirrorTypeOK
  <2>4. seen \subseteq Sigs BY <1>0, <2>1 DEF Sigs
  <2>5. repair' \in [at: {"idle", "walk", "write"}, head: 0..Len(Chain), seen: SUBSET Sigs, runs: 0..MaxTroubles]
        /\ repair'.head = repair.head /\ repair'.runs = repair.runs
    BY <1>0, <2>1, <2>4 DEF RepairOK
  <2>6. RepairOK' BY <1>0, <2>2, <2>5 DEF RepairOK
  <2>7. MirrorTypeOK' BY <1>0, <2>2, <2>3 DEF MirrorTypeOK
  <2>8. ClaimsOK' BY <1>0, <2>2 DEF ClaimsOK, OneIngestPerSignature
  <2>9. RowRepaired' BY <1>0, <2>2 DEF RowRepaired
  <2>10. RowInOrder' BY <1>0, <2>2, <2>5 DEF RowInOrder
  <2>11. QED BY <2>6, <2>7, <2>8, <2>9, <2>10 DEF MirrorInv
<1>4. CASE repair_writes
  <2> DEFINE p == onchain[repair.head]
             deposited == total_of(repair.seen, "deposit")
             withdrawn == total_of(repair.seen, "complete")
             last == last_slot(repair.seen)
             written == [exists |-> TRUE, units |-> p.units, pending |-> p.pending,
                         deposited |-> deposited, withdrawn |-> withdrawn, slot |-> last]
             whole == repair.head = head /\ repair.seen = 1..head
  <2>1. repair.at = "write" /\ repair' = [no_repair EXCEPT !.runs = repair.runs]
        /\ UNCHANGED <<processed_events, logged, work, applied, head>>
    BY <1>4 DEF repair_writes
  <2>2. \/ row' = written /\ healed' = whole /\ UNCHANGED faults
        \/ fault /\ UNCHANGED <<row, healed>>
    BY <1>4 DEF repair_writes
  <2>3. repair.runs \in 0..MaxTroubles /\ repair.runs > 0 /\ repair.head > 0 /\ repair.head \in 0..Len(Chain)
        /\ repair.seen \subseteq Sigs
    BY <1>0, <2>1 DEF RepairOK
  <2>4. repair' \in [at: {"idle", "walk", "write"}, head: 0..Len(Chain), seen: SUBSET Sigs, runs: 0..MaxTroubles]
        /\ repair'.runs = repair.runs /\ repair'.head = 0 /\ repair'.at = "idle"
    BY <1>0, <2>1, <2>3 DEF no_repair
  <2>5. healed' \in BOOLEAN BY <1>0, <2>2 DEF RepairOK
  <2>6. RepairOK' BY <1>0, <2>1, <2>4, <2>5 DEF RepairOK
  <2>7. ClaimsOK' BY <1>0, <2>1 DEF ClaimsOK, OneIngestPerSignature
  <2>8. RowInOrder' BY <2>3, <2>4 DEF RowInOrder
  <2>9. faults' \in 0..MaxTroubles BY <1>0, <2>2, FaultCounted DEF MirrorTypeOK
  <2>10. p \in HeldPosition BY <2>3, OnchainHeld
  <2>11. deposited \in Nat /\ withdrawn \in Nat BY LamportsOf
  <2>12. last \in Nat
    <3>1. Len(Chain) \in Sigs /\ repair.seen \subseteq 1..Len(Chain) BY <1>0, <2>3 DEF Sigs
    <3>2. QED BY <3>1, LastSlot
  <2>13. written \in Row
    <3>1. p.units \in Nat /\ p.pending \in Nat BY <2>10 DEF HeldPosition
    <3> HIDE DEF p, deposited, withdrawn, last
    <3>2. QED BY <2>11, <2>12, <3>1 DEF Row
  <2>14. MirrorTypeOK'
    <3> HIDE DEF written
    <3>1. row' \in Row BY <1>0, <2>2, <2>13 DEF MirrorTypeOK
    <3>2. QED BY <1>0, <2>1, <2>9, <3>1 DEF MirrorTypeOK
  <2>15. RowRepaired'
    <3>1. CASE UNCHANGED <<row, healed>> BY <1>0, <2>1, <3>1 DEF RowRepaired
    <3>2. CASE row' = written /\ healed' = whole
      <4>1. SUFFICES ASSUME whole PROVE RowRepaired' BY <3>2 DEF RowRepaired
      <4>2. head \in Sigs /\ head > 0 /\ head \in 0..Len(Chain) BY <1>0, <2>3, <4>1 DEF Sigs
      <4>3. deposited = onchain[head].deposited /\ withdrawn = onchain[head].withdrawn
        BY <4>1, <4>2, TotalsOnchain
      <4>4. \A s \in 1..head : Chain[s].kind \in {"deposit", "complete"} => Chain[s].slot <= last
        BY <4>1, <4>2, LastSlot
      <4>5. p = onchain[head] BY <4>1
      <4>6. /\ row'.units = p.units /\ row'.pending = p.pending /\ row'.deposited = deposited
            /\ row'.withdrawn = withdrawn /\ row'.slot = last
        <5> HIDE DEF p, deposited, withdrawn, last
        <5>1. QED BY <3>2
      <4> HIDE DEF p, deposited, withdrawn, last
      <4>7. QED BY <2>1, <4>2, <4>3, <4>4, <4>5, <4>6 DEF RowRepaired
    <3>3. QED BY <2>2, <3>1, <3>2
  <2>16. QED BY <2>6, <2>7, <2>8, <2>14, <2>15 DEF MirrorInv
<1>5. QED BY <1>1, <1>2, <1>3, <1>4

\* Inductive.
LEMMA MirrorInductive == MirrorSpec => []MirrorInv
<1>1. MirrorInit => MirrorInv
  <2>1. SUFFICES ASSUME MirrorInit PROVE MirrorInv OBVIOUS
  <2>2. /\ head = 0 /\ repair = no_repair /\ healed = FALSE /\ processed_events = {} /\ logged = {}
        /\ row = no_row /\ work = [w \in Ingests |-> idle] /\ faults = 0 /\ applied = <<>>
    BY <2>1 DEF MirrorInit
  <2>3. Len(Chain) \in Nat BY ChainAssumption
  <2>4. 0 \in 0..Len(Chain) /\ 0 \in 0..MaxTroubles BY <2>3, TroublesAssumption
  <2>5. MirrorTypeOK BY <2>2, <2>4 DEF MirrorTypeOK, Row, no_row
  <2>6. RepairOK
    <3>1. {} \in SUBSET Sigs OBVIOUS
    <3>2. no_repair \in [at: {"idle", "walk", "write"}, head: 0..Len(Chain), seen: SUBSET Sigs, runs: 0..MaxTroubles]
      BY <2>4, <3>1 DEF no_repair
    <3>3. no_repair.head = 0 /\ no_repair.at = "idle" BY DEF no_repair
    <3>4. 0 <= 0 /\ FALSE \in BOOLEAN OBVIOUS
    <3>5. QED BY <2>2, <2>4, <3>2, <3>3, <3>4 DEF RepairOK
  <2>7. ClaimsOK BY <2>2 DEF ClaimsOK, OneIngestPerSignature
  <2>8. RowRepaired BY <2>2 DEF RowRepaired
  <2>9. RowInOrder
    <3>1. Len(applied) = 0 /\ onchain[0] = no_position BY <2>2, OnchainPositions DEF Positions
    <3>2. Matches(row, no_position) BY <2>2 DEF Matches, no_row, no_position
    <3>3. QED BY <2>4, <3>1, <3>2 DEF RowInOrder
  <2>10. QED BY <2>5, <2>6, <2>7, <2>8, <2>9 DEF MirrorInv
<1>2. MirrorInv /\ [MirrorNext]_mirrorVars => MirrorInv'
  <2>1. SUFFICES ASSUME MirrorInv, [MirrorNext]_mirrorVars PROVE MirrorInv' OBVIOUS
  <2>2. CASE UNCHANGED mirrorVars
    <3>1. UNCHANGED <<processed_events, logged, row, work, faults, applied, head, repair, healed>>
      BY <2>2 DEF mirrorVars, ingestVars, repairVars
    <3>2. QED BY <2>1, <3>1 DEF MirrorInv, MirrorTypeOK, RepairOK, ClaimsOK, OneIngestPerSignature, RowRepaired, RowInOrder
  <2>3. CASE \E w \in Ingests : IngestStep(w) BY <2>1, <2>3, IngestKeeps
  <2>4. CASE lands \/ repair_reads \/ repair_walks \/ repair_writes BY <2>1, <2>4, RepairKeeps
  <2>5. QED BY <2>1, <2>2, <2>3, <2>4 DEF MirrorNext
<1>3. QED BY <1>1, <1>2, PTL DEF MirrorSpec

\* The row of lp_positions keeps its types.
THEOREM MirrorTyped == MirrorSpec => []MirrorTypeOK
<1>1. MirrorInv => MirrorTypeOK BY DEF MirrorInv
<1>2. QED BY <1>1, MirrorInductive, PTL

\* indexer.ts and repair-vault-mirror.ts: for every history the program executed, any number
\* of ingests and any number of failures, a row to which the transactions were applied in
\* their order is the position on chain, and a row repaired from the whole chain has the
\* chain's totals whatever late transactions are delivered afterwards, and its units too
\* when a deposit or a completion came last.
THEOREM MirroredExactly == MirrorSpec => []PositionsExact
<1>1. MirrorInv => PositionsExact
  <2>1. SUFFICES ASSUME MirrorInv PROVE PositionsExact OBVIOUS
  <2>2. ExactInOrder BY <2>1 DEF MirrorInv, RowInOrder, ExactInOrder, Matches
  <2>3. RepairHolds BY <2>1 DEF MirrorInv, RowRepaired, RepairHolds
  <2>4. QED BY <2>2, <2>3 DEF PositionsExact
<1>2. QED BY <1>1, MirrorInductive, PTL

\* Two deliveries of a signature are never in work at once, whatever claims were released,
\* left behind by a failed release or by a process that stopped.
THEOREM ClaimedByOne == MirrorSpec => []OneIngestPerSignature
<1>1. MirrorInv => OneIngestPerSignature BY DEF MirrorInv, ClaimsOK
<1>2. QED BY <1>1, MirrorInductive, PTL

\* No CHECK of lp_positions refuses a call, in whatever order the transactions arrive and
\* whichever are missing: a refusal would count as success and lose the event for good.
THEOREM NoCallRefused == MirrorSpec => []ChecksNeverFire
<1>1. MirrorInv => ChecksNeverFire
  <2>1. SUFFICES ASSUME MirrorInv, NEW w \in Ingests, work[w].step = "apply"
                 PROVE  ~violates(moved(row, Chain[work[w].sig]))
    BY DEF ChecksNeverFire
  <2>2. work[w] \in Busy BY <2>1, BusyIngest
  <2>3. work[w].sig \in Sigs BY <2>2 DEF Busy
  <2>4. Chain[work[w].sig] \in Transaction BY <2>3, ChainEntry
  <2>5. row \in Row BY <2>1 DEF MirrorInv, MirrorTypeOK
  <2>6. moved(row, Chain[work[w].sig]) \in Row BY <2>4, <2>5, MovedRow
  <2>7. QED BY <2>6 DEF violates, Row
<1>2. QED BY <1>1, MirrorInductive, PTL

-----------------------------------------------------------------------------
(* The all-clears of the readers (Monitoring) *)

Verdicts == {"operational", "degraded", "down", "unknown"}
Body == [vault: Verdicts, overall: Verdicts]
Seen == UNION {[S -> Figures] : S \in SUBSET {"balance", "account", "v2"}}
Probe == [on: BOOLEAN, age: 0..TIMEOUT, seen: Seen, asked: BOOLEAN, still: BOOLEAN]
Answer == [body: Body, age: 0..NET]
Alerts == {"none yet", "House key does not match", "House signer balance critical", "House signer balance low",
           "Vault is paused", "Vault health critical", "Vault health low", "Vault balance is low"}
Report == [alerts: SUBSET Alerts, still: BOOLEAN]
Risk == [risk: {"loading", "risk", "fine"}, still: BOOLEAN]

\* The body stands for a vault that takes bets.
clear(body) == body.vault = "operational" \/ (body.overall = "operational" /\ body.vault # "unknown")

\* How old a condition can be that the route answers with.
OUTDATED == TIMEOUT + MEMO - 1

MonitorTypeOK ==
    /\ who \in {"page", "pass", "app"} /\ vault \in Figures /\ quiet \in 0..(STALE + 1)
    /\ reads \in [Probes -> Probe]
    /\ memo \in [body: Body, age: 0..MEMO] /\ answers \in SUBSET Answer
    /\ page \in [body: Body, error: BOOLEAN, asked: 0..POLL]
    /\ report \in Report /\ app \in Risk

\* A probe begun after the vault last moved has read the vault as it is, and so has one that
\* the vault stood still for.
ProbesRight ==
    \A r \in Probes :
        reads[r].on /\ (quiet > reads[r].age \/ reads[r].still) => \A p \in DOMAIN reads[r].seen : reads[r].seen[p] = vault

\* A wrong memo was filled by a probe from before the vault last moved.
MemoRight == memo.age < MEMO /\ clear(memo.body) /\ ~admits(vault) => quiet <= memo.age + TIMEOUT

\* A wrong answer comes from such a probe, or from the memo and then to the last poll.
AnswersRight ==
    \A a \in answers : clear(a.body) /\ ~admits(vault) =>
        \/ quiet <= a.age + TIMEOUT
        \/ page.asked = a.age /\ quiet <= a.age + OUTDATED

\* A wrong page polled last when wrong answers were still given, or the answer to a later
\* poll is being computed or under way.
PageCorrected ==
    \/ quiet <= OUTDATED + page.asked
    \/ who = "page" /\ \E r \in Probes : reads[r].on /\ reads[r].asked /\ quiet <= OUTDATED + POLL + reads[r].age
    \/ \E a \in answers : quiet <= OUTDATED + POLL + TIMEOUT + a.age

PageRight == ~page.error /\ clear(page.body) /\ ~admits(vault) => PageCorrected

PassRight == report.alerts = {} /\ report.still => admits(vault) /\ vault.house = "ours"
AppRight == app.risk = "fine" /\ app.still => sound(vault)

MonitorInv ==
    /\ MonitorTypeOK /\ ProbesRight /\ MemoRight /\ AnswersRight /\ PageRight
    /\ PassRight /\ AppRight

LEMMA ReadersNumbers ==
  ASSUME ReadersAssumption
  PROVE  /\ TIMEOUT \in Nat /\ MEMO \in Nat \ {0} /\ POLL \in Nat \ {0} /\ NET \in Nat /\ NET < MEMO /\ NET < POLL
         /\ MinHealth \in Nat /\ HEALTH_WARN \in Nat /\ RISK_BPS \in Nat
         /\ Rent \in Nat /\ RENT_FLOOR \in Nat /\ SOL \in Nat /\ Rent <= RENT_FLOOR /\ RISK_BPS > 0
         /\ STALE = OUTDATED + POLL + TIMEOUT + NET /\ STALE \in Nat /\ OUTDATED \in Nat
<1>1. /\ TIMEOUT \in Nat /\ MEMO \in Nat /\ POLL \in Nat /\ NET \in Nat /\ NET < MEMO /\ NET < POLL
      /\ MinHealth \in Nat /\ HEALTH_WARN \in Nat /\ RISK_BPS \in Nat
      /\ Rent \in Nat /\ RENT_FLOOR \in Nat /\ SOL \in Nat /\ Rent <= RENT_FLOOR /\ RISK_BPS > 0
  BY DEF ReadersAssumption
<1>2. QED BY <1>1 DEF STALE, OUTDATED

\* The figures of a vault are numbers.
LEMMA FigureNumbers ==
  ASSUME ReadersAssumption, NEW f \in Figures
  PROVE  /\ f.paused \in BOOLEAN /\ f.lamports \in Nat
         /\ f.outstanding \in Nat /\ f.pending \in Nat /\ f.total \in Nat
BY DEF ReadersAssumption

\* An overall verdict is no better than that of the vault.
LEMMA BodyIs ==
  ASSUME NEW v \in Verdicts, NEW body \in bodies(v)
  PROVE  body \in Body /\ (clear(body) => v = "operational")
<1>1. PICK c \in critical, s \in supporting : body = [vault |-> v, overall |-> overall(v, c, s)]
  BY DEF bodies
<1>2. overall(v, c, s) \in Verdicts BY DEF overall, Verdicts
<1>3. overall(v, c, s) = "operational" => v # "down" /\ v # "degraded" BY DEF overall
<1>4. body \in Body BY <1>1, <1>2 DEF Body
<1>5. QED BY <1>1, <1>3, <1>4 DEF clear, Verdicts

\* The route's health is the program's.
LEMMA VaultStatusIs ==
  ASSUME ReadersAssumption, NEW f, f.paused \in BOOLEAN, f.lamports \in Nat,
         f.outstanding \in Nat, f.pending \in Nat, f.total \in Nat
  PROVE  vault_status(f) \in Verdicts /\ (vault_status(f) = "operational" => admits(f))
<1>1. vault_assets(f) \in Nat BY ReadersNumbers DEF vault_assets, saturating_sub
<1>2. board_health(f) \in Nat /\ MinHealth \in Nat BY <1>1, HealthIsFree, ReadersNumbers DEF board_health
<1>3. admits(f) <=> ~f.paused /\ (MinHealth = 0 \/ board_health(f) >= MinHealth)
  BY DEF admits, sound, enforce_min_health, board_health
<1>4. CASE f.paused
  <2>1. vault_status(f) = "down" BY <1>4 DEF vault_status
  <2>2. QED BY <2>1 DEF Verdicts
<1>5. CASE ~f.paused /\ board_health(f) < MinHealth
  <2>1. vault_status(f) = "degraded" BY <1>2, <1>5 DEF vault_status
  <2>2. QED BY <2>1 DEF Verdicts
<1>6. CASE ~f.paused /\ board_health(f) >= MinHealth
  <2>1. vault_status(f) = "operational" BY <1>2, <1>6 DEF vault_status
  <2>2. QED BY <1>3, <1>6, <2>1 DEF Verdicts
<1>7. QED BY <1>2, <1>4, <1>5, <1>6

\* Only its figures matter to what the program admits.
LEMMA SameFigures ==
  ASSUME NEW f, NEW h, f.paused = h.paused, f.lamports = h.lamports,
         f.outstanding = h.outstanding, f.pending = h.pending, f.total = h.total
  PROVE  (admits(f) <=> admits(h)) /\ (sound(f) <=> sound(h))
BY DEF admits, sound, vault_assets

\* The health pass is stricter than the program.
LEMMA PassIsStricter ==
  ASSUME ReadersAssumption, NEW f, f.paused \in BOOLEAN, f.lamports \in Nat,
         f.outstanding \in Nat, f.pending \in Nat, f.total \in Nat, vault_alerts(f) = {}
  PROVE  admits(f)
<1>1. /\ ~f.paused /\ ~(pass_health(f) < HEALTH_WARN) /\ ~(f.lamports < SOL + RENT_FLOOR)
  BY DEF vault_alerts
<1>2. /\ MinHealth \in Nat /\ HEALTH_WARN \in Nat /\ SOL \in Nat /\ Rent \in Nat /\ RENT_FLOOR \in Nat
      /\ Rent <= RENT_FLOOR /\ BPS \in Nat \ {0} /\ BPS <= SOL * (HEALTH_WARN - MinHealth)
  BY ReadersNumbers, BpsAssumption DEF ReadersAssumption
<1> DEFINE a == f.lamports - RENT_FLOOR
           b == f.lamports - Rent
<1>3. SOL # 0
  <2>1. 0 * (HEALTH_WARN - MinHealth) = 0 BY <1>2
  <2>2. QED BY <1>2, <2>1
<1>4. a \in Nat \ {0} /\ b \in Nat /\ a <= b /\ SOL <= a BY <1>1, <1>2, <1>3
<1>5. available(f) = a /\ vault_assets(f) = b BY <1>2, <1>4 DEF available, vault_assets, saturating_sub
<1> HIDE DEF a, b
<1>6. pass_health(f) = calc_health_bps(a, f.outstanding, f.pending, f.total) BY <1>4, <1>5 DEF pass_health
<1>7. HEALTH_WARN - MinHealth \in Nat
  <2>1. SUFFICES ASSUME HEALTH_WARN < MinHealth PROVE FALSE BY <1>2
  <2>2. MinHealth - HEALTH_WARN \in Nat /\ SOL * (MinHealth - HEALTH_WARN) \in Nat BY <1>2, <2>1
  <2>3. SOL * (HEALTH_WARN - MinHealth) = -(SOL * (MinHealth - HEALTH_WARN)) BY <1>2
  <2>4. QED BY <1>2, <2>2, <2>3
<1>8. BPS <= a * (HEALTH_WARN - MinHealth)
  <2>1. SOL * (HEALTH_WARN - MinHealth) <= a * (HEALTH_WARN - MinHealth) BY <1>2, <1>4, <1>7, TimesMonotone
  <2>2. SOL * (HEALTH_WARN - MinHealth) \in Nat /\ a * (HEALTH_WARN - MinHealth) \in Nat BY <1>2, <1>4, <1>7
  <2>3. QED BY <1>2, <2>1, <2>2
<1>9. HEALTH_WARN <= calc_health_bps(a, f.outstanding, f.pending, f.total)
  <2>1. calc_health_bps(a, f.outstanding, f.pending, f.total) \in Nat BY <1>4, HealthIsFree
  <2>2. QED BY <1>1, <1>2, <1>6, <2>1
<1>10. MinHealth <= calc_health_bps(b, f.outstanding, f.pending, f.total)
  BY <1>2, <1>4, <1>8, <1>9, HealthWithMore
<1>11. calc_health_bps(b, f.outstanding, f.pending, f.total) \in Nat BY <1>4, HealthIsFree
<1>12. QED BY <1>1, <1>2, <1>5, <1>10, <1>11 DEF admits, sound, enforce_min_health

\* And so is the app.
LEMMA AppIsStricter ==
  ASSUME ReadersAssumption, NEW f, f.lamports \in Nat,
         f.outstanding \in Nat, f.pending \in Nat, f.total \in Nat, useRiskLevel(f) = "fine",
         f.lamports > RENT_FLOOR => BPS <= (f.lamports - RENT_FLOOR) * (RISK_BPS - MinHealth)
  PROVE  sound(f)
<1>1. ~(useVaultHealth(f) < RISK_BPS) BY DEF useRiskLevel
<1>2. /\ MinHealth \in Nat /\ RISK_BPS \in Nat /\ Rent \in Nat /\ RENT_FLOOR \in Nat
      /\ Rent <= RENT_FLOOR /\ RISK_BPS > 0 /\ BPS \in Nat \ {0}
  BY ReadersNumbers, BpsAssumption
<1> DEFINE a == f.lamports - RENT_FLOOR
           b == f.lamports - Rent
<1>3. CASE f.lamports > RENT_FLOOR
  <2>1. a \in Nat \ {0} /\ b \in Nat /\ a <= b /\ BPS <= a * (RISK_BPS - MinHealth) BY <1>2, <1>3
  <2>2. available(f) = a /\ vault_assets(f) = b BY <1>2, <1>3 DEF available, vault_assets, saturating_sub
  <2> HIDE DEF a, b
  <2>3. useVaultHealth(f) = calc_health_bps(a, f.outstanding, f.pending, f.total)
    BY <1>2, <1>3, <2>2 DEF useVaultHealth
  <2>4. calc_health_bps(a, f.outstanding, f.pending, f.total) \in Nat BY <2>1, HealthIsFree
  <2>5. RISK_BPS <= calc_health_bps(a, f.outstanding, f.pending, f.total) BY <1>1, <1>2, <2>3, <2>4
  <2>6. MinHealth <= calc_health_bps(b, f.outstanding, f.pending, f.total)
    BY <1>2, <2>1, <2>5, HealthWithMore
  <2>7. calc_health_bps(b, f.outstanding, f.pending, f.total) \in Nat BY <2>1, HealthIsFree
  <2>8. QED BY <1>2, <2>2, <2>6, <2>7 DEF sound, enforce_min_health
<1>4. CASE ~(f.lamports > RENT_FLOOR)
  <2>1. useVaultHealth(f) = 0 BY <1>2, <1>4 DEF useVaultHealth
  <2>2. QED BY <1>1, <1>2, <2>1
<1>5. QED BY <1>3, <1>4

-----------------------------------------------------------------------------
(* Each step keeps the invariant *)

\* What a probe that has read everything computes with.
LEMMA FiguresRead ==
  ASSUME ReadersAssumption, MonitorTypeOK, NEW r \in Probes, complete(r)
  PROVE  /\ figures(r).paused \in BOOLEAN /\ figures(r).lamports \in Nat
         /\ figures(r).outstanding \in Nat /\ figures(r).pending \in Nat /\ figures(r).total \in Nat
         /\ (\A p \in DOMAIN reads[r].seen : reads[r].seen[p] = vault) =>
               /\ figures(r).paused = vault.paused /\ figures(r).lamports = vault.lamports
               /\ figures(r).outstanding = vault.outstanding /\ figures(r).pending = vault.pending
               /\ figures(r).total = vault.total /\ figures(r).house = vault.house
<1> DEFINE seen == reads[r].seen
<1>1. seen \in Seen BY DEF MonitorTypeOK, Probe
<1>2. PICK S \in SUBSET {"balance", "account", "v2"} : seen \in [S -> Figures] BY <1>1 DEF Seen
<1>3. DOMAIN seen = parts(r) /\ DOMAIN seen = S BY <1>2 DEF complete
<1>4. "account" \in S /\ "v2" \in S /\ (who # "page" => "balance" \in S) BY <1>3 DEF parts
<1> DEFINE balance == IF who = "page" THEN seen["account"] ELSE seen["balance"]
<1>5. seen["account"] \in Figures /\ seen["v2"] \in Figures /\ balance \in Figures BY <1>2, <1>4
<1>6. (\A p \in DOMAIN seen : seen[p] = vault) => seen["account"] = vault /\ seen["v2"] = vault /\ balance = vault
  BY <1>3, <1>4
<1>7. /\ figures(r).paused = seen["account"].paused /\ figures(r).lamports = balance.lamports
      /\ figures(r).outstanding = seen["v2"].outstanding /\ figures(r).pending = seen["v2"].pending
      /\ figures(r).total = seen["v2"].total /\ figures(r).house = seen["account"].house
  BY DEF figures
<1> HIDE DEF seen, balance
<1>8. QED BY <1>5, <1>6, <1>7, FigureNumbers DEF seen

LEMMA NothingRead == <<>> \in Seen /\ DOMAIN <<>> = {}
<1>1. DOMAIN <<>> = {} OBVIOUS
<1>2. <<>> \in [{} -> Figures] OBVIOUS
<1>3. QED BY <1>1, <1>2 DEF Seen

LEMMA ProbesBegin ==
  ASSUME ReadersAssumption
  PROVE  /\ no_read \in Probe /\ no_read.on = FALSE /\ no_read.still = FALSE /\ DOMAIN no_read.seen = {}
         /\ \A b \in BOOLEAN : /\ begun(b) \in Probe /\ begun(b).on = TRUE /\ begun(b).asked = b
                               /\ begun(b).age = 0 /\ DOMAIN begun(b).seen = {}
<1>1. 0 \in 0..TIMEOUT BY ReadersNumbers
<1>2. /\ no_read = [on |-> FALSE, age |-> 0, seen |-> <<>>, asked |-> FALSE, still |-> FALSE]
      /\ no_read \in Probe
  BY <1>1, NothingRead DEF no_read, Probe
<1>3. ASSUME NEW b \in BOOLEAN
      PROVE  begun(b) = [on |-> TRUE, age |-> 0, seen |-> <<>>, asked |-> b, still |-> (who # "page")]
  BY DEF begun
<1>4. ASSUME NEW b \in BOOLEAN PROVE begun(b) \in Probe
  <2> DEFINE still == who # "page"
  <2>1. still \in BOOLEAN OBVIOUS
  <2>2. begun(b) = [on |-> TRUE, age |-> 0, seen |-> <<>>, asked |-> b, still |-> still] BY <1>3
  <2> HIDE DEF still
  <2>3. QED BY <1>1, <2>1, <2>2, NothingRead DEF Probe
<1>5. QED BY <1>2, <1>3, <1>4, NothingRead

LEMMA MonitorStarts == ASSUME ReadersAssumption, MonitorInit PROVE MonitorInv
<1>0. /\ who \in {"page", "pass", "app"} /\ vault \in Figures /\ quiet = 0
      /\ reads = [r \in Probes |-> no_read]
      /\ memo = [body |-> nothing, age |-> MEMO] /\ answers = {}
      /\ page = [body |-> nothing, error |-> FALSE, asked |-> POLL]
      /\ report = [alerts |-> {"none yet"}, still |-> FALSE]
      /\ app = [risk |-> "loading", still |-> FALSE]
  BY DEF MonitorInit
<1>1. nothing \in Body /\ ~clear(nothing) BY DEF nothing, Body, Verdicts, clear
<1>2. /\ 0 \in 0..(STALE + 1) /\ MEMO \in 0..MEMO /\ POLL \in 0..POLL
  <2>1. STALE \in Nat /\ MEMO \in Nat /\ POLL \in Nat BY ReadersNumbers
  <2>2. QED BY <2>1
<1>3. MonitorTypeOK
  <2>1. reads \in [Probes -> Probe] BY <1>0, ProbesBegin
  <2>2. memo \in [body: Body, age: 0..MEMO] /\ page \in [body: Body, error: BOOLEAN, asked: 0..POLL]
    BY <1>0, <1>1, <1>2
  <2>3. report \in Report /\ app \in Risk
    <3>1. {"none yet"} \in SUBSET Alerts BY DEF Alerts
    <3>2. QED BY <1>0, <3>1 DEF Report, Risk
  <2>4. QED BY <1>0, <1>2, <2>1, <2>2, <2>3 DEF MonitorTypeOK
<1>4. ProbesRight BY <1>0, ProbesBegin DEF ProbesRight
<1>5. MemoRight /\ AnswersRight /\ PageRight /\ PassRight /\ AppRight
  BY <1>0, <1>1 DEF MemoRight, AnswersRight, PageRight, PassRight, AppRight
<1>6. QED BY <1>3, <1>4, <1>5 DEF MonitorInv

LEMMA ReadKeeps ==
  ASSUME ReadersAssumption, MonitorInv, NEW r \in Probes, NEW part \in parts(r), read(r, part)
  PROVE  MonitorInv'
<1>1. /\ MonitorTypeOK /\ ProbesRight /\ part \notin DOMAIN reads[r].seen
      /\ reads' = [reads EXCEPT ![r].seen = [p \in DOMAIN @ \cup {part} |-> IF p = part THEN vault ELSE @[p]]]
      /\ UNCHANGED <<who, vault, quiet, memo, answers, page, report, app>>
  BY DEF read, MonitorInv
<1> DEFINE S == DOMAIN reads[r].seen \cup {part}
           f == [p \in S |-> IF p = part THEN vault ELSE reads[r].seen[p]]
<1>2. Probes' = Probes BY <1>1 DEF Probes
<1>3. reads \in [Probes -> Probe] /\ reads[r].seen \in Seen BY <1>1 DEF MonitorTypeOK, Probe
<1>4. reads' = [reads EXCEPT ![r] = [reads[r] EXCEPT !.seen = f]] BY <1>1, <1>3
<1>5. f \in Seen
  <2>1. PICK T \in SUBSET {"balance", "account", "v2"} : reads[r].seen \in [T -> Figures] BY <1>3 DEF Seen
  <2>2. part \in {"balance", "account", "v2"} BY DEF parts
  <2>3. S \in SUBSET {"balance", "account", "v2"} BY <2>1, <2>2
  <2>4. f \in [S -> Figures] BY <1>1, <2>1 DEF MonitorTypeOK
  <2>5. QED BY <2>3, <2>4 DEF Seen
<1>6. DOMAIN f = S /\ \A p \in S : f[p] = IF p = part THEN vault ELSE reads[r].seen[p] OBVIOUS
<1> HIDE DEF f
<1>7. /\ reads' \in [Probes -> Probe] /\ reads'[r].seen = f
      /\ reads'[r].on = reads[r].on /\ reads'[r].age = reads[r].age
      /\ reads'[r].asked = reads[r].asked /\ reads'[r].still = reads[r].still
      /\ \A q \in Probes \ {r} : reads'[q] = reads[q]
  BY <1>3, <1>4, <1>5 DEF Probe
<1>8. MonitorTypeOK' BY <1>1, <1>2, <1>7 DEF MonitorTypeOK
<1>9. ProbesRight' BY <1>1, <1>2, <1>6, <1>7 DEF ProbesRight
<1>10. PageCorrected => PageCorrected' BY <1>1, <1>2, <1>7 DEF PageCorrected
<1>11. MemoRight' /\ AnswersRight' /\ PageRight' /\ PassRight' /\ AppRight'
  <2>1. (admits(vault) <=> admits(vault')) /\ (sound(vault) <=> sound(vault')) BY <1>1
  <2>2. QED BY <1>1, <1>10, <2>1 DEF MonitorInv, MemoRight, AnswersRight, PageRight, PassRight, AppRight
<1>12. QED BY <1>8, <1>9, <1>11 DEF MonitorInv

\* A probe that begins: it has read nothing yet, and the page has no answer from it.
LEMMA BeginKeeps ==
  ASSUME ReadersAssumption, MonitorInv, NEW r \in Probes, NEW asked \in BOOLEAN,
         ~reads[r].on, reads' = [reads EXCEPT ![r] = begun(asked)],
         asked => who = "page" /\ page.asked = POLL /\ page' = [page EXCEPT !.asked = 0],
         ~asked => page' = page,
         UNCHANGED <<who, vault, quiet, memo, answers, report, app>>
  PROVE  MonitorInv'
<1>1. /\ Probes' = Probes /\ OUTDATED' = OUTDATED BY DEF Probes, OUTDATED
<1>2. MonitorTypeOK /\ ProbesRight BY DEF MonitorInv
<1>3. /\ TIMEOUT \in Nat /\ NET \in Nat /\ POLL \in Nat \ {0} /\ OUTDATED \in Nat /\ NET < POLL BY ReadersNumbers
<1>4. /\ reads' \in [Probes -> Probe] /\ reads'[r] = begun(asked)
      /\ \A q \in Probes \ {r} : reads'[q] = reads[q]
  BY <1>2, ProbesBegin DEF MonitorTypeOK
<1>5. page \in [body: Body, error: BOOLEAN, asked: 0..POLL] BY <1>2 DEF MonitorTypeOK
<1>6. /\ page' \in [body: Body, error: BOOLEAN, asked: 0..POLL] /\ page'.body = page.body
      /\ page'.error = page.error /\ page'.asked = (IF asked THEN 0 ELSE page.asked)
  BY <1>3, <1>5
<1>7. MonitorTypeOK' BY <1>1, <1>2, <1>4, <1>6 DEF MonitorTypeOK
<1>8. ProbesRight' BY <1>1, <1>2, <1>4, ProbesBegin DEF ProbesRight
<1>9. AnswersRight'
  <2> SUFFICES ASSUME NEW a \in answers, clear(a.body), ~admits(vault)
               PROVE  quiet <= a.age + TIMEOUT \/ (page'.asked = a.age /\ quiet <= a.age + OUTDATED)
    BY <1>1 DEF AnswersRight
  <2>1. a.age \in 0..NET BY <1>2 DEF MonitorTypeOK, Answer
  <2>2. quiet <= a.age + TIMEOUT \/ (page.asked = a.age /\ quiet <= a.age + OUTDATED)
    BY DEF MonitorInv, AnswersRight
  <2>3. asked => page.asked # a.age BY <1>3, <2>1
  <2>4. QED BY <1>6, <2>2, <2>3
<1>10. PageCorrected => PageCorrected'
  <2>1. SUFFICES ASSUME PageCorrected PROVE PageCorrected' OBVIOUS
  <2>2. begun(asked).on /\ begun(asked).asked = asked /\ begun(asked).age = 0 BY ProbesBegin
  <2>3. CASE quiet <= OUTDATED + page.asked /\ asked
    <3>1. quiet <= OUTDATED + POLL + 0 BY <1>3, <2>3
    <3>2. reads'[r].on /\ reads'[r].asked /\ quiet' <= OUTDATED' + POLL + reads'[r].age
      BY <1>1, <1>4, <2>2, <2>3, <3>1
    <3>3. QED BY <1>1, <2>3, <3>2 DEF PageCorrected
  <2>4. CASE quiet <= OUTDATED + page.asked /\ ~asked BY <1>1, <1>6, <2>4 DEF PageCorrected
  <2>5. CASE who = "page" /\ \E q \in Probes : reads[q].on /\ reads[q].asked /\ quiet <= OUTDATED + POLL + reads[q].age
    <3>1. PICK q \in Probes : reads[q].on /\ reads[q].asked /\ quiet <= OUTDATED + POLL + reads[q].age BY <2>5
    <3>2. reads'[q] = reads[q] BY <1>4, <3>1
    <3>3. QED BY <1>1, <2>5, <3>1, <3>2 DEF PageCorrected
  <2>6. CASE \E a \in answers : quiet <= OUTDATED + POLL + TIMEOUT + a.age BY <1>1, <2>6 DEF PageCorrected
  <2>7. QED BY <2>1, <2>3, <2>4, <2>5, <2>6 DEF PageCorrected
<1>11. MemoRight' /\ PageRight' /\ PassRight' /\ AppRight'
  <2>1. (admits(vault) <=> admits(vault')) /\ (sound(vault) <=> sound(vault')) OBVIOUS
  <2>2. QED BY <1>6, <1>10, <2>1 DEF MonitorInv, MemoRight, PageRight, PassRight, AppRight
<1>12. QED BY <1>7, <1>8, <1>9, <1>11 DEF MonitorInv

\* A poll that the memo answers.
LEMMA MemoAnswers ==
  ASSUME ReadersAssumption, MonitorInv, page.asked = POLL, page' = [page EXCEPT !.asked = 0],
         remembered, answers' = answers \cup {answer(memo.body)},
         UNCHANGED <<who, vault, quiet, reads, memo, report, app>>
  PROVE  MonitorInv'
<1>1. /\ Probes' = Probes /\ OUTDATED' = OUTDATED BY DEF Probes, OUTDATED
<1>2. MonitorTypeOK BY DEF MonitorInv
<1>3. /\ TIMEOUT \in Nat /\ NET \in Nat /\ POLL \in Nat \ {0} /\ MEMO \in Nat /\ OUTDATED \in Nat /\ NET < POLL
      /\ OUTDATED = TIMEOUT + MEMO - 1
  BY ReadersNumbers DEF OUTDATED
<1>4. memo.body \in Body /\ memo.age \in 0..MEMO /\ quiet \in 0..(STALE + 1) /\ STALE \in Nat
  BY <1>2, ReadersNumbers DEF MonitorTypeOK
<1> DEFINE new == answer(memo.body)
<1>5. new.body = memo.body /\ new.age = 0 /\ new \in Answer BY <1>3, <1>4 DEF answer, Answer
<1> HIDE DEF new
<1>6. page \in [body: Body, error: BOOLEAN, asked: 0..POLL] BY <1>2 DEF MonitorTypeOK
<1>7. /\ page' \in [body: Body, error: BOOLEAN, asked: 0..POLL] /\ page'.body = page.body
      /\ page'.error = page.error /\ page'.asked = 0
  BY <1>3, <1>6
<1>8. answers' = answers \cup {new} BY DEF new
<1>9. MonitorTypeOK' BY <1>1, <1>2, <1>5, <1>7, <1>8 DEF MonitorTypeOK
<1>10. AnswersRight'
  <2> SUFFICES ASSUME NEW a \in answers', clear(a.body), ~admits(vault)
               PROVE  quiet <= a.age + TIMEOUT \/ (page'.asked = a.age /\ quiet <= a.age + OUTDATED)
    BY <1>1 DEF AnswersRight
  <2>1. CASE a \in answers
    <3>1. a.age \in 0..NET BY <1>2, <2>1 DEF MonitorTypeOK, Answer
    <3>2. quiet <= a.age + TIMEOUT \/ (page.asked = a.age /\ quiet <= a.age + OUTDATED)
      BY <2>1 DEF MonitorInv, AnswersRight
    <3>3. page.asked # a.age BY <1>3, <3>1
    <3>4. QED BY <3>2, <3>3
  <2>2. CASE a = new
    <3>1. memo.age < MEMO /\ quiet <= memo.age + TIMEOUT
      BY <1>5, <2>2 DEF MonitorInv, MemoRight, remembered
    <3>2. quiet <= 0 + OUTDATED BY <1>3, <1>4, <3>1
    <3>3. QED BY <1>5, <1>7, <2>2, <3>2
  <2>3. QED BY <1>8, <2>1, <2>2
<1>11. PageCorrected => PageCorrected'
  <2>1. SUFFICES ASSUME PageCorrected PROVE PageCorrected' OBVIOUS
  <2>2. CASE quiet <= OUTDATED + page.asked
    <3>1. quiet <= OUTDATED + POLL + TIMEOUT + 0 BY <1>3, <1>4, <2>2
    <3>2. new \in answers' /\ quiet' <= OUTDATED' + POLL + TIMEOUT + new.age BY <1>1, <1>5, <1>8, <3>1
    <3>3. QED BY <3>2 DEF PageCorrected
  <2>3. CASE who = "page" /\ \E q \in Probes : reads[q].on /\ reads[q].asked /\ quiet <= OUTDATED + POLL + reads[q].age
    BY <1>1, <2>3 DEF PageCorrected
  <2>4. CASE \E a \in answers : quiet <= OUTDATED + POLL + TIMEOUT + a.age
    <3>1. \A a \in answers : a \in answers' BY <1>8
    <3>2. QED BY <1>1, <2>4, <3>1 DEF PageCorrected
  <2>5. QED BY <2>1, <2>2, <2>3, <2>4 DEF PageCorrected
<1>12. ProbesRight' BY <1>1 DEF MonitorInv, ProbesRight
<1>13. MemoRight' /\ PageRight' /\ PassRight' /\ AppRight'
  <2>1. (admits(vault) <=> admits(vault')) /\ (sound(vault) <=> sound(vault')) OBVIOUS
  <2>2. QED BY <1>7, <1>11, <2>1 DEF MonitorInv, MemoRight, PageRight, PassRight, AppRight
<1>14. QED BY <1>9, <1>10, <1>12, <1>13 DEF MonitorInv

\* A probe that ends: with a verdict on what it read, or with none.
LEMMA VerdictRight ==
  ASSUME ReadersAssumption, MonitorInv, NEW g \in Probes, reads[g].on,
         NEW v \in {"unknown"} \cup (IF complete(g) THEN {vault_status(figures(g))} ELSE {}),
         NEW body \in bodies(v)
  PROVE  /\ body \in Body
         /\ clear(body) /\ ~admits(vault) => quiet <= reads[g].age
<1>1. MonitorTypeOK /\ ProbesRight BY DEF MonitorInv
<1>2. CASE v = "unknown"
  <2>1. v \in Verdicts BY <1>2 DEF Verdicts
  <2>2. QED BY <1>2, <2>1, BodyIs
<1>3. CASE complete(g) /\ v = vault_status(figures(g))
  <2>1. /\ figures(g).paused \in BOOLEAN /\ figures(g).lamports \in Nat
        /\ figures(g).outstanding \in Nat /\ figures(g).pending \in Nat /\ figures(g).total \in Nat
    BY <1>1, <1>3, FiguresRead
  <2>2. v \in Verdicts /\ (v = "operational" => admits(figures(g))) BY <1>3, <2>1, VaultStatusIs
  <2>3. body \in Body /\ (clear(body) => admits(figures(g))) BY <2>2, BodyIs
  <2>4. quiet > reads[g].age => (admits(figures(g)) <=> admits(vault))
    <3>1. SUFFICES ASSUME quiet > reads[g].age PROVE admits(figures(g)) <=> admits(vault) OBVIOUS
    <3>2. \A p \in DOMAIN reads[g].seen : reads[g].seen[p] = vault BY <1>1, <3>1 DEF ProbesRight
    <3>3. /\ figures(g).paused = vault.paused /\ figures(g).lamports = vault.lamports
          /\ figures(g).outstanding = vault.outstanding /\ figures(g).pending = vault.pending
          /\ figures(g).total = vault.total
      BY <1>1, <1>3, <3>2, FiguresRead
    <3>4. QED BY <3>3, SameFigures
  <2>5. quiet \in Int /\ reads[g].age \in Int BY <1>1, ReadersNumbers DEF MonitorTypeOK, Probe
  <2>6. QED BY <2>3, <2>4, <2>5
<1>4. QED BY <1>2, <1>3

LEMMA AnswerKeeps ==
  ASSUME ReadersAssumption, MonitorInv, NEW g \in Gets, GET(g)
  PROVE  MonitorInv'
<1>1. /\ Probes' = Probes /\ OUTDATED' = OUTDATED /\ g \in Probes /\ who = "page"
      /\ reads[g].on /\ reads' = [reads EXCEPT ![g] = no_read]
      /\ UNCHANGED <<who, vault, quiet, page, report, app>>
  BY DEF GET, Probes, OUTDATED
<1>2. MonitorTypeOK /\ ProbesRight BY DEF MonitorInv
<1>0. PICK v \in {"unknown"} \cup (IF complete(g) THEN {vault_status(figures(g))} ELSE {}) : \E body \in bodies(v) :
        /\ memo' = [body |-> body, age |-> 0]
        /\ answers' = IF reads[g].asked THEN answers \cup {answer(body)} ELSE answers
  BY DEF GET
<1>3. PICK body \in bodies(v) :
        /\ memo' = [body |-> body, age |-> 0]
        /\ answers' = IF reads[g].asked THEN answers \cup {answer(body)} ELSE answers
  BY <1>0
<1>4. body \in Body /\ (clear(body) /\ ~admits(vault) => quiet <= reads[g].age) BY <1>1, <1>3, VerdictRight
<1>5. /\ TIMEOUT \in Nat /\ NET \in Nat /\ POLL \in Nat /\ MEMO \in Nat \ {0} /\ OUTDATED \in Nat
      /\ reads[g].age \in 0..TIMEOUT /\ quiet \in Int /\ page.asked \in 0..POLL
  BY <1>1, <1>2, ReadersNumbers DEF MonitorTypeOK, Probe
<1>6. clear(body) /\ ~admits(vault) => quiet <= 0 + TIMEOUT BY <1>4, <1>5
<1> DEFINE new == answer(body)
<1>7. new.body = body /\ new.age = 0 /\ new \in Answer BY <1>4, <1>5 DEF answer, Answer
<1>8. answers' \subseteq answers \cup {new} /\ answers \subseteq answers' /\ (reads[g].asked => new \in answers')
  BY <1>3
<1> HIDE DEF new
<1>9. /\ reads' \in [Probes -> Probe] /\ reads'[g] = no_read
      /\ \A q \in Probes \ {g} : reads'[q] = reads[q]
  BY <1>1, <1>2, ProbesBegin DEF MonitorTypeOK
<1>10. memo' \in [body: Body, age: 0..MEMO] /\ memo'.body = body /\ memo'.age = 0 BY <1>3, <1>4, <1>5
<1>11. MonitorTypeOK' BY <1>1, <1>2, <1>7, <1>8, <1>9, <1>10 DEF MonitorTypeOK
<1>12. ProbesRight' BY <1>1, <1>2, <1>9, ProbesBegin DEF ProbesRight
<1>13. MemoRight' BY <1>1, <1>6, <1>10 DEF MemoRight
<1>14. AnswersRight'
  <2> SUFFICES ASSUME NEW a \in answers', clear(a.body), ~admits(vault)
               PROVE  quiet <= a.age + TIMEOUT \/ (page.asked = a.age /\ quiet <= a.age + OUTDATED)
    BY <1>1 DEF AnswersRight
  <2>1. CASE a \in answers BY <2>1 DEF MonitorInv, AnswersRight
  <2>2. CASE a = new BY <1>6, <1>7, <2>2
  <2>3. QED BY <1>8, <2>1, <2>2
<1>15. PageCorrected => PageCorrected'
  <2>1. SUFFICES ASSUME PageCorrected PROVE PageCorrected' OBVIOUS
  <2>2. CASE quiet <= OUTDATED + page.asked BY <1>1, <2>2 DEF PageCorrected
  <2>3. CASE who = "page" /\ \E q \in Probes : reads[q].on /\ reads[q].asked /\ quiet <= OUTDATED + POLL + reads[q].age
    <3>1. PICK q \in Probes : reads[q].on /\ reads[q].asked /\ quiet <= OUTDATED + POLL + reads[q].age BY <2>3
    <3>2. CASE q = g
      <4>1. quiet <= OUTDATED + POLL + TIMEOUT + 0 BY <1>5, <3>1, <3>2
      <4>2. new \in answers' /\ quiet' <= OUTDATED' + POLL + TIMEOUT + new.age
        BY <1>1, <1>7, <1>8, <3>1, <3>2, <4>1
      <4>3. QED BY <4>2 DEF PageCorrected
    <3>3. CASE q # g
      <4>1. reads'[q] = reads[q] BY <1>9, <3>3
      <4>2. QED BY <1>1, <2>3, <3>1, <4>1 DEF PageCorrected
    <3>4. QED BY <3>2, <3>3
  <2>4. CASE \E a \in answers : quiet <= OUTDATED + POLL + TIMEOUT + a.age
    BY <1>1, <1>8, <2>4 DEF PageCorrected
  <2>5. QED BY <2>1, <2>2, <2>3, <2>4 DEF PageCorrected
<1>16. PageRight' /\ PassRight' /\ AppRight'
  <2>1. (admits(vault) <=> admits(vault')) /\ (sound(vault) <=> sound(vault')) BY <1>1
  <2>2. QED BY <1>1, <1>15, <2>1 DEF MonitorInv, PageRight, PassRight, AppRight
<1>17. QED BY <1>11, <1>12, <1>13, <1>14, <1>16 DEF MonitorInv

LEMMA ArrivalKeeps ==
  ASSUME ReadersAssumption, MonitorInv, NEW a \in answers, NEW lost \in BOOLEAN, arrives(a, lost)
  PROVE  MonitorInv'
<1>1. /\ Probes' = Probes /\ OUTDATED' = OUTDATED /\ answers' = answers \ {a}
      /\ page' = IF lost THEN [page EXCEPT !.error = TRUE] ELSE [page EXCEPT !.body = a.body, !.error = FALSE]
      /\ UNCHANGED <<who, vault, quiet, reads, memo, report, app>>
  BY DEF arrives, Probes, OUTDATED
<1>2. MonitorTypeOK BY DEF MonitorInv
<1>3. /\ page \in [body: Body, error: BOOLEAN, asked: 0..POLL] /\ a.body \in Body /\ a.age \in 0..NET
      /\ quiet \in Int
  BY <1>2, ReadersNumbers DEF MonitorTypeOK, Answer
<1>4. /\ page' \in [body: Body, error: BOOLEAN, asked: 0..POLL] /\ page'.asked = page.asked
      /\ page'.error = lost /\ (~lost => page'.body = a.body)
  BY <1>1, <1>3
<1>5. MonitorTypeOK' BY <1>1, <1>2, <1>4 DEF MonitorTypeOK
<1>6. AnswersRight' BY <1>1, <1>4 DEF MonitorInv, AnswersRight
<1>7. PageRight'
  <2>1. SUFFICES ASSUME ~lost, clear(a.body), ~admits(vault) PROVE quiet <= OUTDATED + page.asked
    BY <1>1, <1>4 DEF PageRight, PageCorrected
  <2>2. quiet <= a.age + TIMEOUT \/ (page.asked = a.age /\ quiet <= a.age + OUTDATED)
    BY <2>1 DEF MonitorInv, AnswersRight
  <2>3. /\ TIMEOUT \in Nat /\ NET \in Nat /\ POLL \in Nat /\ MEMO \in Nat /\ NET < MEMO
        /\ OUTDATED = TIMEOUT + MEMO - 1 /\ page.asked \in 0..POLL
    BY <1>3, ReadersNumbers DEF OUTDATED
  <2>4. QED BY <1>3, <2>2, <2>3
<1>8. ProbesRight' BY <1>1 DEF MonitorInv, ProbesRight
<1>9. MemoRight' /\ PassRight' /\ AppRight'
  <2>1. (admits(vault) <=> admits(vault')) /\ (sound(vault) <=> sound(vault')) BY <1>1
  <2>2. QED BY <1>1, <2>1 DEF MonitorInv, MemoRight, PassRight, AppRight
<1>10. QED BY <1>5, <1>6, <1>7, <1>8, <1>9 DEF MonitorInv

\* The pass and the app take up their probes and report.
LEMMA ReportKeeps ==
  ASSUME ReadersAssumption, MonitorInv, runVaultHealth \/ useVaultAccount
  PROVE  MonitorInv'
<1> DEFINE r == who
<1>1. /\ r \in {"pass", "app"} /\ r \in Probes /\ Probes' = Probes /\ OUTDATED' = OUTDATED
      /\ UNCHANGED <<who, vault, quiet, memo, answers, page>>
  BY DEF runVaultHealth, useVaultAccount, Probes, OUTDATED
<1>2. MonitorTypeOK /\ ProbesRight BY DEF MonitorInv
<1>3. CASE ~reads[r].on /\ reads' = [reads EXCEPT ![r] = begun(FALSE)] /\ UNCHANGED <<report, app>>
  BY <1>1, <1>3, BeginKeeps
<1>4. CASE complete(r) /\ reads' = [reads EXCEPT ![r] = no_read]
  <2>1. /\ reads' \in [Probes -> Probe] /\ reads'[r] = no_read
        /\ \A q \in Probes \ {r} : reads'[q] = reads[q]
    BY <1>1, <1>2, <1>4, ProbesBegin DEF MonitorTypeOK
  <2>2. ProbesRight' BY <1>1, <1>2, <2>1, ProbesBegin DEF ProbesRight
  <2>3. /\ figures(r).paused \in BOOLEAN /\ figures(r).lamports \in Nat
        /\ figures(r).outstanding \in Nat /\ figures(r).pending \in Nat /\ figures(r).total \in Nat
    BY <1>1, <1>2, <1>4, FiguresRead
  <2>4. reads[r].still =>
          /\ figures(r).paused = vault.paused /\ figures(r).lamports = vault.lamports
          /\ figures(r).outstanding = vault.outstanding /\ figures(r).pending = vault.pending
          /\ figures(r).total = vault.total /\ figures(r).house = vault.house
    <3>1. reads[r].still => \A p \in DOMAIN reads[r].seen : reads[r].seen[p] = vault
      BY <1>1, <1>2, <1>4 DEF ProbesRight, complete
    <3>2. QED BY <1>1, <1>2, <1>4, <3>1, FiguresRead
  <2>5. reads[r].still \in BOOLEAN BY <1>1, <1>2 DEF MonitorTypeOK, Probe
  <2>6. ASSUME report' = [alerts |-> sendAlert(figures(r)), still |-> reads[r].still], UNCHANGED app
        PROVE  MonitorTypeOK' /\ PassRight' /\ AppRight'
    <3>0. house_alerts(figures(r)) \subseteq Alerts /\ vault_alerts(figures(r)) \subseteq Alerts
      BY DEF house_alerts, vault_alerts, Alerts
    <3>1. sendAlert(figures(r)) \in SUBSET Alerts BY <3>0 DEF sendAlert
    <3>2. report' \in Report BY <2>5, <2>6, <3>1 DEF Report
    <3>3. sendAlert(figures(r)) = {} => vault_alerts(figures(r)) = {} /\ figures(r).house = "ours"
      BY DEF sendAlert, house_alerts
    <3>4. PassRight'
      <4>1. SUFFICES ASSUME sendAlert(figures(r)) = {}, reads[r].still PROVE admits(vault) /\ vault.house = "ours"
        BY <1>1, <2>6 DEF PassRight
      <4>2. admits(figures(r)) BY <2>3, <3>3, <4>1, PassIsStricter
      <4>3. QED BY <2>4, <3>3, <4>1, <4>2, SameFigures
    <3>5. AppRight' BY <1>1, <2>6 DEF MonitorInv, AppRight
    <3>6. MonitorTypeOK' BY <1>1, <1>2, <2>1, <2>6, <3>2 DEF MonitorTypeOK
    <3>7. QED BY <3>4, <3>5, <3>6
  <2>7. ASSUME app' = [risk |-> useRiskLevel(figures(r)), still |-> reads[r].still], UNCHANGED report
        PROVE  MonitorTypeOK' /\ PassRight' /\ AppRight'
    <3>1. app' \in Risk BY <2>5, <2>7 DEF Risk, useRiskLevel
    <3>2. AppRight'
      <4>1. SUFFICES ASSUME useRiskLevel(figures(r)) = "fine", reads[r].still PROVE sound(vault)
        BY <1>1, <2>7 DEF AppRight
      <4>2. /\ figures(r).lamports = vault.lamports /\ vault \in Figures BY <1>2, <2>4, <4>1 DEF MonitorTypeOK
      <4>3. figures(r).lamports > RENT_FLOOR
              => BPS <= (figures(r).lamports - RENT_FLOOR) * (RISK_BPS - MinHealth)
        BY <4>2 DEF ReadersAssumption
      <4>4. sound(figures(r)) BY <2>3, <4>1, <4>3, AppIsStricter
      <4>5. QED BY <2>4, <4>1, <4>4, SameFigures
    <3>3. PassRight' BY <1>1, <2>7 DEF MonitorInv, PassRight
    <3>4. MonitorTypeOK' BY <1>1, <1>2, <2>1, <2>7, <3>1 DEF MonitorTypeOK
    <3>5. QED BY <3>2, <3>3, <3>4
  <2>8. MonitorTypeOK' /\ PassRight' /\ AppRight'
    <3>1. \/ report' = [alerts |-> sendAlert(figures(r)), still |-> reads[r].still] /\ UNCHANGED app
          \/ app' = [risk |-> useRiskLevel(figures(r)), still |-> reads[r].still] /\ UNCHANGED report
      <4>1. reads[r].on BY <1>4 DEF complete
      <4>2. QED BY <4>1 DEF runVaultHealth, useVaultAccount
    <3>2. QED BY <2>6, <2>7, <3>1
  <2>9. PageCorrected => PageCorrected'
    BY <1>1 DEF PageCorrected
  <2>10. MemoRight' /\ AnswersRight' /\ PageRight'
    BY <1>1, <2>9 DEF MonitorInv, MemoRight, AnswersRight, PageRight
  <2>11. QED BY <2>2, <2>8, <2>10 DEF MonitorInv
<1>5. QED BY <1>1, <1>3, <1>4 DEF runVaultHealth, useVaultAccount

LEMMA MoveKeeps ==
  ASSUME ReadersAssumption, MonitorInv, NEW f \in Figures, chain_moves(f)
  PROVE  MonitorInv'
<1>1. /\ Probes' = Probes /\ OUTDATED' = OUTDATED /\ vault' = f /\ quiet' = 0
      /\ reads' = [r \in DOMAIN reads |-> [reads[r] EXCEPT !.still = FALSE]]
      /\ report' = [report EXCEPT !.still = FALSE] /\ app' = [app EXCEPT !.still = FALSE]
      /\ UNCHANGED <<who, memo, answers, page>>
  BY DEF chain_moves, Probes, OUTDATED
<1>2. MonitorTypeOK BY DEF MonitorInv
<1>3. reads \in [Probes -> Probe] /\ report \in Report /\ app \in Risk BY <1>2 DEF MonitorTypeOK
<1>4. /\ reads' \in [Probes -> Probe]
      /\ \A r \in Probes : reads'[r].age = reads[r].age /\ reads'[r].still = FALSE
  <2>1. \A r \in Probes : /\ [reads[r] EXCEPT !.still = FALSE] \in Probe
                          /\ [reads[r] EXCEPT !.still = FALSE].age = reads[r].age
                          /\ [reads[r] EXCEPT !.still = FALSE].still = FALSE
    BY <1>3 DEF Probe
  <2>2. QED BY <1>1, <1>3, <2>1
<1>5. report' \in Report /\ report'.still = FALSE /\ app' \in Risk /\ app'.still = FALSE
  BY <1>1, <1>3 DEF Report, Risk
<1>6. STALE \in Nat /\ STALE' = STALE BY ReadersNumbers DEF STALE
<1>7. 0 \in 0..(STALE + 1) BY <1>6
<1>8. MonitorTypeOK' BY <1>1, <1>2, <1>4, <1>5, <1>6, <1>7 DEF MonitorTypeOK
<1>9. ProbesRight'
  <2>1. \A r \in Probes : reads[r].age \in Nat BY <1>3, ReadersNumbers DEF Probe
  <2>2. QED BY <1>1, <1>4, <2>1 DEF ProbesRight
<1>10. MemoRight' /\ AnswersRight' /\ PageRight'
  <2>1. memo.age \in Nat /\ (\A a \in answers : a.age \in Nat) /\ page.asked \in Nat /\ TIMEOUT \in Nat /\ OUTDATED \in Nat
    BY <1>2, ReadersNumbers DEF MonitorTypeOK, Answer
  <2>2. 0 <= memo.age + TIMEOUT /\ (\A a \in answers : 0 <= a.age + TIMEOUT) /\ 0 <= OUTDATED + page.asked BY <2>1
  <2>3. QED BY <1>1, <2>2 DEF MemoRight, AnswersRight, PageRight, PageCorrected
<1>11. PassRight' /\ AppRight' BY <1>5 DEF PassRight, AppRight
<1>12. QED BY <1>8, <1>9, <1>10, <1>11 DEF MonitorInv

LEMMA TickKeeps ==
  ASSUME ReadersAssumption, MonitorInv, passes
  PROVE  MonitorInv'
<1>1. /\ Probes' = Probes /\ Gets = Probes /\ OUTDATED' = OUTDATED /\ STALE' = STALE /\ who = "page" /\ page.asked < POLL
      /\ (\A g \in Gets : reads[g].age < TIMEOUT) /\ (\A a \in answers : a.age < NET)
      /\ quiet' = min2(quiet + 1, STALE + 1)
      /\ reads' = [g \in Gets |-> IF reads[g].on THEN [reads[g] EXCEPT !.age = @ + 1] ELSE reads[g]]
      /\ memo' = [memo EXCEPT !.age = min2(@ + 1, MEMO)]
      /\ answers' = {[a EXCEPT !.age = @ + 1] : a \in answers}
      /\ page' = [page EXCEPT !.asked = @ + 1]
      /\ UNCHANGED <<who, vault, report, app>>
  BY DEF passes, Probes, OUTDATED, STALE
<1>2. MonitorTypeOK BY DEF MonitorInv
<1>3. /\ TIMEOUT \in Nat /\ NET \in Nat /\ POLL \in Nat /\ MEMO \in Nat \ {0} /\ OUTDATED \in Nat
      /\ STALE \in Nat /\ STALE = OUTDATED + POLL + TIMEOUT + NET
  BY ReadersNumbers
<1>4. /\ reads \in [Probes -> Probe] /\ quiet \in 0..(STALE + 1) /\ answers \in SUBSET Answer
      /\ memo \in [body: Body, age: 0..MEMO] /\ page \in [body: Body, error: BOOLEAN, asked: 0..POLL]
  BY <1>2 DEF MonitorTypeOK
<1>5. /\ quiet' \in 0..(STALE + 1) /\ quiet' <= quiet + 1 /\ (quiet' = quiet + 1 \/ quiet = STALE + 1)
  BY <1>1, <1>3, <1>4 DEF min2
<1>6. ASSUME NEW r \in Probes
      PROVE  /\ reads'[r] \in Probe /\ reads'[r].on = reads[r].on /\ reads'[r].seen = reads[r].seen
             /\ reads'[r].asked = reads[r].asked /\ reads'[r].still = reads[r].still
             /\ reads'[r].age = (IF reads[r].on THEN reads[r].age + 1 ELSE reads[r].age)
  <2>1. reads[r] \in Probe /\ reads[r].age \in 0..TIMEOUT /\ reads[r].age < TIMEOUT BY <1>1, <1>4 DEF Probe
  <2>2. reads[r].age + 1 \in 0..TIMEOUT BY <1>3, <2>1
  <2>3. reads'[r] = IF reads[r].on THEN [reads[r] EXCEPT !.age = @ + 1] ELSE reads[r] BY <1>1
  <2>4. QED BY <2>1, <2>2, <2>3 DEF Probe
<1>7. reads' \in [Probes -> Probe] BY <1>1, <1>6
<1>8. /\ memo' \in [body: Body, age: 0..MEMO] /\ memo'.body = memo.body
      /\ memo'.age = min2(memo.age + 1, MEMO) /\ (memo'.age < MEMO => memo'.age = memo.age + 1)
  <2>1. min2(memo.age + 1, MEMO) \in 0..MEMO /\ (min2(memo.age + 1, MEMO) < MEMO => min2(memo.age + 1, MEMO) = memo.age + 1)
    BY <1>3, <1>4 DEF min2
  <2>2. QED BY <1>1, <1>4, <2>1
<1>9. /\ page' \in [body: Body, error: BOOLEAN, asked: 0..POLL] /\ page'.body = page.body
      /\ page'.error = page.error /\ page'.asked = page.asked + 1
  <2>1. page.asked + 1 \in 0..POLL BY <1>1, <1>3, <1>4
  <2>2. QED BY <1>1, <1>4, <2>1
<1>10. ASSUME NEW a \in answers
       PROVE  /\ [a EXCEPT !.age = @ + 1] \in Answer /\ [a EXCEPT !.age = @ + 1].body = a.body
              /\ [a EXCEPT !.age = @ + 1].age = a.age + 1
  <2>1. a \in Answer /\ a.age < NET BY <1>1, <1>4
  <2>2. a.age + 1 \in 0..NET BY <1>3, <2>1 DEF Answer
  <2>3. QED BY <2>1, <2>2 DEF Answer
<1>11. MonitorTypeOK'
  <2>1. answers' \in SUBSET Answer BY <1>1, <1>10
  <2>2. QED BY <1>1, <1>2, <1>5, <1>7, <1>8, <1>9, <2>1 DEF MonitorTypeOK
<1>12. ProbesRight'
  <2> SUFFICES ASSUME NEW r \in Probes, reads'[r].on, quiet' > reads'[r].age \/ reads'[r].still,
                      NEW p \in DOMAIN reads'[r].seen
               PROVE  reads'[r].seen[p] = vault'
    BY <1>1 DEF ProbesRight
  <2>1. reads[r].age \in 0..TIMEOUT /\ reads[r].age < TIMEOUT BY <1>1, <1>4 DEF Probe
  <2>2. reads[r].on /\ (quiet' > reads[r].age + 1 \/ reads[r].still) BY <1>6
  <2>3. quiet > reads[r].age \/ reads[r].still BY <1>3, <1>4, <1>5, <2>1, <2>2
  <2>4. QED BY <1>1, <1>6, <2>2, <2>3 DEF MonitorInv, ProbesRight
<1>13. MemoRight'
  <2> SUFFICES ASSUME memo'.age < MEMO, clear(memo.body), ~admits(vault) PROVE quiet' <= memo'.age + TIMEOUT
    BY <1>1, <1>8 DEF MemoRight
  <2>1. memo'.age = memo.age + 1 /\ memo.age \in Nat /\ memo.age < MEMO BY <1>3, <1>4, <1>8
  <2>2. quiet <= memo.age + TIMEOUT BY <2>1 DEF MonitorInv, MemoRight
  <2>3. QED BY <1>3, <1>4, <1>5, <2>1, <2>2
<1>14. AnswersRight'
  <2> SUFFICES ASSUME NEW b \in answers', clear(b.body), ~admits(vault)
               PROVE  quiet' <= b.age + TIMEOUT \/ (page'.asked = b.age /\ quiet' <= b.age + OUTDATED)
    BY <1>1 DEF AnswersRight
  <2>1. PICK a \in answers : b = [a EXCEPT !.age = @ + 1] BY <1>1
  <2>2. b.body = a.body /\ b.age = a.age + 1 /\ a.age \in Nat BY <1>3, <1>4, <1>10, <2>1 DEF Answer
  <2>3. quiet <= a.age + TIMEOUT \/ (page.asked = a.age /\ quiet <= a.age + OUTDATED)
    BY <2>2 DEF MonitorInv, AnswersRight
  <2>4. QED BY <1>3, <1>4, <1>5, <1>9, <2>2, <2>3
<1>15. PageCorrected => PageCorrected'
  <2>1. SUFFICES ASSUME PageCorrected PROVE PageCorrected' OBVIOUS
  <2>2. CASE quiet <= OUTDATED + page.asked
    <3>1. quiet' <= OUTDATED + (page.asked + 1) BY <1>3, <1>4, <1>5, <2>2
    <3>2. QED BY <1>1, <1>9, <3>1 DEF PageCorrected
  <2>3. CASE who = "page" /\ \E q \in Probes : reads[q].on /\ reads[q].asked /\ quiet <= OUTDATED + POLL + reads[q].age
    <3>1. PICK q \in Probes : reads[q].on /\ reads[q].asked /\ quiet <= OUTDATED + POLL + reads[q].age BY <2>3
    <3>2. reads[q].age \in Nat BY <1>3, <1>4 DEF Probe
    <3>3. quiet' <= OUTDATED + POLL + (reads[q].age + 1) BY <1>3, <1>4, <1>5, <3>1, <3>2
    <3>4. QED BY <1>1, <1>6, <3>1, <3>3 DEF PageCorrected
  <2>4. CASE \E a \in answers : quiet <= OUTDATED + POLL + TIMEOUT + a.age
    <3>1. PICK a \in answers : quiet <= OUTDATED + POLL + TIMEOUT + a.age BY <2>4
    <3>2. a.age \in Nat BY <1>3, <1>4 DEF Answer
    <3>3. quiet' <= OUTDATED + POLL + TIMEOUT + (a.age + 1) BY <1>3, <1>4, <1>5, <3>1, <3>2
    <3>4. [a EXCEPT !.age = @ + 1] \in answers' BY <1>1
    <3>5. QED BY <1>1, <1>10, <3>3, <3>4 DEF PageCorrected
  <2>5. QED BY <2>1, <2>2, <2>3, <2>4 DEF PageCorrected
<1>16. PageRight' /\ PassRight' /\ AppRight'
  <2>1. (admits(vault) <=> admits(vault')) /\ (sound(vault) <=> sound(vault')) BY <1>1
  <2>2. QED BY <1>1, <1>9, <1>15, <2>1 DEF MonitorInv, PageRight, PassRight, AppRight
<1>17. QED BY <1>11, <1>12, <1>13, <1>14, <1>16 DEF MonitorInv

LEMMA MonitorInductive ==
  ASSUME ReadersAssumption
  PROVE  MonitorSpec => []MonitorInv
<1>1. MonitorInit => MonitorInv BY MonitorStarts
<1>2. MonitorInv /\ [MonitorNext]_monitorVars => MonitorInv'
  <2>1. SUFFICES ASSUME MonitorInv, [MonitorNext]_monitorVars PROVE MonitorInv' OBVIOUS
  <2>2. CASE UNCHANGED monitorVars
    <3>1. UNCHANGED <<who, vault, quiet, reads, memo, answers, page, report, app>> BY <2>2 DEF monitorVars
    <3>2. Probes' = Probes BY <3>1 DEF Probes
    <3>3. QED BY <2>1, <3>1, <3>2 DEF MonitorInv, MonitorTypeOK, ProbesRight, MemoRight, AnswersRight, PageRight,
                                      PageCorrected, PassRight, AppRight
  <2>3. CASE \E r \in Probes : \E part \in parts(r) : read(r, part) BY <2>1, <2>3, ReadKeeps
  <2>4. CASE load
    <3>1. who = "page" /\ page.asked = POLL /\ page' = [page EXCEPT !.asked = 0]
          /\ UNCHANGED <<who, vault, quiet, memo, report, app>>
      BY <2>4 DEF load
    <3>2. CASE remembered /\ answers' = answers \cup {answer(memo.body)} /\ UNCHANGED reads
      BY <2>1, <3>1, <3>2, MemoAnswers
    <3>3. CASE UNCHANGED answers /\ \E g \in Gets : spare(g) /\ reads' = [reads EXCEPT ![g] = begun(TRUE)]
      <4>1. PICK g \in Gets : spare(g) /\ reads' = [reads EXCEPT ![g] = begun(TRUE)] BY <3>3
      <4>2. g \in Probes /\ ~reads[g].on BY <3>1, <4>1 DEF Probes, spare
      <4>3. QED BY <2>1, <3>1, <3>3, <4>1, <4>2, BeginKeeps
    <3>4. QED BY <2>4, <3>2, <3>3 DEF load
  <2>5. ASSUME NEW g \in Gets, other_visitor(g) PROVE MonitorInv'
    <3>1. g \in Probes /\ ~reads[g].on /\ reads' = [reads EXCEPT ![g] = begun(FALSE)]
          /\ UNCHANGED <<who, vault, quiet, memo, answers, page, report, app>>
      BY <2>5 DEF other_visitor, spare, Probes
    <3>2. QED BY <2>1, <3>1, BeginKeeps
  <2>6. ASSUME NEW g \in Gets, GET(g) PROVE MonitorInv' BY <2>1, <2>6, AnswerKeeps
  <2>7. CASE \E a \in answers, lost \in BOOLEAN : arrives(a, lost) BY <2>1, <2>7, ArrivalKeeps
  <2>8. CASE runVaultHealth \/ useVaultAccount BY <2>1, <2>8, ReportKeeps
  <2>9. CASE \E f \in Figures : chain_moves(f) BY <2>1, <2>9, MoveKeeps
  <2>10. CASE passes BY <2>1, <2>10, TickKeeps
  <2>11. QED BY <2>1, <2>2, <2>3, <2>4, <2>5, <2>6, <2>7, <2>8, <2>9, <2>10 DEF MonitorNext
<1>3. QED BY <1>1, <1>2, PTL DEF MonitorSpec

\* status/route.ts with status-client.tsx, vault-health-pass.ts and useContracts.tsx: once the
\* vault has stood still for STALE, a status page that shows no trouble, a health pass without
\* an alert and an app without risk are right, for every number of visitors, every time-out,
\* memo and polling interval, however the three overlap.
THEOREM AllClearsAreTrue ==
  ASSUME ReadersAssumption
  PROVE  MonitorSpec => []NoFalseAllClear
<1>1. MonitorInv => NoFalseAllClear
  <2>1. SUFFICES ASSUME MonitorInv PROVE NoFalseAllClear OBVIOUS
  <2>2. all_clear /\ quiet > STALE => admits(vault)
    <3>1. SUFFICES ASSUME all_clear, quiet > STALE, ~admits(vault) PROVE FALSE OBVIOUS
    <3>2. PageCorrected BY <2>1, <3>1 DEF MonitorInv, PageRight, all_clear, clear
    <3>3. /\ TIMEOUT \in Nat /\ NET \in Nat /\ POLL \in Nat /\ OUTDATED \in Nat
          /\ STALE = OUTDATED + POLL + TIMEOUT + NET
      BY <2>1, ReadersNumbers
    <3>4. /\ page.asked \in 0..POLL /\ quiet \in Nat
          /\ (\A r \in Probes : reads[r].age \in 0..TIMEOUT) /\ (\A a \in answers : a.age \in 0..NET)
      BY <2>1, ReadersNumbers DEF MonitorInv, MonitorTypeOK, Probe, Answer
    <3>5. CASE quiet <= OUTDATED + page.asked BY <3>1, <3>3, <3>4, <3>5
    <3>6. CASE \E r \in Probes : quiet <= OUTDATED + POLL + reads[r].age BY <3>1, <3>3, <3>4, <3>6
    <3>7. CASE \E a \in answers : quiet <= OUTDATED + POLL + TIMEOUT + a.age BY <3>1, <3>3, <3>4, <3>7
    <3>8. QED BY <3>2, <3>5, <3>6, <3>7 DEF PageCorrected
  <2>3. QED BY <2>1, <2>2 DEF MonitorInv, PassRight, AppRight, NoFalseAllClear
<1>2. QED BY <1>1, MonitorInductive, PTL

=============================================================================
