--------------------------- MODULE ReferralProofs ---------------------------
(***************************************************************************)
(* Theorems about referral accounts, for any number of players, any bets,  *)
(* tiers and volumes, about the codes, links and visits by which referrers *)
(* are found (ReferralLinks), and about a referrer's row in the database   *)
(* (ReferralRollup).                                                       *)
(***************************************************************************)
EXTENDS Referral, ReferralLinks, ReferralRollup, KaboomMathTheorems, FiniteSetTheorems

\* What the properties rest on: nobody has played for a referrer before naming
\* one, and an account that does not exist, or has no key, is as it was found.
Untouched ==
    /\ \A p \in Players : referrer[p] = NoReferrer => played[p] = 0
    /\ \A r \in Keys : ~account[r].exists \/ account[r].key # r => account[r] = found(r)

ReferralInv == TypeOK /\ Untouched /\ ReferralReady /\ ClaimsBacked /\ RefereesCounted /\ TierEarned

-----------------------------------------------------------------------------
(* The operators *)

\* There are three tiers.
LEMMA TierType ==
  ASSUME NEW v \in Nat PROVE tier_for_volume(v) \in 0..2
BY DEF tier_for_volume

\* The cut, capped by what the vault holds, is an amount.
LEMMA CutNat ==
  ASSUME NEW bet \in Nat, NEW tier \in 0..2, NEW available \in Nat
  PROVE  min2(mul_div_floor(bet, referral_cut_bps(tier), BPS), available) \in Nat
<1>1. referral_cut_bps(tier) \in Nat BY ReferralAssumption DEF referral_cut_bps
<1>2. \A a, b \in Nat : mul_div_floor(a, b, BPS) \in Nat BY BpsAssumption DEF mul_div_floor
<1>3. mul_div_floor(bet, referral_cut_bps(tier), BPS) \in Nat BY <1>1, <1>2
<1>4. QED BY <1>3 DEF min2

\* An account as found carries a count at most.
LEMMA FoundFields ==
  ASSUME NEW r \in Keys
  PROVE  LET a == found(r)
         IN  /\ a \in Account /\ a.exists = (LeftCount[r] > 0) /\ a.key = ZERO_KEY /\ a.tier = 0
             /\ a.count = LeftCount[r] /\ a.volume = 0 /\ a.lamports = 0
             /\ a.accrued = 0 /\ a.earned = 0
<1>1. LeftCount[r] \in Nat BY ReferralAssumption
<1>2. ASSUME NEW e \in BOOLEAN, NEW c \in Nat
      PROVE  [missing EXCEPT !.exists = e, !.count = c] \in Account
  <2>1. missing \in Account BY DEF missing, Account, Keys
  <2>2. QED BY <2>1, Zenon DEF Account
<1>3. (LeftCount[r] > 0) \in BOOLEAN BY <1>1
<1>4. found(r) \in Account BY <1>1, <1>2, <1>3, Zenon DEF found
<1>5. found(r).exists = (LeftCount[r] > 0) /\ found(r).key = ZERO_KEY BY Zenon DEF found, missing
<1>6. found(r).tier = 0 /\ found(r).count = LeftCount[r] /\ found(r).volume = 0
      /\ found(r).lamports = 0 /\ found(r).accrued = 0 /\ found(r).earned = 0
  BY Zenon DEF found, missing
<1>7. QED BY <1>4, <1>5, <1>6

\* Keying an account and counting a referee touches nothing that was earned.
LEMMA KeyedFields ==
  ASSUME NEW a \in Account, NEW r \in Keys, a.key # ZERO_KEY => a.exists /\ a.key = r,
         a.key # r => a.tier = 0
  PROVE  LET b == referred(a, r)
         IN  /\ b \in Account /\ b.exists /\ b.key = r
             /\ b.count = a.count + 1
             /\ b.volume = a.volume /\ b.lamports = a.lamports
             /\ b.accrued = a.accrued /\ b.earned = a.earned
             /\ r # ZERO_KEY => b.tier = a.tier
<1> DEFINE k == keyed(a, r)
           b == referred(a, r)
<1>1. CASE a.key = ZERO_KEY
  <2>1. k = [a EXCEPT !.exists = TRUE, !.key = r, !.tier = 0] BY <1>1 DEF keyed
  <2>2. r # ZERO_KEY => a.tier = 0 BY <1>1
  <2>3. b = [a EXCEPT !.exists = TRUE, !.key = r, !.tier = 0, !.count = @ + 1]
    BY <2>1 DEF Account, referred
  <2> HIDE DEF b
  <2>4. b \in Account
    <3>1. ASSUME NEW n \in Nat, NEW t \in 0..2
          PROVE  [a EXCEPT !.exists = TRUE, !.key = r, !.tier = t, !.count = n] \in Account
      BY Zenon DEF Account
    <3>2. a.count + 1 \in Nat /\ 0 \in 0..2 BY DEF Account
    <3>3. QED BY <2>3, <3>1, <3>2, Zenon
  <2>5. b.exists = TRUE /\ b.key = r BY <2>3 DEF Account
  <2>6. b.count = a.count + 1 /\ b.volume = a.volume /\ b.lamports = a.lamports
        /\ b.accrued = a.accrued /\ b.earned = a.earned /\ b.tier = 0
    BY <2>3 DEF Account
  <2>7. QED BY <2>2, <2>4, <2>5, <2>6 DEF b
<1>2. CASE a.key # ZERO_KEY
  <2>1. k = a BY <1>2 DEF keyed
  <2>2. a.exists = TRUE /\ a.key = r BY <1>2 DEF Account
  <2>3. b = [a EXCEPT !.count = @ + 1] BY <2>1 DEF Account, referred
  <2> HIDE DEF b
  <2>4. b \in Account BY <2>3 DEF Account
  <2>5. b.exists = TRUE /\ b.key = r BY <2>2, <2>3 DEF Account
  <2>6. b.count = a.count + 1 /\ b.volume = a.volume /\ b.lamports = a.lamports
        /\ b.accrued = a.accrued /\ b.earned = a.earned /\ b.tier = a.tier
    BY <2>3 DEF Account
  <2>7. QED BY <2>4, <2>5, <2>6 DEF b
<1>3. QED BY <1>1, <1>2

\* A credited bet moves all amounts together and sets the tier.
LEMMA CreditedFields ==
  ASSUME NEW a \in Account, NEW bet \in Nat, NEW actual \in Nat
  PROVE  LET b == credited(a, bet, actual)
         IN  /\ b \in Account /\ b.exists = a.exists /\ b.key = a.key /\ b.count = a.count
             /\ b.volume = a.volume + bet /\ b.tier = tier_for_volume(b.volume)
             /\ b.lamports = a.lamports + actual /\ b.accrued = a.accrued + actual
             /\ b.earned = a.earned + actual
<1>1. tier_for_volume(a.volume + bet) \in 0..2 BY TierType DEF Account
<1> DEFINE b == credited(a, bet, actual)
<1>2. b \in Account
  <2>1. a.lamports + actual \in Nat /\ a.accrued + actual \in Nat /\ a.earned + actual \in Nat
        /\ a.volume + bet \in Nat
    BY DEF Account
  <2>2. ASSUME NEW l \in Nat, NEW c \in Nat, NEW e \in Nat, NEW v \in Nat, NEW t \in 0..2
        PROVE  [a EXCEPT !.lamports = l, !.accrued = c, !.earned = e, !.volume = v, !.tier = t] \in Account
    BY Zenon DEF Account
  <2>3. b = [a EXCEPT !.lamports = a.lamports + actual, !.accrued = a.accrued + actual,
                      !.earned = a.earned + actual, !.volume = a.volume + bet,
                      !.tier = tier_for_volume(a.volume + bet)]
    BY DEF credited
  <2> HIDE DEF b
  <2>4. QED BY <1>1, <2>1, <2>2, <2>3, Zenon
<1>3. b.exists = a.exists /\ b.key = a.key /\ b.count = a.count BY DEF credited, Account
<1>4. b.volume = a.volume + bet /\ b.tier = tier_for_volume(a.volume + bet)
  BY DEF credited, Account
<1>5. b.lamports = a.lamports + actual /\ b.accrued = a.accrued + actual
      /\ b.earned = a.earned + actual
  BY DEF credited, Account
<1>6. QED BY <1>2, <1>3, <1>4, <1>5

\* A claim moves lamports and accrual together; the subtraction does not saturate.
LEMMA ClaimedFields ==
  ASSUME NEW a \in Account, NEW payout \in Nat, payout <= a.accrued, a.lamports = a.accrued
  PROVE  LET b == after_claim(a, payout)
         IN  /\ b \in Account /\ b.exists = a.exists /\ b.key = a.key /\ b.count = a.count
             /\ b.volume = a.volume /\ b.tier = a.tier /\ b.earned = a.earned
             /\ b.lamports = a.lamports - payout /\ b.accrued = a.accrued - payout
<1>1. a.accrued \in Nat BY DEF Account
<1>2. saturating_sub(a.accrued, payout) = a.accrued - payout /\ a.accrued - payout \in Nat
  BY <1>1 DEF saturating_sub
<1>3. QED BY <1>2 DEF after_claim, Account

-----------------------------------------------------------------------------
(* Counting referees *)

\* Referees are finitely many, so that they can be counted.
LEMMA RefereesFinite == IsFiniteSet(Players) /\ \A r : IsFiniteSet(referees(r))
<1>1. IsFiniteSet(Players) BY ReferralAssumption, FS_Interval DEF Players
<1>2. \A r : referees(r) \subseteq Players BY DEF referees
<1>3. QED BY <1>1, <1>2, FS_Subset

\* Naming a referrer for the first time adds one referee to it alone.
LEMMA RefereeAdded ==
  ASSUME TypeOK, NEW p \in Players, NEW r \in Keys, referrer[p] = NoReferrer,
         referrer' = [referrer EXCEPT ![p] = r]
  PROVE  /\ Cardinality(referees(r)') = Cardinality(referees(r)) + 1
         /\ \A k \in Keys \ {r} : referees(k)' = referees(k)
<1>1. NoReferrer \notin Keys BY ReferralAssumption
<1>2. \A q \in Players : referrer'[q] = IF q = p THEN r ELSE referrer[q] BY DEF TypeOK
<1>3. referees(r)' = referees(r) \cup {p} /\ p \notin referees(r)
  BY <1>1, <1>2 DEF referees
<1>4. \A k \in Keys \ {r} : referees(k)' = referees(k) BY <1>1, <1>2 DEF referees
<1>5. IsFiniteSet(referees(r)) BY RefereesFinite
<1>6. Cardinality(referees(r) \cup {p}) = Cardinality(referees(r)) + 1
  BY <1>3, <1>5, FS_AddElement
<1>7. QED BY <1>3, <1>4, <1>6

\* It moves no volume, because p has played for nobody yet.
LEMMA CreditKept ==
  ASSUME TypeOK, Untouched, NEW p \in Players, NEW r \in Keys, referrer[p] = NoReferrer,
         referrer' = [referrer EXCEPT ![p] = r], played' = played
  PROVE  \A k \in Keys : credit(k)' = credit(k)
<1>1. NoReferrer \notin Keys BY ReferralAssumption
<1>2. \A q \in Players : referrer'[q] = IF q = p THEN r ELSE referrer[q] BY DEF TypeOK
<1>3. played[p] = 0 BY DEF Untouched
<1>4. ASSUME NEW k \in Keys, NEW q \in Players
      PROVE  (IF referrer'[q] = k THEN played'[q] ELSE 0) = (IF referrer[q] = k THEN played[q] ELSE 0)
  BY <1>1, <1>2, <1>3
<1>5. QED BY <1>4 DEF credit

\* A bet of p adds to the volume of p's referrer alone.
LEMMA CreditAdded ==
  ASSUME TypeOK, NEW p \in Players, NEW bet \in Nat, referrer[p] \in Keys,
         referrer' = referrer, played' = [played EXCEPT ![p] = @ + bet]
  PROVE  /\ Total(credit(referrer[p])', N) = Total(credit(referrer[p]), N) + bet
         /\ \A k \in Keys \ {referrer[p]} : credit(k)' = credit(k)
<1> DEFINE r == referrer[p]
           f == [q \in Players |-> IF referrer[q] = r THEN played[q] ELSE 0]
           h == [q \in Players |-> IF referrer[q] = r THEN played'[q] ELSE 0]
<1>1. \A q \in Players : played[q] \in Nat /\ played'[q] \in Nat
                         /\ played'[q] = IF q = p THEN played[q] + bet ELSE played[q]
  BY DEF TypeOK
<1>2. f \in [1..N -> Nat] /\ h \in [1..N -> Nat] BY <1>1 DEF Players
<1>3. p \in 1..N /\ h[p] = f[p] + bet /\ f[p] \in Nat /\ \A q \in 1..N \ {p} : h[q] = f[q]
  BY <1>1 DEF Players
<1>4. credit(r) = f /\ credit(r)' = h BY DEF credit
<1>5. \A k \in Keys \ {r} : credit(k)' = credit(k) BY <1>1 DEF credit
<1> HIDE DEF f, h
<1>6. N \in Nat BY ReferralAssumption
<1>7. Total(h, N) = Total(f, N) - f[p] + h[p] BY <1>2, <1>3, <1>6, TotalUpdate
<1>8. Total(f, N) \in Nat BY <1>2, <1>6, TotalNat
<1>9. Total(h, N) = Total(f, N) + bet BY <1>3, <1>7, <1>8
<1>10. QED BY <1>4, <1>5, <1>9

-----------------------------------------------------------------------------
(* The inductive invariant *)

\* Before any referral the invariant holds.
LEMMA InitEstablishes == Init => ReferralInv
<1> SUFFICES ASSUME Init PROVE ReferralInv OBVIOUS
<1> USE ReferralAssumption
<1>1. \A r \in Keys : account[r] = found(r) BY DEF Init
<1>2. \A r \in Keys : /\ account[r] \in Account /\ account[r].exists = (LeftCount[r] > 0)
                      /\ account[r].key = ZERO_KEY /\ account[r].tier = 0
                      /\ account[r].count = LeftCount[r] /\ account[r].volume = 0
                      /\ account[r].lamports = 0 /\ account[r].accrued = 0 /\ account[r].earned = 0
  BY <1>1, FoundFields
<1>3. TypeOK BY <1>2 DEF Init, TypeOK, Keys
<1>4. Untouched BY <1>1 DEF Init, Untouched
<1>5. \A p \in Players : referrer[p] = NoReferrer BY DEF Init
<1>6. ReferralReady BY <1>2, <1>5 DEF ReferralReady
<1>7. ClaimsBacked BY <1>2 DEF Init, ClaimsBacked
<1>8. RefereesCounted
  <2> SUFFICES ASSUME NEW r \in Keys
               PROVE  account[r].count = LeftCount[r] + Cardinality(referees(r)) /\ account[r].volume = Total(credit(r), N)
    BY DEF RefereesCounted
  <2>1. referees(r) = {} BY <1>5 DEF referees
  <2>2. Cardinality(referees(r)) = 0 BY <2>1, FS_EmptySet
  <2>3. credit(r) \in [1..N -> Nat] /\ \A q \in 1..N : credit(r)[q] = 0 BY <1>5 DEF credit, Players
  <2>4. Total(credit(r), N) = 0 BY <2>3, TotalZero
  <2>5. QED BY <1>2, <2>2, <2>4
<1>9. TierEarned BY <1>2 DEF TierEarned, tier_for_volume, Keys
<1>10. QED BY <1>3, <1>4, <1>6, <1>7, <1>8, <1>9 DEF ReferralInv

\* set_referrer keeps it.
LEMMA SetPreserves ==
  ASSUME ReferralInv, NEW p \in Players, NEW r \in Keys, set_referrer(p, r)
  PROVE  ReferralInv'
<1> DEFINE a == account[r]
           b == referred(a, r)
<1> USE DEF ReferralInv
<1>1. NoReferrer \notin Keys BY ReferralAssumption
<1>2. referrer[p] = NoReferrer /\ referrer' = [referrer EXCEPT ![p] = r]
      /\ account' = [account EXCEPT ![r] = b] /\ played' = played /\ claimed' = claimed
  BY DEF set_referrer, may_set
<1>3. a \in Account /\ (a.key # ZERO_KEY => a.exists /\ a.key = r) /\ (a.key # r => a.tier = 0)
  BY FoundFields DEF TypeOK, ReferralReady, Untouched
<1>4. /\ b \in Account /\ b.exists /\ b.key = r
      /\ b.count = a.count + 1
      /\ b.volume = a.volume /\ b.lamports = a.lamports
      /\ b.accrued = a.accrued /\ b.earned = a.earned
      /\ r # ZERO_KEY => b.tier = a.tier
  <2> HIDE DEF a
  <2>1. QED BY <1>3, KeyedFields
<1> HIDE DEF b
<1>5. \A k \in Keys : account'[k] = IF k = r THEN b ELSE account[k] BY <1>2 DEF TypeOK
<1>6. \A q \in Players : referrer'[q] = IF q = p THEN r ELSE referrer[q] BY <1>2 DEF TypeOK
<1>7. TypeOK' BY <1>2, <1>4 DEF TypeOK
<1>8. Untouched' BY <1>1, <1>2, <1>4, <1>5, <1>6 DEF Untouched
<1>9. ReferralReady'
  <2>1. ASSUME NEW k \in Keys, account'[k].exists, account'[k].key # k
        PROVE  account'[k].key = ZERO_KEY /\ account'[k].accrued = 0 /\ LeftCount[k] > 0
    BY <1>4, <1>5, <2>1 DEF ReferralReady
  <2>2. ASSUME NEW q \in Players, referrer'[q] # NoReferrer
        PROVE  account'[referrer'[q]].exists /\ account'[referrer'[q]].key = referrer'[q]
    <3>1. referrer'[q] \in Keys BY <1>7, <2>2 DEF TypeOK
    <3>2. CASE referrer'[q] = r BY <1>4, <1>5, <3>1, <3>2
    <3>3. CASE referrer'[q] # r
      <4>1. referrer'[q] = referrer[q] BY <1>6, <3>3
      <4>2. QED BY <1>5, <2>2, <3>1, <3>3, <4>1 DEF ReferralReady
    <3>4. QED BY <3>2, <3>3
  <2>3. QED BY <2>1, <2>2 DEF ReferralReady
<1>10. ClaimsBacked' BY <1>2, <1>4, <1>5 DEF ClaimsBacked
<1>11. RefereesCounted'
  <2>1. \A k \in Keys : credit(k)' = credit(k) BY <1>2, CreditKept
  <2>2. Cardinality(referees(r)') = Cardinality(referees(r)) + 1
        /\ \A k \in Keys \ {r} : referees(k)' = referees(k)
    BY <1>2, RefereeAdded
  <2>3. ASSUME NEW k \in Keys
        PROVE  account'[k].count = LeftCount[k] + Cardinality(referees(k)') /\ account'[k].volume = Total(credit(k)', N)
    <3>1. account[k].count = LeftCount[k] + Cardinality(referees(k)) /\ account[k].volume = Total(credit(k), N)
      BY DEF RefereesCounted
    <3>2. CASE k = r
      <4>1. LeftCount[k] \in Nat /\ Cardinality(referees(k)) \in Nat
        BY ReferralAssumption, RefereesFinite, FS_CardinalityType
      <4>2. QED BY <1>4, <1>5, <2>1, <2>2, <3>1, <3>2, <4>1
    <3>3. CASE k # r BY <1>5, <2>1, <2>2, <3>1, <3>3
    <3>4. QED BY <3>2, <3>3
  <2>4. QED BY <2>3 DEF RefereesCounted
<1>12. TierEarned'
  <2>1. Players \subseteq Keys /\ ZERO_KEY \notin Players BY DEF Keys, Players, ZERO_KEY
  <2>2. QED BY <1>4, <1>5, <2>1 DEF TierEarned
<1>13. QED BY <1>7, <1>8, <1>9, <1>10, <1>11, <1>12

\* pay_referral keeps it.
LEMMA PayPreserves ==
  ASSUME ReferralInv, NEW p \in Players, NEW bet \in Bets, NEW available \in Available,
         pay_referral(p, bet, available)
  PROVE  ReferralInv'
<1> DEFINE r == referrer[p]
           a == account[r]
           actual == min2(mul_div_floor(bet, referral_cut_bps(a.tier), BPS), available)
           b == credited(a, bet, actual)
<1> USE DEF ReferralInv
<1>1. NoReferrer \notin Keys /\ bet \in Nat /\ available \in Nat BY ReferralAssumption
<1>2. r # NoReferrer /\ a.exists /\ a.key = r /\ referrer' = referrer
      /\ played' = [played EXCEPT ![p] = @ + bet] /\ claimed' = claimed
  BY DEF pay_referral
<1>3. account' = [account EXCEPT ![r] = b] BY Zenon DEF pay_referral
<1>4. r \in Keys BY <1>2 DEF TypeOK
<1>5. a \in Account BY <1>4 DEF TypeOK
<1>6. actual \in Nat
  <2>1. a.tier \in 0..2 BY <1>5 DEF Account
  <2> HIDE DEF a
  <2>2. QED BY <1>1, <2>1, CutNat
<1>7. /\ b \in Account /\ b.exists = a.exists /\ b.key = a.key /\ b.count = a.count
      /\ b.volume = a.volume + bet /\ b.tier = tier_for_volume(b.volume)
      /\ b.lamports = a.lamports + actual /\ b.accrued = a.accrued + actual
      /\ b.earned = a.earned + actual
  <2> HIDE DEF a, actual
  <2>1. QED BY <1>1, <1>5, <1>6, CreditedFields
<1> HIDE DEF b, actual
<1>8. \A k \in Keys : account'[k] = IF k = r THEN b ELSE account[k] BY <1>3, <1>4 DEF TypeOK
<1>9. TypeOK'
  <2>1. played' \in [Players -> Nat] BY <1>1, <1>2 DEF TypeOK
  <2>2. account' \in [Keys -> Account] BY <1>3, <1>4, <1>7 DEF TypeOK
  <2>3. QED BY <1>2, <2>1, <2>2 DEF TypeOK
<1>10. Untouched'
  <2>1. \A q \in Players : referrer'[q] = NoReferrer => played'[q] = 0
    BY <1>2 DEF Untouched, TypeOK
  <2>2. \A k \in Keys : ~account'[k].exists \/ account'[k].key # k => account'[k] = found(k)
    BY <1>2, <1>7, <1>8 DEF Untouched
  <2>3. QED BY <2>1, <2>2 DEF Untouched
<1>11. ReferralReady'
  <2>1. \A k \in Keys : account'[k].exists = account[k].exists /\ account'[k].key = account[k].key
    BY <1>7, <1>8
  <2>2. \A q \in Players : referrer[q] # NoReferrer => referrer[q] \in Keys BY DEF TypeOK
  <2>3. \A k \in Keys : account'[k].key # k => account'[k].accrued = account[k].accrued
    BY <1>2, <1>7, <1>8
  <2>4. QED BY <1>2, <2>1, <2>2, <2>3 DEF ReferralReady
<1>12. ClaimsBacked'
  <2>1. a.lamports = a.accrued /\ a.earned = a.accrued + claimed[r] /\ a.accrued \in Nat /\ claimed[r] \in Nat
    BY <1>4, <1>5 DEF ClaimsBacked, TypeOK, Account
  <2>2. b.lamports = b.accrued /\ b.earned = b.accrued + claimed[r] BY <1>6, <1>7, <2>1
  <2>3. QED BY <1>2, <1>8, <2>2 DEF ClaimsBacked
<1>13. RefereesCounted'
  <2>1. \A k \in Keys : referees(k)' = referees(k) BY <1>2 DEF referees
  <2>2. Total(credit(r)', N) = Total(credit(r), N) + bet
        /\ \A k \in Keys \ {r} : credit(k)' = credit(k)
    BY <1>1, <1>2, <1>4, CreditAdded
  <2>3. ASSUME NEW k \in Keys
        PROVE  account'[k].count = LeftCount[k] + Cardinality(referees(k)') /\ account'[k].volume = Total(credit(k)', N)
    <3>1. account[k].count = LeftCount[k] + Cardinality(referees(k)) /\ account[k].volume = Total(credit(k), N)
      BY DEF RefereesCounted
    <3>2. CASE k = r
      <4>1. account'[r] = b BY <1>4, <1>8
      <4>2. a.count = LeftCount[r] + Cardinality(referees(r)) /\ a.volume = Total(credit(r), N) BY <3>1, <3>2
      <4>3. b.count = LeftCount[k] + Cardinality(referees(k)') BY <1>7, <2>1, <3>2, <4>2
      <4>4. credit(r)' = credit(k)' BY <1>2, <3>2
      <4>5. b.volume = Total(credit(k)', N) BY <1>7, <2>2, <4>2, <4>4
      <4>6. QED BY <3>2, <4>1, <4>3, <4>5
    <3>3. CASE k # r
      <4>1. account'[k] = account[k] BY <1>8, <3>3
      <4>2. QED BY <2>1, <2>2, <3>1, <3>3, <4>1
    <3>4. QED BY <3>2, <3>3
  <2>4. QED BY <2>3 DEF RefereesCounted
<1>14. TierEarned'
  <2>1. Players \subseteq Keys BY DEF Keys
  <2>2. QED BY <1>7, <1>8, <2>1 DEF TierEarned
<1>15. QED BY <1>9, <1>10, <1>11, <1>12, <1>13, <1>14

\* claim_referral keeps it.
LEMMA ClaimPreserves ==
  ASSUME ReferralInv, NEW r \in Players, claim_referral(r)
  PROVE  ReferralInv'
<1> DEFINE a == account[r]
           payout == claim_payout(a)
           b == after_claim(a, payout)
<1> USE DEF ReferralInv
<1>1. r \in Keys /\ Players \subseteq Keys BY DEF Keys
<1>2. a.exists /\ a.key = r /\ claimed' = [claimed EXCEPT ![r] = @ + payout]
      /\ referrer' = referrer /\ played' = played
  BY DEF claim_referral
<1>3. account' = [account EXCEPT ![r] = b] BY Zenon DEF claim_referral
<1>4. a \in Account /\ a.lamports = a.accrued /\ a.accrued \in Nat
      /\ a.earned = a.accrued + claimed[r] /\ claimed[r] \in Nat
  BY <1>1 DEF TypeOK, Account, ClaimsBacked
<1>5. payout = a.accrued BY <1>4 DEF claim_payout, min2
<1>6. /\ b \in Account /\ b.exists = a.exists /\ b.key = a.key /\ b.count = a.count
      /\ b.volume = a.volume /\ b.tier = a.tier /\ b.earned = a.earned
      /\ b.lamports = a.lamports - payout /\ b.accrued = a.accrued - payout
  <2>1. payout \in Nat /\ payout <= a.accrued BY <1>4, <1>5
  <2> HIDE DEF a, payout
  <2>2. QED BY <1>4, <2>1, ClaimedFields
<1> HIDE DEF b, payout
<1>7. \A k \in Keys : account'[k] = IF k = r THEN b ELSE account[k] BY <1>3 DEF TypeOK
<1>8. \A k \in Keys : claimed'[k] = IF k = r THEN claimed[k] + payout ELSE claimed[k]
  BY <1>2 DEF TypeOK
<1>9. TypeOK'
  <2>1. claimed' \in [Keys -> Nat] BY <1>1, <1>2, <1>4, <1>5 DEF TypeOK
  <2>2. account' \in [Keys -> Account] BY <1>1, <1>3, <1>6 DEF TypeOK
  <2>3. QED BY <1>2, <2>1, <2>2 DEF TypeOK
<1>10. Untouched' BY <1>2, <1>6, <1>7 DEF Untouched
<1>11. ReferralReady'
  <2>1. \A k \in Keys : account'[k].exists = account[k].exists /\ account'[k].key = account[k].key
    BY <1>6, <1>7
  <2>2. \A q \in Players : referrer[q] # NoReferrer => referrer[q] \in Keys BY DEF TypeOK
  <2>3. \A k \in Keys : account'[k].key # k => account'[k].accrued = account[k].accrued
    BY <1>2, <1>6, <1>7
  <2>4. QED BY <1>2, <2>1, <2>2, <2>3 DEF ReferralReady
<1>12. ClaimsBacked'
  <2>1. b.lamports = b.accrued /\ b.earned = b.accrued + claimed'[r] BY <1>1, <1>4, <1>5, <1>6, <1>8
  <2>2. QED BY <1>7, <1>8, <2>1 DEF ClaimsBacked
<1>13. RefereesCounted'
  <2>1. \A k \in Keys : referees(k)' = referees(k) /\ credit(k)' = credit(k)
    BY <1>2 DEF referees, credit
  <2>2. \A k \in Keys : account'[k].count = account[k].count /\ account'[k].volume = account[k].volume
    BY <1>6, <1>7
  <2>3. QED BY <2>1, <2>2 DEF RefereesCounted
<1>14. TierEarned' BY <1>1, <1>6, <1>7 DEF TierEarned
<1>15. QED BY <1>9, <1>10, <1>11, <1>12, <1>13, <1>14

\* repair_referral keeps it: the account it keys is as it was found.
LEMMA RepairPreserves ==
  ASSUME ReferralInv, NEW r \in Keys, repair_referral(r)
  PROVE  ReferralInv'
<1> DEFINE a == account[r]
           b == [a EXCEPT !.key = r]
<1> USE DEF ReferralInv
<1>1. a.exists /\ a.key # r /\ account' = [account EXCEPT ![r] = b]
      /\ referrer' = referrer /\ played' = played /\ claimed' = claimed
  BY DEF repair_referral
<1>2. a \in Account BY DEF TypeOK
<1>3. /\ b \in Account /\ b.exists = a.exists /\ b.key = r /\ b.tier = a.tier
      /\ b.count = a.count /\ b.volume = a.volume /\ b.lamports = a.lamports
      /\ b.accrued = a.accrued /\ b.earned = a.earned
  <2>1. b \in Account BY <1>2, Zenon DEF Account
  <2>2. QED BY <1>2, <2>1 DEF Account
<1> HIDE DEF b
<1>4. \A k \in Keys : account'[k] = IF k = r THEN b ELSE account[k] BY <1>1 DEF TypeOK
<1>5. TypeOK' BY <1>1, <1>3 DEF TypeOK
<1>6. Untouched'
  <2>1. \A q \in Players : referrer'[q] = NoReferrer => played'[q] = 0 BY <1>1 DEF Untouched
  <2>2. ASSUME NEW k \in Keys, ~account'[k].exists \/ account'[k].key # k
        PROVE  account'[k] = found(k)
    <3>1. k # r BY <1>1, <1>3, <1>4, <2>2
    <3>2. account'[k] = account[k] BY <1>4, <3>1
    <3>3. QED BY <2>2, <3>2 DEF Untouched
  <2>3. QED BY <2>1, <2>2 DEF Untouched
<1>7. ReferralReady'
  <2>1. \A q \in Players : referrer[q] # NoReferrer => referrer[q] \in Keys BY DEF TypeOK
  <2>2. QED BY <1>1, <1>3, <1>4, <2>1 DEF ReferralReady
<1>8. ClaimsBacked' BY <1>1, <1>3, <1>4 DEF ClaimsBacked
<1>9. RefereesCounted'
  <2>1. \A k \in Keys : referees(k)' = referees(k) /\ credit(k)' = credit(k)
    BY <1>1 DEF referees, credit
  <2>2. \A k \in Keys : account'[k].count = account[k].count /\ account'[k].volume = account[k].volume
    BY <1>3, <1>4
  <2>3. QED BY <2>1, <2>2 DEF RefereesCounted
<1>10. TierEarned'
  <2>1. Players \subseteq Keys BY DEF Keys
  <2>2. QED BY <1>3, <1>4, <2>1 DEF TierEarned
<1>11. QED BY <1>5, <1>6, <1>7, <1>8, <1>9, <1>10

\* The referral invariant: types, untouched accounts, and the four properties,
\* which need each other.  A claim pays what the books say because the account
\* holds it; a new referee brings no volume because nobody plays unreferred.
THEOREM ReferralInvariant == Spec => []ReferralInv
<1>1. ASSUME ReferralInv, [Next]_vars PROVE ReferralInv'
  <2>1. CASE \E p \in Players : \E r \in Keys : set_referrer(p, r) BY <1>1, <2>1, SetPreserves
  <2>2. CASE \E p \in Players : \E bet \in Bets : \E available \in Available :
               pay_referral(p, bet, available)
    BY <1>1, <2>2, PayPreserves
  <2>3. CASE \E r \in Players : claim_referral(r) BY <1>1, <2>3, ClaimPreserves
  <2>4. CASE UNCHANGED vars
    <3> USE <1>1, <2>4 DEF vars, ReferralInv
    <3>1. TypeOK' /\ Untouched' BY DEF TypeOK, Untouched
    <3>2. ReferralReady' /\ ClaimsBacked' BY DEF ReferralReady, ClaimsBacked
    <3>3. \A k \in Keys : referees(k)' = referees(k) /\ credit(k)' = credit(k) BY DEF referees, credit
    <3>4. RefereesCounted' BY <3>3 DEF RefereesCounted
    <3>5. TierEarned' BY DEF TierEarned
    <3>6. QED BY <3>1, <3>2, <3>4, <3>5
  <2>5. CASE \E r \in Keys : repair_referral(r) BY <1>1, <2>5, RepairPreserves
  <2>6. QED BY <1>1, <2>1, <2>2, <2>3, <2>4, <2>5 DEF Next
<1>2. QED BY <1>1, InitEstablishes, PTL DEF Spec

\* No settlement is refused for its player's referrer, and no claim for its key
\* (pay_referral, claim_referral).
THEOREM ReferralStaysReady == Spec => []ReferralReady
BY ReferralInvariant, PTL DEF ReferralInv

\* The account of a referrer always holds what it owes (claim_referral).
THEOREM ClaimsStayBacked == Spec => []ClaimsBacked
BY ReferralInvariant, PTL DEF ReferralInv

\* Count and volume are those of the players who name the referrer
\* (set_referrer, pay_referral).
THEOREM RefereesStayCounted == Spec => []RefereesCounted
BY ReferralInvariant, PTL DEF ReferralInv

\* The tier is always the one the volume earns (pay_referral).
THEOREM TierStaysEarned == Spec => []TierEarned
BY ReferralInvariant, PTL DEF ReferralInv

-----------------------------------------------------------------------------
(* ReferralLinks *)

WalletOrNone == Referrers \cup {None}
CodeOrNone == Codes \cup {None}

CodeRequest == [at : {"idle", "insert", "reread", "answered", "failed"}, wallet : WalletOrNone, attempt : Nat,
                code : CodeOrNone]
LinkPage == [wallet : WalletOrNone, code : CodeOrNone, waits : Nat, told : BOOLEAN]
Browser == [sid : Int, code : CodeOrNone, cookie : WalletOrNone, storage : BOOLEAN, local : WalletOrNone,
            player : Followers \cup {None}, pinged : BOOLEAN]
VisitRow == [code : CodeOrNone, wallet : Followers \cup {None}, signed : BOOLEAN]
SignupCall == [at : {"idle", "read", "update", "done"}, wallet : Followers \cup {None}, sid : Int]

LinksType ==
    /\ code_of \in [Referrers -> CodeOrNone]
    /\ mint \in [Requests -> CodeRequest]
    /\ page \in LinkPage
    /\ browser \in Browser
    /\ visit \in Seq(VisitRow)
    /\ signup \in [Pings -> SignupCall]

\* A code names one wallet.
OneWallet == \A v, w \in Referrers : code_of[v] = code_of[w] /\ code_of[v] # None => v = w

\* A request stays with its wallet, reads a row again only if there is one, and answers
\* with the code of the wallet.
Asks(q, codes) ==
    /\ q.at = "idle" <=> q.wallet = None
    /\ q.at = "reread" => codes[q.wallet] # None
    /\ q.at = "answered" => q.code = codes[q.wallet] /\ q.code # None

\* The page waits for a request of its own wallet, and has no code but that wallet's.
Shows ==
    /\ page.waits # 0 => page.waits \in Requests /\ page.wallet # None /\ mint[page.waits].wallet = page.wallet
    /\ page.told => page.wallet # None
    /\ page.code # None => page.wallet # None /\ page.code = code_of[page.wallet]

LinksInv == LinksType /\ OneWallet /\ (\A r \in Requests : Asks(mint[r], code_of)) /\ Shows /\ PendingIsLast

LEMMA LinksInitInv == LinksInit => LinksInv
<1> SUFFICES ASSUME LinksInit PROVE LinksInv OBVIOUS
<1> USE DEF WalletOrNone, CodeOrNone
<1>0. None \notin Referrers \cup Codes /\ InitCodes \subseteq [Referrers -> CodeOrNone]
      /\ \A f \in InitCodes : \A v, w \in Referrers : f[v] = f[w] /\ f[v] # None => v = w
  BY LinksAssumption
<1>1. code_of \in [Referrers -> CodeOrNone] /\ OneWallet BY <1>0 DEF LinksInit, OneWallet
<1>2. mint = [r \in Requests |-> no_request] /\ no_request \in CodeRequest /\ Asks(no_request, code_of)
  BY DEF LinksInit, no_request, CodeRequest, Asks
<1>3. page = no_page /\ no_page \in LinkPage BY DEF LinksInit, no_page, LinkPage
<1>4. \E s \in BOOLEAN : browser = [sid |-> 0, code |-> None, cookie |-> None, storage |-> s, local |-> None,
                                    player |-> None, pinged |-> FALSE]
  BY DEF LinksInit
<1>5. browser \in Browser /\ PendingIsLast BY <1>4 DEF Browser, LinksInit, PendingIsLast, getPendingReferrer
<1>6. signup \in [Pings -> SignupCall] BY DEF LinksInit, no_call, SignupCall
<1>7. visit \in Seq(VisitRow) BY DEF LinksInit
<1>8. Shows BY <1>3 DEF Shows, no_page
<1> QED BY <1>1, <1>2, <1>3, <1>5, <1>6, <1>7, <1>8 DEF LinksInv, LinksType

\* Steps that leave the codes and their requests alone.
LEMMA CodesAside ==
    ASSUME LinksInv, UNCHANGED <<code_of, mint, page>>, LinksType', PendingIsLast'
    PROVE  LinksInv'
BY DEF LinksInv, OneWallet, Asks, Shows

\* A request turns to q, while the wallets that have codes keep them.
LEMMA RequestStep ==
    ASSUME LinksInv, NEW r \in Requests, NEW q \in CodeRequest,
           mint' = [mint EXCEPT ![r] = q],
           mint[r].at # "idle" => q.wallet = mint[r].wallet,
           code_of' \in [Referrers -> CodeOrNone],
           \A w \in Referrers : code_of[w] # None => code_of'[w] = code_of[w],
           OneWallet', Asks(q, code_of'),
           UNCHANGED <<page, visit, signup, confirm, browser, starting, referrer_of, last, opened>>
    PROVE  LinksInv'
<1>1. LinksType' BY DEF LinksInv, LinksType
<1>2. mint \in [Requests -> CodeRequest] /\ mint'[r] = q /\ \A s \in Requests \ {r} : mint'[s] = mint[s]
  BY DEF LinksInv, LinksType
<1>3. ASSUME NEW s \in Requests PROVE Asks(mint'[s], code_of')
  <2>1. CASE s = r BY <1>2, <2>1
  <2>2. CASE s # r
    <3>1. Asks(mint[s], code_of) /\ mint'[s] = mint[s] BY <1>2, <2>2 DEF LinksInv
    <3>2. mint[s].wallet \in Referrers \/ mint[s].wallet = None BY <1>2 DEF CodeRequest, WalletOrNone
    <3>3. mint[s].at \in {"reread", "answered"} =>
             code_of[mint[s].wallet] # None /\ code_of'[mint[s].wallet] = code_of[mint[s].wallet]
      BY <3>1, <3>2 DEF Asks
    <3> QED BY <3>1, <3>3 DEF Asks
  <2> QED BY <2>1, <2>2
<1>4. Shows'
  <2>1. Shows /\ page' = page BY DEF LinksInv
  <2>2. ASSUME page.waits # 0 PROVE mint'[page.waits].wallet = page.wallet
    <3>1. page.waits \in Requests /\ page.wallet # None /\ mint[page.waits].wallet = page.wallet BY <2>1, <2>2 DEF Shows
    <3>2. mint[page.waits].at # "idle" BY <3>1 DEF LinksInv, Asks
    <3> QED BY <1>2, <3>1, <3>2
  <2>3. ASSUME page.code # None PROVE page.code = code_of'[page.wallet]
    <3>1. page.wallet # None /\ page.code = code_of[page.wallet] BY <2>1, <2>3 DEF Shows
    <3>2. page.wallet \in Referrers BY <3>1 DEF LinksInv, LinksType, LinkPage, WalletOrNone
    <3> QED BY <2>3, <3>1, <3>2
  <2> QED BY <2>1, <2>2, <2>3 DEF Shows
<1>5. PendingIsLast' BY DEF LinksInv, PendingIsLast, getPendingReferrer
<1> QED BY <1>1, <1>3, <1>4, <1>5 DEF LinksInv

\* The steps of a request for a code.
LEMMA RequestsKeep ==
    ASSUME LinksInv, NEW r \in Requests,
           (\E w \in Referrers : mint_begins(r, w)) \/ mint_inserts(r) \/ mint_rereads(r)
    PROVE  LinksInv'
<1> USE DEF WalletOrNone, CodeOrNone
<1> DEFINE q == mint[r]
<1>0. /\ q \in CodeRequest /\ Asks(q, code_of) /\ OneWallet /\ code_of \in [Referrers -> CodeOrNone]
      /\ None \notin Referrers \cup Codes
  BY LinksAssumption DEF LinksInv, LinksType
<1>1. ASSUME NEW v, request_becomes(r, v)
      PROVE  mint' = [mint EXCEPT ![r] = v]
             /\ UNCHANGED <<page, visit, signup, confirm, browser, starting, referrer_of, last, opened>>
  BY <1>1 DEF request_becomes
<1>2. ASSUME UNCHANGED code_of
      PROVE  /\ OneWallet' /\ code_of' \in [Referrers -> CodeOrNone]
             /\ \A w \in Referrers : code_of[w] # None => code_of'[w] = code_of[w]
  BY <1>0, <1>2 DEF OneWallet
<1>3. ASSUME NEW w \in Referrers, mint_begins(r, w) PROVE LinksInv'
  <2> DEFINE a == [[no_request EXCEPT !.wallet = w] EXCEPT !.at = "answered", !.code = code_of[w]]
             b == [[no_request EXCEPT !.wallet = w] EXCEPT !.at = "insert"]
  <2>1. UNCHANGED code_of /\ mint[r].at = "idle"
        /\ \/ code_of[w] # None /\ request_becomes(r, a)
           \/ request_becomes(r, b)
    BY <1>3 DEF mint_begins, answered
  <2>2. a \in CodeRequest /\ a.at = "answered" /\ a.code = code_of[w] /\ a.wallet = w
    BY <1>0 DEF no_request, CodeRequest
  <2>3. b \in CodeRequest /\ b.at = "insert" /\ b.wallet = w BY <1>0 DEF no_request, CodeRequest
  <2> HIDE DEF a, b
  <2>4. CASE code_of[w] # None /\ request_becomes(r, a)
    <3>1. Asks(a, code_of') BY <1>0, <2>1, <2>2, <2>4 DEF Asks
    <3> QED BY <1>1, <1>2, <2>1, <2>2, <2>4, <3>1, RequestStep
  <2>5. CASE request_becomes(r, b)
    <3>1. Asks(b, code_of') BY <1>0, <2>3 DEF Asks
    <3> QED BY <1>1, <1>2, <2>1, <2>3, <2>5, <3>1, RequestStep
  <2> QED BY <2>1, <2>4, <2>5
<1>4. ASSUME mint[r].at # "idle", UNCHANGED code_of, request_becomes(r, retried(q)) PROVE LinksInv'
  <2> DEFINE at == IF q.attempt + 1 < MAX_INSERT_RETRIES THEN "insert" ELSE "failed"
             n == q.attempt + 1
             t == [q EXCEPT !.at = at, !.attempt = n]
  <2>1. at \in {"insert", "failed"} /\ n \in Nat BY <1>0 DEF CodeRequest
  <2>2. retried(q) = t BY DEF retried
  <2> HIDE DEF at, n
  <2>3. t \in CodeRequest /\ t.at = at /\ t.wallet = q.wallet BY <1>0, <2>1 DEF CodeRequest
  <2>4. q.wallet # None BY <1>0, <1>4 DEF Asks
  <2> HIDE DEF t
  <2>5. Asks(t, code_of') BY <2>1, <2>3, <2>4 DEF Asks
  <2> QED BY <1>1, <1>2, <1>4, <2>2, <2>3, <2>5, RequestStep
<1>5. ASSUME NEW at \in {"reread", "failed"}, at = "reread" => code_of[q.wallet] # None,
             mint[r].at # "idle", UNCHANGED code_of, request_becomes(r, [q EXCEPT !.at = at])
      PROVE  LinksInv'
  <2> DEFINE t == [q EXCEPT !.at = at]
  <2>1. t \in CodeRequest /\ t.at = at /\ t.wallet = q.wallet BY <1>0 DEF CodeRequest
  <2>2. q.wallet # None BY <1>0, <1>5 DEF Asks
  <2> HIDE DEF t
  <2>3. Asks(t, code_of') BY <1>5, <2>1, <2>2 DEF Asks
  <2> QED BY <1>1, <1>2, <1>5, <2>1, <2>3, RequestStep DEF t
<1>6. CASE mint_inserts(r)
  <2>1. PICK code \in Codes :
           LET taken == \E w \in Referrers : code_of[w] = code
           IN  /\ q.at = "insert"
               /\ \/ /\ ~taken /\ code_of[q.wallet] = None
                     /\ code_of' = [code_of EXCEPT ![q.wallet] = code]
                     /\ request_becomes(r, answered(q, code))
                  \/ taken /\ request_becomes(r, retried(q)) /\ UNCHANGED code_of
                  \/ code_of[q.wallet] # None /\ request_becomes(r, conflict(q, code)) /\ UNCHANGED code_of
                  \/ request_becomes(r, [q EXCEPT !.at = "failed"]) /\ UNCHANGED code_of
    BY <1>6 DEF mint_inserts
  <2>2. q.wallet \in Referrers BY <1>0, <2>1 DEF Asks, CodeRequest
  <2>3. CASE /\ ~\E w \in Referrers : code_of[w] = code
             /\ code_of[q.wallet] = None
             /\ code_of' = [code_of EXCEPT ![q.wallet] = code]
             /\ request_becomes(r, answered(q, code))
    <3> DEFINE a == [q EXCEPT !.at = "answered", !.code = code]
    <3>1. a \in CodeRequest /\ a.at = "answered" /\ a.code = code /\ a.wallet = q.wallet BY <1>0 DEF CodeRequest
    <3>2. answered(q, code) = a BY DEF answered
    <3> HIDE DEF a
    <3>3. /\ code_of' \in [Referrers -> CodeOrNone] /\ code_of'[q.wallet] = code
          /\ \A w \in Referrers \ {q.wallet} : code_of'[w] = code_of[w]
      BY <1>0, <2>2, <2>3
    <3>4. \A w \in Referrers : code_of[w] # None => code_of'[w] = code_of[w] BY <2>3, <3>3
    <3>5. OneWallet' BY <1>0, <2>2, <2>3, <3>3 DEF OneWallet
    <3>6. Asks(a, code_of') BY <1>0, <2>2, <3>1, <3>3 DEF Asks
    <3>7. mint' = [mint EXCEPT ![r] = a]
          /\ UNCHANGED <<page, visit, signup, confirm, browser, starting, referrer_of, last, opened>>
      BY <1>1, <2>3, <3>2
    <3> HIDE DEF q
    <3>8. mint[r].at # "idle" => a.wallet = mint[r].wallet BY <3>1 DEF q
    <3> QED BY <3>1, <3>3, <3>4, <3>5, <3>6, <3>7, <3>8, RequestStep
  <2>4. CASE request_becomes(r, retried(q)) /\ UNCHANGED code_of BY <1>4, <2>1, <2>4
  <2>5. CASE code_of[q.wallet] # None /\ request_becomes(r, conflict(q, code)) /\ UNCHANGED code_of
    BY <1>5, <2>1, <2>5 DEF conflict
  <2>6. CASE request_becomes(r, [q EXCEPT !.at = "failed"]) /\ UNCHANGED code_of BY <1>5, <2>1, <2>6
  <2> QED BY <2>1, <2>3, <2>4, <2>5, <2>6
<1>7. CASE mint_rereads(r)
  <2>1. q.at = "reread" /\ UNCHANGED code_of
        /\ (request_becomes(r, answered(q, code_of[q.wallet])) \/ request_becomes(r, retried(q)))
    BY <1>7 DEF mint_rereads
  <2>2. q.wallet \in Referrers /\ code_of[q.wallet] # None BY <1>0, <2>1 DEF Asks, CodeRequest
  <2>3. CASE request_becomes(r, answered(q, code_of[q.wallet]))
    <3> DEFINE c == code_of[q.wallet]
               a == [q EXCEPT !.at = "answered", !.code = c]
    <3>1. c \in CodeOrNone /\ c # None BY <1>0, <2>2
    <3>2. answered(q, c) = a BY DEF answered
    <3>3. a \in CodeRequest /\ a.at = "answered" /\ a.code = c /\ a.wallet = q.wallet BY <1>0, <3>1 DEF CodeRequest
    <3> HIDE DEF a
    <3>4. Asks(a, code_of') BY <1>0, <2>1, <2>2, <3>3 DEF Asks
    <3> QED BY <1>1, <1>2, <2>1, <2>3, <3>2, <3>3, <3>4, RequestStep
  <2>4. CASE request_becomes(r, retried(q)) BY <1>4, <2>1, <2>4
  <2> QED BY <2>1, <2>3, <2>4
<1> QED BY <1>3, <1>6, <1>7

\* The steps of the referrals page.
LEMMA PageKeeps ==
    ASSUME LinksInv, (\E w \in Referrers : show_page(w)) \/ page_told \/ leave_page
    PROVE  LinksInv'
<1> USE DEF WalletOrNone, CodeOrNone
<1>0. /\ LinksType /\ Shows /\ PendingIsLast /\ page \in LinkPage /\ mint \in [Requests -> CodeRequest]
      /\ None \notin Referrers \cup Codes /\ Requests \subseteq Nat \ {0}
  BY LinksAssumption DEF LinksInv, LinksType
<1>1. ASSUME NEW n \in LinkPage, page_becomes(n),
             n.waits # 0 => n.waits \in Requests /\ n.wallet # None /\ mint[n.waits].wallet = n.wallet,
             n.told => n.wallet # None,
             n.code # None => n.wallet # None /\ n.code = code_of[n.wallet]
      PROVE  LinksInv'
  <2>1. page' = n /\ UNCHANGED <<code_of, mint, visit, signup, confirm, browser, starting, referrer_of, last, opened>>
    BY <1>1 DEF page_becomes
  <2>2. LinksType' BY <1>0, <2>1 DEF LinksType
  <2>3. Shows' BY <1>1, <2>1 DEF Shows
  <2>4. OneWallet' /\ \A r \in Requests : Asks(mint'[r], code_of') BY <2>1 DEF LinksInv, OneWallet
  <2>5. PendingIsLast' BY <1>0, <2>1 DEF PendingIsLast, getPendingReferrer
  <2> QED BY <2>2, <2>3, <2>4, <2>5 DEF LinksInv
<1>2. ASSUME NEW w \in Referrers, show_page(w) PROVE LinksInv'
  <2>1. page.wallet = None /\ page.waits = 0 /\ page.code = None /\ w # None BY <1>0, <1>2 DEF show_page, Shows
  <2>2. ASSUME NEW r \in in_cache(w),
               page_becomes([page EXCEPT !.wallet = w, !.code = mint[r].code, !.told = TRUE])
        PROVE  LinksInv'
    <3>1. r \in Requests /\ mint[r].wallet = w /\ mint[r].at = "answered" BY DEF in_cache
    <3>2. mint[r].code = code_of[w] /\ mint[r].code \in CodeOrNone BY <1>0, <3>1 DEF LinksInv, Asks, CodeRequest
    <3>3. PICK n : n = [page EXCEPT !.wallet = w, !.code = mint[r].code, !.told = TRUE] OBVIOUS
    <3>4. n \in LinkPage /\ n.wallet = w /\ n.code = code_of[w] /\ n.waits = 0
      BY <1>0, <2>1, <3>2, <3>3 DEF LinkPage
    <3> QED BY <1>1, <2>1, <2>2, <3>3, <3>4
  <2>3. ASSUME NEW r \in Requests, mint[r].wallet = w, page_becomes([page EXCEPT !.wallet = w, !.waits = r])
        PROVE  LinksInv'
    <3>1. PICK n : n = [page EXCEPT !.wallet = w, !.waits = r] OBVIOUS
    <3>2. n \in LinkPage /\ n.wallet = w /\ n.code = None /\ n.waits = r BY <1>0, <2>1, <3>1 DEF LinkPage
    <3> QED BY <1>1, <2>1, <2>3, <3>1, <3>2
  <2> QED BY <1>2, <2>2, <2>3 DEF show_page
<1>3. CASE page_told
  <2>1. page.waits # 0
        /\ \/ /\ mint[page.waits].at = "answered"
              /\ page_becomes([page EXCEPT !.code = mint[page.waits].code, !.waits = 0, !.told = TRUE])
           \/ page_becomes([page EXCEPT !.waits = 0, !.told = TRUE])
    BY <1>3 DEF page_told
  <2>2. page.waits \in Requests /\ page.wallet # None /\ mint[page.waits].wallet = page.wallet
    BY <1>0, <2>1 DEF Shows
  <2>3. CASE /\ mint[page.waits].at = "answered"
             /\ page_becomes([page EXCEPT !.code = mint[page.waits].code, !.waits = 0, !.told = TRUE])
    <3>1. mint[page.waits].code = code_of[page.wallet] /\ mint[page.waits].code \in CodeOrNone
      BY <1>0, <2>2, <2>3 DEF LinksInv, Asks, CodeRequest
    <3>2. PICK n : n = [page EXCEPT !.code = mint[page.waits].code, !.waits = 0, !.told = TRUE] OBVIOUS
    <3>3. n \in LinkPage /\ n.wallet = page.wallet /\ n.code = code_of[page.wallet] /\ n.waits = 0
      BY <1>0, <3>1, <3>2 DEF LinkPage
    <3> QED BY <1>1, <2>2, <2>3, <3>2, <3>3
  <2>4. CASE page_becomes([page EXCEPT !.waits = 0, !.told = TRUE])
    <3>1. PICK n : n = [page EXCEPT !.waits = 0, !.told = TRUE] OBVIOUS
    <3>2. n \in LinkPage /\ n.wallet = page.wallet /\ n.code = page.code /\ n.waits = 0 BY <1>0, <3>1 DEF LinkPage
    <3>3. n.code # None => n.code = code_of[n.wallet] BY <1>0, <3>2 DEF Shows
    <3> QED BY <1>1, <2>2, <2>4, <3>1, <3>2, <3>3
  <2> QED BY <2>1, <2>3, <2>4
<1>4. CASE leave_page
  <2>1. page_becomes(no_page) BY <1>4 DEF leave_page, without_wallet
  <2>2. no_page \in LinkPage /\ no_page.waits = 0 /\ ~no_page.told /\ no_page.code = None BY DEF no_page, LinkPage
  <2> QED BY <1>1, <2>1, <2>2
<1> QED BY <1>2, <1>3, <1>4

\* What a page keeps of a link is the last link; what it does not keep changes nothing.
LEMMA KeepsLast ==
    ASSUME PendingIsLast, None \notin Referrers, NEW b \in Browser, NEW w \in Referrers, NEW both \in BOOLEAN,
           b.storage = browser.storage, b.local = browser.local, b.cookie = browser.cookie, keeps(b, w, both)
    PROVE  /\ browser' \in Browser /\ PendingIsLast'
           /\ UNCHANGED <<starting, referrer_of>> /\ UNCHANGED open_calls
<1> DEFINE local == IF b.storage THEN w ELSE b.local
           cookie == IF both THEN w ELSE b.cookie
<1>1. /\ last' = IF b.storage \/ both THEN w ELSE last
      /\ browser' = [b EXCEPT !.local = local, !.cookie = cookie]
      /\ UNCHANGED <<starting, referrer_of>> /\ UNCHANGED open_calls
  BY DEF keeps, browser_becomes
<1>2. local \in WalletOrNone /\ cookie \in WalletOrNone BY DEF Browser, WalletOrNone
<1>3. /\ (b.storage => local = w) /\ (~b.storage => local = b.local)
      /\ (both => cookie = w) /\ (~both => cookie = b.cookie)
  OBVIOUS
<1> HIDE DEF local, cookie
<1>4. browser' \in Browser /\ browser'.storage = b.storage /\ browser'.local = local /\ browser'.cookie = cookie
  BY <1>1, <1>2 DEF Browser
<1>5. w # None OBVIOUS
<1>6. b.storage \in BOOLEAN BY DEF Browser
<1>7. PendingIsLast'
  <2>1. CASE b.storage BY <1>1, <1>3, <1>4, <1>5, <2>1 DEF PendingIsLast, getPendingReferrer
  <2>2. CASE ~b.storage /\ both BY <1>1, <1>3, <1>4, <2>2 DEF PendingIsLast, getPendingReferrer
  <2>3. CASE ~b.storage /\ ~both BY <1>1, <1>3, <1>4, <2>3 DEF PendingIsLast, getPendingReferrer
  <2> QED BY <1>6, <2>1, <2>2, <2>3
<1> QED BY <1>1, <1>4, <1>7

\* Steps of the browser that keep what it has of links.
LEMMA BrowserStep ==
    ASSUME LinksInv, UNCHANGED <<code_of, mint, page, signup>>, browser' \in Browser, PendingIsLast',
           visit' \in Seq(VisitRow)
    PROVE  LinksInv'
<1>1. LinksType' BY DEF LinksInv, LinksType
<1> QED BY <1>1, CodesAside

LEMMA LinkOpens == ASSUME LinksInv, open_link PROVE LinksInv'
<1> USE DEF WalletOrNone, CodeOrNone
<1>0. /\ PendingIsLast /\ browser \in Browser /\ visit \in Seq(VisitRow) /\ code_of \in [Referrers -> CodeOrNone]
      /\ None \notin Referrers /\ Visits \subseteq Nat
  BY LinksAssumption DEF LinksInv, LinksType
<1>1. PICK w \in Referrers :
         LET code  == code_of[w]
             known == browser.sid # 0 /\ browser.code = code
         IN  \E sid \in IF known THEN {browser.sid} ELSE {-1} \cup {s \in Visits : s = Len(visit) + 1} :
                LET b == [browser EXCEPT !.sid = sid, !.code = code]
                IN  /\ visit' = IF known \/ sid = -1 THEN visit
                                ELSE Append(visit, [code |-> code, wallet |-> None, signed |-> FALSE])
                    /\ keeps(b, w, TRUE) \/ (browser_becomes(b) /\ UNCHANGED last)
  BY DEF open_link
<1>2. UNCHANGED code_of BY DEF open_link
<1> DEFINE code == code_of[w]
           known == browser.sid # 0 /\ browser.code = code
           new == [code |-> code, wallet |-> None, signed |-> FALSE]
<1>3. PICK sid \in IF known THEN {browser.sid} ELSE {-1} \cup {s \in Visits : s = Len(visit) + 1} :
         /\ visit' = IF known \/ sid = -1 THEN visit ELSE Append(visit, new)
         /\ \/ keeps([browser EXCEPT !.sid = sid, !.code = code], w, TRUE)
            \/ browser_becomes([browser EXCEPT !.sid = sid, !.code = code]) /\ UNCHANGED last
  BY <1>1
<1>4. code \in CodeOrNone /\ new \in VisitRow BY <1>0 DEF VisitRow
<1>5. sid \in Int
  <2>1. browser.sid \in Int BY <1>0 DEF Browser
  <2> QED BY <1>0, <1>3, <2>1
<1> HIDE DEF known, new
<1>6. visit' \in Seq(VisitRow) BY <1>0, <1>3, <1>4
<1>7. PICK b : b = [browser EXCEPT !.sid = sid, !.code = code] OBVIOUS
<1>8. b \in Browser /\ b.storage = browser.storage /\ b.local = browser.local /\ b.cookie = browser.cookie
  <2> HIDE DEF code
  <2> QED BY <1>0, <1>4, <1>5, <1>7 DEF Browser
<1>9. /\ browser' \in Browser /\ PendingIsLast' /\ UNCHANGED open_calls
  <2>1. CASE keeps(b, w, TRUE) BY <1>0, <1>8, <2>1, KeepsLast
  <2>2. CASE browser_becomes(b) /\ UNCHANGED last
    BY <1>0, <1>8, <2>2 DEF browser_becomes, PendingIsLast, getPendingReferrer
  <2> QED BY <1>3, <1>7, <2>1, <2>2
<1> QED BY <1>2, <1>6, <1>9, BrowserStep DEF open_calls

\* Long links, and the players who take turns.
LEMMA PlayersTurn ==
    ASSUME LinksInv, open_long_link \/ log_in \/ reload_page
    PROVE  LinksInv'
<1>0. /\ PendingIsLast /\ browser \in Browser /\ visit \in Seq(VisitRow) /\ None \notin Referrers
  BY LinksAssumption DEF LinksInv, LinksType
<1>1. CASE open_long_link
  <2>1. PICK w \in Referrers : keeps(browser, w, FALSE) BY <1>1 DEF open_long_link
  <2>2. UNCHANGED tables BY <1>1 DEF open_long_link
  <2>3. /\ browser' \in Browser /\ PendingIsLast' /\ UNCHANGED open_calls BY <1>0, <2>1, KeepsLast
  <2> QED BY <1>0, <2>2, <2>3, BrowserStep DEF open_calls, tables
<1>2. ASSUME NEW p \in Followers \cup {None},
             browser_becomes([browser EXCEPT !.player = p, !.pinged = FALSE]), UNCHANGED tables, UNCHANGED last
      PROVE  LinksInv'
  <2>1. PICK b : b = [browser EXCEPT !.player = p, !.pinged = FALSE] OBVIOUS
  <2>2. b \in Browser /\ b.storage = browser.storage /\ b.local = browser.local /\ b.cookie = browser.cookie
    BY <1>0, <2>1 DEF Browser
  <2>3. browser' = b /\ UNCHANGED open_calls BY <1>2, <2>1 DEF browser_becomes
  <2>4. PendingIsLast' BY <1>0, <1>2, <2>2, <2>3 DEF PendingIsLast, getPendingReferrer
  <2> QED BY <1>0, <1>2, <2>2, <2>3, <2>4, BrowserStep DEF open_calls, tables
<1>3. CASE log_in
  <2>1. PICK p \in Followers : browser_becomes([browser EXCEPT !.player = p, !.pinged = FALSE])
                              /\ UNCHANGED tables /\ UNCHANGED last
    BY <1>3 DEF log_in
  <2> QED BY <1>2, <2>1
<1>4. CASE reload_page
  <2>1. browser_becomes([browser EXCEPT !.pinged = FALSE]) /\ UNCHANGED tables /\ UNCHANGED last
    BY <1>4 DEF reload_page
  <2>2. browser.player \in Followers \cup {None} BY <1>0 DEF Browser
  <2>3. [browser EXCEPT !.pinged = FALSE] = [browser EXCEPT !.player = browser.player, !.pinged = FALSE]
    BY <1>0 DEF Browser
  <2> QED BY <1>2, <2>1, <2>2, <2>3
<1> QED BY <1>1, <1>3, <1>4

\* A visit keeps the wallet that signed up first, whatever a call does to its row.
LEMMA VisitKept ==
    ASSUME NEW rows \in Seq(VisitRow), NEW i \in Int, NEW row \in VisitRow,
           i \in DOMAIN rows => (rows[i].wallet # None => row.wallet = rows[i].wallet),
           NEW after, after = [rows EXCEPT ![i] = row]
    PROVE  /\ after \in Seq(VisitRow)
           /\ \A k \in DOMAIN rows : rows[k].wallet # None => after[k].wallet = rows[k].wallet
<1>1. CASE i \notin DOMAIN rows
  <2>1. after = rows BY <1>1
  <2> QED BY <2>1
<1>2. CASE i \in DOMAIN rows
  <2>1. after \in Seq(VisitRow) BY <1>2
  <2>2. after[i] = row /\ \A k \in DOMAIN rows \ {i} : after[k] = rows[k] BY <1>2
  <2> QED BY <1>2, <2>1, <2>2
<1> QED BY <1>1, <1>2

\* Signups and confirmations: a row that has a wallet keeps it.
LEMMA CallsKeep ==
    ASSUME LinksInv,
           \/ \E s \in Pings : ping(s) \/ signup_reads(s) \/ signup_updates(s)
           \/ \E p \in Followers : confirm_writes(p)
    PROVE  /\ LinksInv'
           /\ \A i \in DOMAIN visit : visit[i].wallet # None => visit'[i].wallet = visit[i].wallet
<1>0. /\ LinksType /\ PendingIsLast /\ browser \in Browser /\ visit \in Seq(VisitRow)
      /\ signup \in [Pings -> SignupCall]
  BY DEF LinksInv, LinksType
<1>1. ASSUME UNCHANGED <<code_of, mint, page, last>>, browser' \in Browser, signup' \in [Pings -> SignupCall],
             browser'.storage = browser.storage, browser'.local = browser.local, browser'.cookie = browser.cookie,
             visit' \in Seq(VisitRow)
      PROVE  LinksInv'
  <2>1. LinksType' BY <1>0, <1>1 DEF LinksType
  <2>2. PendingIsLast' BY <1>0, <1>1 DEF PendingIsLast, getPendingReferrer
  <2> QED BY <1>1, <2>1, <2>2, CodesAside
<1>2. ASSUME NEW s \in Pings, ping(s)
      PROVE  LinksInv' /\ \A i \in DOMAIN visit : visit[i].wallet # None => visit'[i].wallet = visit[i].wallet
  <2>1. /\ browser' = [browser EXCEPT !.pinged = TRUE] /\ signup' = [signup EXCEPT ![s] = signup_call(browser)]
        /\ UNCHANGED visit /\ UNCHANGED <<code_of, mint, page, last>>
    BY <1>2 DEF ping, only_calls
  <2>2. signup_call(browser) \in SignupCall BY <1>0 DEF signup_call, no_call, SignupCall, Browser
  <2>3. PICK c \in SignupCall : c = signup_call(browser) BY <2>2
  <2>4. signup' \in [Pings -> SignupCall] BY <1>0, <2>1, <2>3
  <2>5. /\ browser' \in Browser /\ browser'.storage = browser.storage /\ browser'.local = browser.local
        /\ browser'.cookie = browser.cookie
    BY <1>0, <2>1 DEF Browser
  <2>6. LinksInv' BY <1>0, <1>1, <2>1, <2>4, <2>5
  <2> QED BY <2>1, <2>6
<1>3. ASSUME NEW s \in Pings, NEW c \in SignupCall, call_becomes(s, c), visit' \in Seq(VisitRow) PROVE LinksInv'
  <2>1. signup' = [signup EXCEPT ![s] = c] /\ UNCHANGED browser /\ UNCHANGED <<code_of, mint, page, last>>
    BY <1>3 DEF call_becomes, only_calls
  <2>2. signup' \in [Pings -> SignupCall] BY <1>0, <2>1
  <2> QED BY <1>0, <1>1, <1>3, <2>1, <2>2
<1>4. call_over \in SignupCall BY DEF call_over, no_call, SignupCall
<1>5. ASSUME NEW s \in Pings, signup_reads(s)
      PROVE  LinksInv' /\ \A i \in DOMAIN visit : visit[i].wallet # None => visit'[i].wallet = visit[i].wallet
  <2>1. UNCHANGED visit /\ (call_becomes(s, [signup[s] EXCEPT !.at = "update"]) \/ call_becomes(s, call_over))
    BY <1>5 DEF signup_reads
  <2>2. signup[s] \in SignupCall BY <1>0
  <2>3. PICK c : c = [signup[s] EXCEPT !.at = "update"] OBVIOUS
  <2>4. c \in SignupCall BY <2>2, <2>3 DEF SignupCall
  <2>5. LinksInv' BY <1>0, <1>3, <1>4, <2>1, <2>3, <2>4
  <2> QED BY <2>1, <2>5
<1>6. ASSUME NEW s \in Pings, signup_updates(s)
      PROVE  LinksInv' /\ \A i \in DOMAIN visit : visit[i].wallet # None => visit'[i].wallet = visit[i].wallet
  <2> DEFINE q == signup[s]
  <2>1. call_becomes(s, call_over) /\ (visit' = [visit EXCEPT ![q.sid] = updated(@, q.wallet)] \/ UNCHANGED visit)
    BY <1>6 DEF signup_updates
  <2>2. q.sid \in Int /\ q.wallet \in Followers \cup {None} BY <1>0 DEF SignupCall
  <2>3. visit' \in Seq(VisitRow) /\ \A i \in DOMAIN visit : visit[i].wallet # None => visit'[i].wallet = visit[i].wallet
    <3>1. CASE q.sid \in DOMAIN visit /\ visit' = [visit EXCEPT ![q.sid] = updated(visit[q.sid], q.wallet)]
      <4>1. visit[q.sid] \in VisitRow BY <1>0, <3>1
      <4>2. /\ updated(visit[q.sid], q.wallet) \in VisitRow
            /\ visit[q.sid].wallet # None => updated(visit[q.sid], q.wallet).wallet = visit[q.sid].wallet
        BY <2>2, <4>1 DEF updated, VisitRow
      <4>3. PICK row \in VisitRow : row = updated(visit[q.sid], q.wallet) BY <4>2
      <4> HIDE DEF q
      <4> QED BY <1>0, <2>2, <3>1, <4>2, <4>3, VisitKept
    <3>2. CASE UNCHANGED visit BY <1>0, <3>2
    <3>3. CASE q.sid \notin DOMAIN visit /\ visit' = [visit EXCEPT ![q.sid] = updated(visit[q.sid], q.wallet)]
      <4>1. visit' = visit BY <1>0, <3>3
      <4> QED BY <1>0, <4>1
    <3> QED BY <2>1, <3>1, <3>2, <3>3
  <2> QED BY <1>3, <1>4, <2>1, <2>3
<1>7. ASSUME NEW p \in Followers, confirm_writes(p)
      PROVE  LinksInv' /\ \A i \in DOMAIN visit : visit[i].wallet # None => visit'[i].wallet = visit[i].wallet
  <2>1. /\ UNCHANGED <<signup, browser>> /\ UNCHANGED <<code_of, mint, page, last>>
        /\ \/ \E i \in visits_of(p) : visit' = [visit EXCEPT ![i].signed = TRUE]
           \/ UNCHANGED visit
    BY <1>7 DEF confirm_writes, only_calls
  <2>2. visit' \in Seq(VisitRow) /\ \A i \in DOMAIN visit : visit[i].wallet # None => visit'[i].wallet = visit[i].wallet
    <3>1. ASSUME NEW i \in visits_of(p), visit' = [visit EXCEPT ![i].signed = TRUE]
          PROVE  visit' \in Seq(VisitRow) /\ \A k \in DOMAIN visit : visit[k].wallet # None => visit'[k].wallet = visit[k].wallet
      <4>1. i \in DOMAIN visit /\ i \in Int /\ visit[i] \in VisitRow BY <1>0 DEF visits_of
      <4>2. PICK row : row = [visit[i] EXCEPT !.signed = TRUE] OBVIOUS
      <4>3. row \in VisitRow /\ row.wallet = visit[i].wallet BY <4>1, <4>2 DEF VisitRow
      <4>4. visit' = [visit EXCEPT ![i] = row] BY <1>0, <3>1, <4>1, <4>2
      <4> QED BY <1>0, <4>1, <4>3, <4>4, VisitKept
    <3> QED BY <1>0, <2>1, <3>1
  <2>3. browser' = browser /\ signup' = signup BY <2>1
  <2>4. LinksInv' BY <1>0, <1>1, <2>1, <2>2, <2>3
  <2> QED BY <2>2, <2>4
<1> QED BY <1>2, <1>5, <1>6, <1>7

\* The first round.
LEMMA RoundStarts ==
    ASSUME LinksInv, start_game \/ start_ends
    PROVE  LinksInv' /\ UNCHANGED visit
<1>0. /\ LinksType /\ PendingIsLast /\ browser \in Browser
  BY DEF LinksInv, LinksType
<1>1. CASE start_game
  <2>1. UNCHANGED <<code_of, visit, mint, page, signup, browser, last>> BY <1>1 DEF start_game, tables, open_calls
  <2>2. LinksType' /\ PendingIsLast' BY <1>0, <2>1 DEF LinksType, PendingIsLast, getPendingReferrer
  <2> QED BY <2>1, <2>2, CodesAside
<1>2. CASE start_ends
  <2>1. UNCHANGED <<code_of, visit, mint, page, signup>>
        /\ \/ browser' = cleared(browser) /\ last' = None
           \/ UNCHANGED <<browser, last>>
    BY <1>2 DEF start_ends, tables
  <2>2. browser' \in Browser /\ PendingIsLast'
    <3>1. CASE browser' = cleared(browser) /\ last' = None
      <4>1. browser' \in Browser /\ browser'.local = None /\ browser'.cookie = None
        BY <1>0, <3>1 DEF cleared, Browser, WalletOrNone
      <4> QED BY <3>1, <4>1 DEF PendingIsLast, getPendingReferrer
    <3>2. CASE UNCHANGED <<browser, last>> BY <1>0, <3>2 DEF PendingIsLast, getPendingReferrer
    <3> QED BY <2>1, <3>1, <3>2
  <2>3. LinksType' BY <1>0, <2>1, <2>2 DEF LinksType
  <2> QED BY <2>1, <2>2, <2>3, CodesAside
<1> QED BY <1>1, <1>2

LEMMA LinksNextInv == LinksInv /\ [LinksNext]_linkVars => LinksInv'
<1> SUFFICES ASSUME LinksInv, [LinksNext]_linkVars PROVE LinksInv' OBVIOUS
<1>1. CASE UNCHANGED linkVars
  <2>1. UNCHANGED <<code_of, mint, page, visit, signup, browser, last>> BY <1>1 DEF linkVars
  <2>2. LinksType' /\ PendingIsLast' BY <2>1 DEF LinksInv, LinksType, PendingIsLast, getPendingReferrer
  <2> QED BY <2>1, <2>2, CodesAside
<1>2. CASE \E r \in Requests : (\E w \in Referrers : mint_begins(r, w)) \/ mint_inserts(r) \/ mint_rereads(r)
  BY <1>2, RequestsKeep
<1>3. CASE (\E w \in Referrers : show_page(w)) \/ page_told \/ leave_page BY <1>3, PageKeeps
<1>4. CASE open_link BY <1>4, LinkOpens
<1>5. CASE open_long_link \/ log_in \/ reload_page BY <1>5, PlayersTurn
<1>6. CASE \/ \E s \in Pings : ping(s) \/ signup_reads(s) \/ signup_updates(s)
           \/ \E p \in Followers : confirm_writes(p)
  BY <1>6, CallsKeep
<1>7. CASE start_game \/ start_ends BY <1>7, RoundStarts
<1> QED BY <1>1, <1>2, <1>3, <1>4, <1>5, <1>6, <1>7 DEF LinksNext

LEMMA VisitsKeep ==
    LinksInv /\ [LinksNext]_linkVars =>
        [\A i \in DOMAIN visit : visit[i].wallet # None => visit'[i].wallet = visit[i].wallet]_linkVars
<1> SUFFICES ASSUME LinksInv, [LinksNext]_linkVars
             PROVE  \/ UNCHANGED linkVars
                    \/ \A i \in DOMAIN visit : visit[i].wallet # None => visit'[i].wallet = visit[i].wallet
  OBVIOUS
<1>1. CASE UNCHANGED linkVars BY <1>1
<1>2. CASE \/ \E r \in Requests : (\E w \in Referrers : mint_begins(r, w)) \/ mint_inserts(r) \/ mint_rereads(r)
           \/ \E w \in Referrers : show_page(w)
           \/ page_told \/ leave_page \/ open_long_link \/ log_in \/ reload_page
  <2>1. UNCHANGED visit
    <3>1. ASSUME NEW r \in Requests, (\E w \in Referrers : mint_begins(r, w)) \/ mint_inserts(r) \/ mint_rereads(r)
          PROVE  UNCHANGED visit
      BY <3>1 DEF mint_begins, mint_inserts, mint_rereads, request_becomes
    <3>2. ASSUME (\E w \in Referrers : show_page(w)) \/ page_told \/ leave_page PROVE UNCHANGED visit
      BY <3>2 DEF show_page, page_told, leave_page, page_becomes
    <3>3. ASSUME open_long_link \/ log_in \/ reload_page PROVE UNCHANGED visit
      BY <3>3 DEF open_long_link, log_in, reload_page, tables
    <3> QED BY <1>2, <3>1, <3>2, <3>3
  <2> QED BY <2>1
<1>3. CASE open_link
  <2>1. visit \in Seq(VisitRow) BY DEF LinksInv, LinksType
  <2>2. visit' = visit \/ \E code : visit' = Append(visit, [code |-> code, wallet |-> None, signed |-> FALSE])
    BY <1>3 DEF open_link
  <2>3. ASSUME NEW code, visit' = Append(visit, [code |-> code, wallet |-> None, signed |-> FALSE])
        PROVE  \A i \in DOMAIN visit : visit'[i] = visit[i]
    BY <2>1, <2>3
  <2> QED BY <2>2, <2>3
<1>4. CASE \/ \E s \in Pings : ping(s) \/ signup_reads(s) \/ signup_updates(s)
           \/ \E p \in Followers : confirm_writes(p)
  BY <1>4, CallsKeep
<1>5. CASE start_game \/ start_ends BY <1>5, RoundStarts
<1> QED BY <1>1, <1>2, <1>3, <1>4, <1>5 DEF LinksNext

\* Every answer to a request for a code, and the link on the referrals page, lead to the
\* wallet they stand for; and the referrer a browser would set is the one of the last link
\* it kept (referral-codes.ts, app/referrals, use-referral.ts).
THEOREM LinksLeadHome == LinksSpec => []LinksLead
<1>1. LinksInv => LinksLead
  <2> SUFFICES ASSUME LinksInv PROVE AnswersAgree /\ PendingIsLast BY DEF LinksLead
  <2>1. /\ OneWallet /\ Shows /\ page \in LinkPage /\ mint \in [Requests -> CodeRequest]
        /\ \A r \in Requests : Asks(mint[r], code_of)
    BY DEF LinksInv, LinksType
  <2>2. ASSUME page.told PROVE page.code \in {None, code_of[page.wallet]} /\ leads_to(page) = page.wallet
    <3>1. page.wallet \in Referrers BY <2>1, <2>2 DEF Shows, LinkPage, WalletOrNone
    <3>2. CASE page.code = None BY <3>2 DEF leads_to
    <3>3. CASE page.code # None
      <4>1. page.code = code_of[page.wallet] BY <2>1, <3>3 DEF Shows
      <4>2. \A w \in Referrers : code_of[w] = page.code <=> w = page.wallet BY <2>1, <3>1, <3>3, <4>1 DEF OneWallet
      <4>3. (CHOOSE w \in Referrers : code_of[w] = page.code) = page.wallet BY <3>1, <4>2
      <4> QED BY <3>3, <4>1, <4>3 DEF leads_to
    <3> QED BY <3>2, <3>3
  <2>3. ASSUME NEW r \in DOMAIN mint, mint[r].at = "answered"
        PROVE  /\ mint[r].code = code_of[mint[r].wallet]
               /\ \A w \in Referrers \ {mint[r].wallet} : code_of[w] # mint[r].code
    <3>1. r \in Requests /\ mint[r] \in CodeRequest BY <2>1
    <3>2. mint[r].code = code_of[mint[r].wallet] /\ mint[r].code # None /\ mint[r].wallet \in Referrers
      BY <2>1, <2>3, <3>1 DEF Asks, CodeRequest, WalletOrNone
    <3> QED BY <2>1, <3>2 DEF OneWallet
  <2> QED BY <2>2, <2>3 DEF AnswersAgree, LinksInv
<1> QED BY <1>1, LinksInitInv, LinksNextInv, PTL DEF LinksSpec

\* A visit stays with the wallet that signed up first, however many pings of several
\* players run at once (referral-tracking.ts, recordSignup).
THEOREM VisitsStayAttributed == LinksSpec => AttributedOnce
BY LinksInitInv, LinksNextInv, VisitsKeep, PTL DEF LinksSpec, AttributedOnce


-----------------------------------------------------------------------------
(* ReferralRollup: what a set of accruals adds up to *)

picked(s) == CHOOSE x \in s : TRUE

Summable(T) == IsFiniteSet(T) /\ \A t \in T : t.amount \in Nat

\* F holds the sums of the subsets of T.
SumsOf(F, T) ==
    /\ F \in [SUBSET T -> Nat]
    /\ F[{}] = 0
    /\ \A s \in SUBSET T : s # {} => F[s] = picked(s).amount + F[s \ {picked(s)}]

\* The same as long as the subsets are of n elements at most.
SumsUpto(F, T, n) ==
    /\ F \in [SUBSET T -> Nat]
    /\ F[{}] = 0
    /\ \A s \in SUBSET T : s # {} /\ Cardinality(s) <= n => F[s] = picked(s).amount + F[s \ {picked(s)}]

\* A subset without one of its elements.
LEMMA Without ==
  ASSUME NEW T, Summable(T), NEW s \in SUBSET T, NEW x \in s
  PROVE  /\ IsFiniteSet(s) /\ Cardinality(s) \in Nat /\ Cardinality(s) # 0
         /\ s \ {x} \in SUBSET T /\ IsFiniteSet(s \ {x}) /\ Cardinality(s \ {x}) = Cardinality(s) - 1
         /\ x.amount \in Nat
<1>1. IsFiniteSet(s) /\ x.amount \in Nat /\ s \ {x} \in SUBSET T BY FS_Subset DEF Summable
<1>2. Cardinality(s) \in Nat BY <1>1, FS_CardinalityType
<1>3. IsFiniteSet(s \ {x}) /\ Cardinality(s \ {x}) = Cardinality(s) - 1 BY <1>1, FS_RemoveElement
<1>4. Cardinality(s \ {x}) \in Nat BY <1>3, FS_CardinalityType
<1>5. Cardinality(s) # 0 BY <1>2, <1>3, <1>4
<1>6. QED BY <1>1, <1>2, <1>3, <1>5

LEMMA Picked == ASSUME NEW s, s # {} PROVE picked(s) \in s
BY DEF picked

LEMMA SumsExtend ==
  ASSUME NEW T, Summable(T), NEW n \in Nat, NEW F, SumsUpto(F, T, n)
  PROVE  \E G : SumsUpto(G, T, n + 1)
<1> DEFINE G == [s \in SUBSET T |-> IF s = {} THEN 0 ELSE picked(s).amount + F[s \ {picked(s)}]]
<1>1. F \in [SUBSET T -> Nat] /\ F[{}] = 0 BY DEF SumsUpto
<1>2. ASSUME NEW s \in SUBSET T, s # {}
      PROVE  /\ picked(s).amount + F[s \ {picked(s)}] \in Nat
             /\ s \ {picked(s)} \in SUBSET T /\ Cardinality(s \ {picked(s)}) = Cardinality(s) - 1
             /\ Cardinality(s) \in Nat
  <2>1. picked(s) \in s BY <1>2, Picked
  <2>2. picked(s).amount \in Nat /\ s \ {picked(s)} \in SUBSET T /\ Cardinality(s) \in Nat
        /\ Cardinality(s \ {picked(s)}) = Cardinality(s) - 1
    BY <2>1, Without
  <2>3. F[s \ {picked(s)}] \in Nat BY <1>1, <2>2
  <2>4. QED BY <2>2, <2>3
<1>3. G \in [SUBSET T -> Nat]
  <2>1. ASSUME NEW s \in SUBSET T
        PROVE  (IF s = {} THEN 0 ELSE picked(s).amount + F[s \ {picked(s)}]) \in Nat
    BY <1>2
  <2>2. QED BY <2>1
<1>4. G[{}] = 0 OBVIOUS
<1>5. ASSUME NEW s \in SUBSET T, s # {} PROVE G[s] = picked(s).amount + F[s \ {picked(s)}] BY <1>5
<1> HIDE DEF G
<1>6. ASSUME NEW s \in SUBSET T, s # {}, Cardinality(s) <= n + 1
      PROVE  G[s] = picked(s).amount + G[s \ {picked(s)}]
  <2> DEFINE r == s \ {picked(s)}
  <2>1. r \in SUBSET T /\ Cardinality(r) <= n BY <1>2, <1>6
  <2>2. G[s] = picked(s).amount + F[r] BY <1>5, <1>6
  <2> HIDE DEF r
  <2>3. G[r] = F[r]
    <3>1. CASE r = {} BY <1>1, <1>4, <3>1
    <3>2. CASE r # {}
      <4>1. F[r] = picked(r).amount + F[r \ {picked(r)}] BY <2>1, <3>2 DEF SumsUpto
      <4>2. G[r] = picked(r).amount + F[r \ {picked(r)}] BY <1>5, <2>1, <3>2
      <4>3. QED BY <4>1, <4>2
    <3>3. QED BY <3>1, <3>2
  <2>4. QED BY <2>2, <2>3 DEF r
<1>7. SumsUpto(G, T, n + 1) BY <1>3, <1>4, <1>6 DEF SumsUpto
<1>8. QED BY <1>7

LEMMA SumsExist == ASSUME NEW T, Summable(T) PROVE \E F : SumsOf(F, T)
<1> DEFINE Bad == {n \in Nat : ~\E F : SumsUpto(F, T, n)}
<1>1. Bad = {}
  <2>1. SUFFICES ASSUME Bad # {} PROVE FALSE OBVIOUS
  <2>2. PICK m \in Bad : \A k \in Bad : m <= k
    <3>1. Bad \subseteq Nat OBVIOUS
    <3> HIDE DEF Bad
    <3>2. QED BY <2>1, <3>1, NatMin
  <2>3. m \in Nat /\ ~\E F : SumsUpto(F, T, m) BY <2>2
  <2>4. CASE m = 0
    <3> DEFINE G == [s \in SUBSET T |-> 0]
    <3>1. G \in [SUBSET T -> Nat] /\ G[{}] = 0 OBVIOUS
    <3>2. ASSUME NEW s \in SUBSET T, s # {} PROVE ~(Cardinality(s) <= 0)
      <4>1. PICK x \in s : TRUE BY <3>2
      <4>2. Cardinality(s) \in Nat /\ Cardinality(s) # 0 BY <4>1, Without
      <4>3. QED BY <4>2
    <3> HIDE DEF G
    <3>3. SumsUpto(G, T, 0) BY <3>1, <3>2 DEF SumsUpto
    <3>4. QED BY <2>3, <2>4, <3>3
  <2>5. CASE m # 0
    <3>1. m - 1 \in Nat /\ m - 1 \notin Bad /\ (m - 1) + 1 = m BY <2>2, <2>3, <2>5
    <3>2. PICK F : SumsUpto(F, T, m - 1) BY <3>1
    <3> HIDE DEF Bad
    <3>3. \E G : SumsUpto(G, T, (m - 1) + 1) BY <3>1, <3>2, SumsExtend
    <3>4. QED BY <2>3, <3>1, <3>3
  <2>6. QED BY <2>4, <2>5
<1>2. Cardinality(T) \in Nat BY FS_CardinalityType DEF Summable
<1>3. PICK F : SumsUpto(F, T, Cardinality(T)) BY <1>1, <1>2
<1>4. \A s \in SUBSET T : Cardinality(s) <= Cardinality(T) BY FS_Subset DEF Summable
<1>5. SumsOf(F, T) BY <1>3, <1>4 DEF SumsOf, SumsUpto
<1>6. QED BY <1>5

\* The sum does not depend on the order.
LEMMA AnyOrder ==
  ASSUME NEW T, Summable(T), NEW F, SumsOf(F, T)
  PROVE  \A s \in SUBSET T : \A x \in s : F[s] = x.amount + F[s \ {x}]
<1> DEFINE Holds(s) == \A x \in s : F[s] = x.amount + F[s \ {x}]
           Bad == {n \in Nat : \E s \in SUBSET T : Cardinality(s) = n /\ ~Holds(s)}
<1>0. F \in [SUBSET T -> Nat] BY DEF SumsOf
<1>1. SUFFICES Bad = {}
  <2>1. ASSUME NEW s \in SUBSET T, NEW x \in s, Bad = {} PROVE F[s] = x.amount + F[s \ {x}]
    <3>1. Cardinality(s) \in Nat BY Without
    <3>2. QED BY <2>1, <3>1
  <2>2. QED BY <2>1
<1>2. SUFFICES ASSUME Bad # {} PROVE FALSE OBVIOUS
<1>3. PICK m \in Bad : \A k \in Bad : m <= k
  <2>1. Bad \subseteq Nat OBVIOUS
  <2> HIDE DEF Bad
  <2>2. QED BY <1>2, <2>1, NatMin
<1>4. PICK s \in SUBSET T : Cardinality(s) = m /\ ~Holds(s) BY <1>3
<1>5. PICK x \in s : F[s] # x.amount + F[s \ {x}] BY <1>4
<1> DEFINE t == picked(s)
<1>6. t \in s /\ F[s] = t.amount + F[s \ {t}]
  <2>1. s # {} BY <1>5
  <2>2. QED BY <2>1, Picked DEF SumsOf
<1>7. x # t BY <1>5, <1>6
<1> HIDE DEF t
<1>8. /\ Cardinality(s) \in Nat /\ Cardinality(s) # 0
      /\ s \ {x} \in SUBSET T /\ Cardinality(s \ {x}) = Cardinality(s) - 1 /\ x.amount \in Nat
  BY Without
<1>9. s \ {t} \in SUBSET T /\ Cardinality(s \ {t}) = Cardinality(s) - 1 /\ t.amount \in Nat BY <1>6, Without
<1>10. ASSUME NEW r \in SUBSET T, Cardinality(r) = Cardinality(s) - 1 PROVE Holds(r)
  <2>1. Cardinality(r) \in Nat /\ Cardinality(r) < m BY <1>4, <1>8, <1>10
  <2>2. Cardinality(r) \notin Bad BY <1>3, <2>1
  <2>3. QED BY <2>1, <2>2
<1>11. Holds(s \ {x}) /\ Holds(s \ {t}) BY <1>8, <1>9, <1>10
<1>12. t \in s \ {x} /\ x \in s \ {t} BY <1>5, <1>6, <1>7
<1>13. F[s \ {x}] = t.amount + F[(s \ {x}) \ {t}] BY <1>11, <1>12
<1>14. F[s \ {t}] = x.amount + F[(s \ {t}) \ {x}] BY <1>11, <1>12
<1>15. (s \ {x}) \ {t} = (s \ {t}) \ {x} OBVIOUS
<1>16. (s \ {t}) \ {x} \in SUBSET T BY <1>9
<1>17. F[(s \ {t}) \ {x}] \in Nat BY <1>0, <1>16
<1> DEFINE rest == F[(s \ {t}) \ {x}]
<1>18. F[s \ {x}] = t.amount + rest /\ F[s \ {t}] = x.amount + rest /\ rest \in Nat BY <1>13, <1>14, <1>15, <1>17
<1> HIDE DEF rest
<1>19. F[s] = x.amount + F[s \ {x}] BY <1>6, <1>8, <1>9, <1>18
<1>20. QED BY <1>5, <1>19

\* Two such functions agree where both are defined.
LEMMA SumsAgree ==
  ASSUME NEW T, Summable(T), NEW S \in SUBSET T, NEW F, SumsOf(F, T), NEW G,
         G = [s \in SUBSET S |-> IF s = {} THEN 0 ELSE picked(s).amount + G[s \ {picked(s)}]]
  PROVE  G[S] = F[S]
<1> DEFINE Bad == {n \in Nat : \E s \in SUBSET S : Cardinality(s) = n /\ G[s] # F[s]}
<1>1. IsFiniteSet(S) /\ Cardinality(S) \in Nat
  <2>1. IsFiniteSet(S) BY FS_Subset DEF Summable
  <2>2. QED BY <2>1, FS_CardinalityType
<1>2. SUFFICES ASSUME Bad # {} PROVE FALSE BY <1>1
<1>3. PICK m \in Bad : \A k \in Bad : m <= k
  <2>1. Bad \subseteq Nat OBVIOUS
  <2> HIDE DEF Bad
  <2>2. QED BY <1>2, <2>1, NatMin
<1>4. PICK s \in SUBSET S : Cardinality(s) = m /\ G[s] # F[s] BY <1>3
<1>5. CASE s = {}
  <2>1. G[s] = 0 BY <1>5
  <2>2. F[s] = 0 BY <1>5 DEF SumsOf
  <2>3. QED BY <1>4, <2>1, <2>2
<1>6. CASE s # {}
  <2> DEFINE r == s \ {picked(s)}
  <2>1. picked(s) \in s BY <1>6, Picked
  <2>2. Cardinality(s) \in Nat /\ Cardinality(s) # 0 /\ Cardinality(r) = Cardinality(s) - 1
    <3>1. s \in SUBSET T OBVIOUS
    <3>2. QED BY <2>1, <3>1, Without
  <2>3. r \in SUBSET S OBVIOUS
  <2>4. G[s] = picked(s).amount + G[r] BY <1>6
  <2>5. F[s] = picked(s).amount + F[r] BY <1>6 DEF SumsOf
  <2> HIDE DEF r
  <2>6. Cardinality(r) \in Nat /\ m \in Nat /\ Cardinality(r) < m BY <1>4, <2>2
  <2>7. Cardinality(r) \notin Bad
    <3>1. SUFFICES ASSUME Cardinality(r) \in Bad PROVE FALSE OBVIOUS
    <3> HIDE DEF Bad
    <3>2. m <= Cardinality(r) BY <1>3, <3>1
    <3>3. QED BY <2>6, <3>2
  <2>8. G[r] = F[r] BY <2>3, <2>6, <2>7
  <2>9. QED BY <1>4, <2>4, <2>5, <2>8
<1>7. QED BY <1>5, <1>6

LEMMA AmountsAre ==
  ASSUME NEW T, Summable(T), NEW S \in SUBSET T, NEW F, SumsOf(F, T)
  PROVE  amounts(S) = F[S] /\ amounts(S) \in Nat
<1> DEFINE iter[s \in SUBSET S] == IF s = {} THEN 0 ELSE LET x == CHOOSE x \in s : TRUE IN x.amount + iter[s \ {x}]
<1>1. amounts(S) = iter[S] BY DEF amounts, MapThenSumSet, MapThenFoldSet
<1>2. \E G : G = [s \in SUBSET S |-> IF s = {} THEN 0 ELSE picked(s).amount + G[s \ {picked(s)}]]
  <2> DEFINE G == [s \in SUBSET S |-> F[s]]
  <2>1. ASSUME NEW s \in SUBSET S
        PROVE  G[s] = IF s = {} THEN 0 ELSE picked(s).amount + G[s \ {picked(s)}]
    <3>1. s \ {picked(s)} \in SUBSET S /\ s \in SUBSET T OBVIOUS
    <3>2. G[s] = F[s] /\ G[s \ {picked(s)}] = F[s \ {picked(s)}] BY <3>1
    <3>3. F[s] = IF s = {} THEN 0 ELSE picked(s).amount + F[s \ {picked(s)}] BY <3>1 DEF SumsOf
    <3>4. QED BY <3>2, <3>3
  <2> DEFINE H == [s \in SUBSET S |-> IF s = {} THEN 0 ELSE picked(s).amount + G[s \ {picked(s)}]]
  <2>2. G = H BY <2>1
  <2>3. QED BY <2>2
<1>3. iter = [s \in SUBSET S |-> IF s = {} THEN 0 ELSE picked(s).amount + iter[s \ {picked(s)}]]
  BY <1>2 DEF picked
<1> HIDE DEF iter
<1>4. iter[S] = F[S] BY <1>3, SumsAgree
<1>5. F[S] \in Nat BY DEF SumsOf
<1>6. QED BY <1>1, <1>4, <1>5

\* One element more.
LEMMA AmountsGrow ==
  ASSUME NEW S, Summable(S), NEW x, x.amount \in Nat
  PROVE  /\ Summable(S \cup {x}) /\ amounts(S) \in Nat /\ amounts(S \cup {x}) \in Nat
         /\ x \notin S => amounts(S \cup {x}) = x.amount + amounts(S)
         /\ amounts(S) <= amounts(S \cup {x})
<1> DEFINE T == S \cup {x}
<1>1. Summable(T) BY FS_AddElement DEF Summable
<1>2. PICK F : SumsOf(F, T) BY <1>1, SumsExist
<1>3. S \in SUBSET T /\ T \in SUBSET T OBVIOUS
<1> HIDE DEF T
<1>4. amounts(S) = F[S] /\ amounts(S) \in Nat BY <1>1, <1>2, <1>3, AmountsAre
<1>5. amounts(T) = F[T] /\ amounts(T) \in Nat BY <1>1, <1>2, <1>3, AmountsAre
<1>6. CASE x \in S
  <2>1. T = S BY <1>6 DEF T
  <2>2. QED BY <1>1, <1>4, <1>5, <1>6, <2>1 DEF T
<1>7. CASE x \notin S
  <2>1. x \in T /\ T \ {x} = S BY <1>7 DEF T
  <2>2. F[T] = x.amount + F[T \ {x}] BY <1>1, <1>2, <1>3, <2>1, AnyOrder
  <2>3. amounts(T) = x.amount + amounts(S) BY <1>4, <1>5, <2>1, <2>2
  <2>4. QED BY <1>1, <1>4, <1>5, <2>3 DEF T
<1>8. QED BY <1>6, <1>7

LEMMA AmountsNone == Summable({}) /\ amounts({}) = 0
<1>1. Summable({}) BY FS_EmptySet DEF Summable
<1>2. PICK F : SumsOf(F, {}) BY <1>1, SumsExist
<1>3. amounts({}) = F[{}] BY <1>1, <1>2, AmountsAre
<1>4. QED BY <1>1, <1>2, <1>3 DEF SumsOf

-----------------------------------------------------------------------------
(* ReferralRollup: the row *)

RollupCall == [at: {"idle", "sum", "claimed", "write"},
               tx: [kind: {"none", "accrued", "claimed", "tier"}, amount: Nat, slot: Nat],
               earned: Nat, claimed: Nat]

RollupTyped ==
    /\ referral_events \subseteq Happened /\ IsFiniteSet(referral_events)
    /\ rollup \in [total_earned: Nat, accrued: Nat, last_event_slot: Nat]
    /\ calls \in [Calls -> RollupCall]
    /\ Summable(deducted) /\ overlapped \in BOOLEAN

\* What a call has read of the log is still in it.
ReadIsLogged ==
    /\ rollup.total_earned <= amounts(referral_events)
    /\ \A c \in rolling : calls[c].earned <= amounts(referral_events)

\* The row has seen what a claim took.
ClaimsSeen ==
    /\ \A d \in deducted : d.tx.slot \in 0..rollup.last_event_slot
    /\ \A d, e \in deducted : d.tx = e.tx => d = e

\* While calls do not overlap, one rolls up at most, and what it read is what it will write.
OneRolls ==
    ~overlapped =>
       /\ rollup.total_earned = rollup.accrued + amounts(deducted)
       /\ \A c, d \in rolling : c = d
       /\ \A c \in rolling : /\ rollup.total_earned <= calls[c].earned
                             /\ calls[c].at = "write" => calls[c].claimed = amounts(deducted)

RollupInv == RollupTyped /\ ReadIsLogged /\ ClaimsSeen /\ OneRolls

LEMMA EventsSummable ==
  ASSUME RollupTyped
  PROVE  Summable(referral_events) /\ amounts(referral_events) \in Nat /\ amounts(deducted) \in Nat
<1>1. Summable(referral_events) BY HappenedAssumption DEF RollupTyped, Summable
<1>2. Summable(deducted) BY DEF RollupTyped
<1>3. QED BY <1>1, <1>2, SumsExist, AmountsAre

\* A call steps aside, or to its first statement; nothing else that the row tells changes.
LEMMA CallAside ==
  ASSUME RollupInv, NEW c \in Calls, NEW call \in RollupCall, call.at \in {"idle", "sum"},
         calls' = [calls EXCEPT ![c] = call], UNCHANGED <<rollup, deducted, overlapped>>,
         \/ UNCHANGED referral_events
         \/ \E tx \in Happened : referral_events' = referral_events \cup {tx}
  PROVE  RollupInv'
<1>1. RollupTyped /\ ReadIsLogged /\ ClaimsSeen /\ OneRolls BY DEF RollupInv
<1>2. Summable(referral_events) /\ amounts(referral_events) \in Nat BY <1>1, EventsSummable
<1>3. /\ referral_events' \subseteq Happened /\ IsFiniteSet(referral_events')
      /\ amounts(referral_events') \in Nat /\ amounts(referral_events) <= amounts(referral_events')
  <2>1. CASE UNCHANGED referral_events BY <1>1, <1>2, <2>1 DEF RollupTyped
  <2>2. CASE \E tx \in Happened : referral_events' = referral_events \cup {tx}
    <3>1. PICK tx \in Happened : referral_events' = referral_events \cup {tx} BY <2>2
    <3>2. tx.amount \in Nat BY HappenedAssumption
    <3>3. Summable(referral_events \cup {tx}) /\ amounts(referral_events \cup {tx}) \in Nat
          /\ amounts(referral_events) <= amounts(referral_events \cup {tx})
      BY <1>2, <3>2, AmountsGrow
    <3>4. QED BY <1>1, <3>1, <3>3 DEF RollupTyped, Summable
  <2>3. QED BY <2>1, <2>2
<1>4. calls' \in [Calls -> RollupCall] BY <1>1 DEF RollupTyped
<1>5. RollupTyped' BY <1>1, <1>3, <1>4 DEF RollupTyped, Summable
<1>6. rolling' \subseteq rolling /\ \A d \in rolling' : calls'[d] = calls[d]
  BY <1>1 DEF rolling, RollupTyped
<1>7. ReadIsLogged'
  <2>1. \A d \in rolling : calls[d].earned \in Nat BY <1>1 DEF rolling, RollupTyped, RollupCall
  <2>2. rollup.total_earned \in Nat BY <1>1 DEF RollupTyped
  <2>3. QED BY <1>1, <1>2, <1>3, <1>6, <2>1, <2>2 DEF ReadIsLogged
<1>8. amounts(deducted') = amounts(deducted) OBVIOUS
<1>9. OneRolls' BY <1>1, <1>6, <1>8 DEF OneRolls
<1>10. ClaimsSeen' BY <1>1 DEF ClaimsSeen
<1>11. QED BY <1>5, <1>7, <1>9, <1>10 DEF RollupInv

LEMMA RestingCall ==
  resting \in RollupCall /\ \A tx \in Happened : [resting EXCEPT !.at = "sum", !.tx = tx] \in RollupCall
<1>1. resting \in RollupCall BY DEF resting, no_notice, RollupCall
<1>2. ASSUME NEW tx \in Happened PROVE [resting EXCEPT !.at = "sum", !.tx = tx] \in RollupCall
  <2>1. tx \in [kind: {"none", "accrued", "claimed", "tier"}, amount: Nat, slot: Nat] BY HappenedAssumption
  <2>2. QED BY <1>1, <2>1 DEF RollupCall
<1>3. QED BY <1>1, <1>2

LEMMA DeliverAccruedKeeps == ASSUME RollupInv, NEW c \in Calls, deliver_accrued(c) PROVE RollupInv'
<1>1. PICK tx \in Happened :
         /\ referral_events' \in {referral_events, referral_events \cup {tx}}
         /\ calls' = [calls EXCEPT ![c] = [resting EXCEPT !.at = "sum", !.tx = tx]]
         /\ UNCHANGED <<rollup, deducted, overlapped>>
  BY DEF deliver_accrued
<1> DEFINE call == [resting EXCEPT !.at = "sum", !.tx = tx]
<1>2. call \in RollupCall BY RestingCall
<1>3. call.at = "sum" BY DEF resting
<1>4. calls' = [calls EXCEPT ![c] = call] BY <1>1
<1> HIDE DEF call
<1>5. QED BY <1>1, <1>2, <1>3, <1>4, CallAside

LEMMA RollupFailsKeeps == ASSUME RollupInv, NEW c \in Calls, rollup_fails(c) PROVE RollupInv'
<1>1. calls' = [calls EXCEPT ![c] = resting] /\ UNCHANGED <<referral_events, rollup, deducted, overlapped>>
  BY DEF rollup_fails
<1>2. resting \in RollupCall /\ resting.at = "idle"
  <2>1. resting.at = "idle" BY DEF resting
  <2>2. QED BY <2>1, RestingCall
<1>3. QED BY <1>1, <1>2, CallAside

LEMMA ReadEarnedKeeps == ASSUME RollupInv, NEW c \in Calls, read_earned(c) PROVE RollupInv'
<1>1. RollupTyped /\ ReadIsLogged /\ ClaimsSeen /\ OneRolls BY DEF RollupInv
<1>2. amounts(referral_events) \in Nat BY <1>1, EventsSummable
<1> DEFINE n == amounts(referral_events)
           call == [calls[c] EXCEPT !.at = "claimed", !.earned = n]
<1>3. calls[c].at = "sum" /\ overlapped' = (overlapped \/ rolling # {})
      /\ UNCHANGED <<referral_events, rollup, deducted>>
      /\ calls' = [calls EXCEPT ![c].at = "claimed", ![c].earned = n]
  BY DEF read_earned, earned_of
<1> HIDE DEF n
<1>4. calls \in [Calls -> RollupCall] BY <1>1 DEF RollupTyped
<1>5. n \in Nat BY <1>2 DEF n
<1>6. calls' = [calls EXCEPT ![c] = call] BY <1>3, <1>4
<1>7. call \in RollupCall /\ call.at = "claimed" /\ call.earned = n BY <1>4, <1>5 DEF RollupCall
<1> HIDE DEF call
<1>8. calls' \in [Calls -> RollupCall] /\ calls'[c] = call /\ \A d \in Calls : d # c => calls'[d] = calls[d]
  BY <1>4, <1>6, <1>7
<1>9. rolling' = rolling \cup {c} /\ c \notin rolling BY <1>3, <1>7, <1>8 DEF rolling
<1>10. overlapped' \in BOOLEAN BY <1>3
<1>11. RollupTyped' BY <1>1, <1>3, <1>8, <1>10 DEF RollupTyped, Summable
<1>12. amounts(referral_events') = n /\ amounts(deducted') = amounts(deducted) BY <1>3 DEF n
<1>13. ReadIsLogged'
  <2>1. \A d \in rolling' : calls'[d].earned <= n
    <3>1. \A d \in rolling : calls[d].earned <= n BY <1>1 DEF ReadIsLogged, n
    <3>2. \A d \in rolling : d # c /\ d \in Calls BY <1>9 DEF rolling
    <3>3. QED BY <1>5, <1>7, <1>8, <1>9, <3>1, <3>2
  <2>2. rollup'.total_earned <= n BY <1>1, <1>3 DEF ReadIsLogged, n
  <2>3. QED BY <1>12, <2>1, <2>2 DEF ReadIsLogged
<1>14. OneRolls'
  <2>1. SUFFICES ASSUME ~overlapped' PROVE
           /\ rollup'.total_earned = rollup'.accrued + amounts(deducted')
           /\ \A x, y \in rolling' : x = y
           /\ \A x \in rolling' : /\ rollup'.total_earned <= calls'[x].earned
                                  /\ calls'[x].at = "write" => calls'[x].claimed = amounts(deducted')
    BY DEF OneRolls
  <2>2. ~overlapped /\ rolling = {} BY <1>3, <2>1
  <2>3. rolling' = {c} BY <1>9, <2>2
  <2>4. rollup.total_earned <= n BY <1>1 DEF ReadIsLogged, n
  <2>5. rollup.total_earned = rollup.accrued + amounts(deducted) BY <1>1, <2>2 DEF OneRolls
  <2>6. QED BY <1>3, <1>7, <1>8, <1>12, <2>3, <2>4, <2>5
<1>15. ClaimsSeen' BY <1>1, <1>3 DEF ClaimsSeen
<1>16. QED BY <1>11, <1>13, <1>14, <1>15 DEF RollupInv

LEMMA ReadClaimedKeeps == ASSUME RollupInv, NEW c \in Calls, read_claimed(c) PROVE RollupInv'
<1>1. RollupTyped /\ ReadIsLogged /\ ClaimsSeen /\ OneRolls BY DEF RollupInv
<1> DEFINE n == remains(rollup.total_earned, rollup.accrued)
           call == [calls[c] EXCEPT !.at = "write", !.claimed = n]
<1>2. calls[c].at = "claimed" /\ calls' = [calls EXCEPT ![c].at = "write", ![c].claimed = n]
      /\ UNCHANGED <<referral_events, rollup, deducted, overlapped>>
  BY DEF read_claimed
<1>3. rollup.total_earned \in Nat /\ rollup.accrued \in Nat BY <1>1 DEF RollupTyped
<1>4. n \in Nat BY <1>3 DEF remains
<1>5. \A k \in Nat : rollup.total_earned = rollup.accrued + k => n = k BY <1>3 DEF remains
<1> HIDE DEF n
<1>6. calls \in [Calls -> RollupCall] BY <1>1 DEF RollupTyped
<1>7. calls' = [calls EXCEPT ![c] = call] BY <1>2, <1>6
<1>8. call \in RollupCall /\ call.at = "write" /\ call.earned = calls[c].earned /\ call.claimed = n
  BY <1>4, <1>6 DEF RollupCall
<1> HIDE DEF call
<1>9. calls' \in [Calls -> RollupCall] /\ calls'[c] = call /\ \A d \in Calls : d # c => calls'[d] = calls[d]
  BY <1>6, <1>7, <1>8
<1>10. rolling' = rolling /\ c \in rolling BY <1>2, <1>8, <1>9 DEF rolling
<1>11. \A d \in rolling : d \in Calls /\ calls'[d].earned = calls[d].earned BY <1>8, <1>9 DEF rolling
<1>12. amounts(deducted) \in Nat BY <1>1, EventsSummable
<1>13. RollupTyped' BY <1>1, <1>2, <1>9 DEF RollupTyped, Summable
<1>14. amounts(referral_events') = amounts(referral_events) /\ amounts(deducted') = amounts(deducted) BY <1>2
<1>15. ReadIsLogged' BY <1>1, <1>2, <1>10, <1>11, <1>14 DEF ReadIsLogged
<1>16. OneRolls'
  <2>1. SUFFICES ASSUME ~overlapped PROVE
           /\ rollup'.total_earned = rollup'.accrued + amounts(deducted')
           /\ \A x, y \in rolling' : x = y
           /\ \A x \in rolling' : /\ rollup'.total_earned <= calls'[x].earned
                                  /\ calls'[x].at = "write" => calls'[x].claimed = amounts(deducted')
    BY <1>2 DEF OneRolls
  <2>2. rollup.total_earned = rollup.accrued + amounts(deducted) /\ (\A x, y \in rolling : x = y)
        /\ \A x \in rolling : rollup.total_earned <= calls[x].earned
    BY <1>1, <2>1 DEF OneRolls
  <2>3. n = amounts(deducted) BY <1>5, <1>12, <2>2
  <2>4. \A x \in rolling : x = c BY <1>10, <2>2
  <2>5. QED BY <1>2, <1>8, <1>9, <1>10, <1>11, <1>14, <2>2, <2>3, <2>4
<1>17. ClaimsSeen' BY <1>1, <1>2 DEF ClaimsSeen
<1>18. QED BY <1>13, <1>15, <1>16, <1>17 DEF RollupInv

LEMMA MaxOfTwo ==
  ASSUME NEW a \in Nat, NEW b \in Nat
  PROVE  Max({a, b}) \in Nat /\ a <= Max({a, b})
<1> DEFINE P(x) == x \in {a, b} /\ \A y \in {a, b} : x >= y
<1>1. \E x : P(x) OBVIOUS
<1>2. Max({a, b}) = CHOOSE x : P(x) BY DEF Max
<1>3. P(CHOOSE x : P(x)) BY <1>1, Zenon
<1>4. P(Max({a, b})) BY <1>2, <1>3
<1>5. QED BY <1>4

LEMMA WriteRowKeeps == ASSUME RollupInv, NEW c \in Calls, write_row(c) PROVE RollupInv'
<1>1. RollupTyped /\ ReadIsLogged /\ ClaimsSeen /\ OneRolls BY DEF RollupInv
<1> DEFINE earned == calls[c].earned
           left == remains(calls[c].earned, calls[c].claimed)
           latest == Max({rollup.last_event_slot, calls[c].tx.slot})
<1>2. calls[c].at = "write" /\ calls' = [calls EXCEPT ![c] = resting]
      /\ rollup' = [total_earned |-> earned, accrued |-> left, last_event_slot |-> latest]
      /\ UNCHANGED <<referral_events, deducted, overlapped>>
  BY DEF write_row
<1>3. calls \in [Calls -> RollupCall] /\ rollup.last_event_slot \in Nat BY <1>1 DEF RollupTyped
<1>4. calls[c].earned \in Nat /\ calls[c].claimed \in Nat /\ calls[c].tx.slot \in Nat BY <1>3 DEF RollupCall
<1>5. latest \in Nat /\ rollup.last_event_slot <= latest BY <1>3, <1>4, MaxOfTwo
<1>6. earned \in Nat /\ left \in Nat BY <1>4 DEF remains
<1>7. calls[c].claimed <= earned => earned = left + calls[c].claimed BY <1>4 DEF remains
<1> HIDE DEF earned, left, latest
<1>8. resting \in RollupCall /\ resting.at = "idle"
  <2>1. resting.at = "idle" BY DEF resting
  <2>2. QED BY <2>1, RestingCall
<1>9. calls' \in [Calls -> RollupCall] /\ calls'[c].at = "idle" /\ \A d \in Calls : d # c => calls'[d] = calls[d]
  BY <1>2, <1>3, <1>8
<1>10. c \in rolling /\ rolling' = rolling \ {c} /\ \A d \in rolling' : calls'[d] = calls[d]
  BY <1>2, <1>9 DEF rolling
<1>11. rollup' \in [total_earned: Nat, accrued: Nat, last_event_slot: Nat] BY <1>2, <1>5, <1>6
<1>12. RollupTyped' BY <1>1, <1>2, <1>9, <1>11 DEF RollupTyped, Summable
<1>13. amounts(referral_events') = amounts(referral_events) /\ amounts(deducted') = amounts(deducted) BY <1>2
<1>14. ReadIsLogged'
  <2>1. earned <= amounts(referral_events) BY <1>1, <1>10 DEF ReadIsLogged, earned
  <2>2. rollup'.total_earned = earned BY <1>2
  <2>3. \A d \in rolling' : calls'[d].earned <= amounts(referral_events) BY <1>1, <1>10 DEF ReadIsLogged
  <2>4. QED BY <1>13, <2>1, <2>2, <2>3 DEF ReadIsLogged
<1>15. OneRolls'
  <2>1. SUFFICES ASSUME ~overlapped PROVE
           /\ rollup'.total_earned = rollup'.accrued + amounts(deducted')
           /\ \A x, y \in rolling' : x = y
           /\ \A x \in rolling' : /\ rollup'.total_earned <= calls'[x].earned
                                  /\ calls'[x].at = "write" => calls'[x].claimed = amounts(deducted')
    BY <1>2 DEF OneRolls
  <2>2. rollup.total_earned = rollup.accrued + amounts(deducted) /\ (\A x, y \in rolling : x = y)
        /\ rollup.total_earned <= earned /\ calls[c].claimed = amounts(deducted)
    BY <1>1, <1>2, <1>10, <2>1 DEF OneRolls, earned
  <2>3. rolling' = {} BY <1>10, <2>2
  <2>4. rollup.total_earned \in Nat /\ rollup.accrued \in Nat /\ amounts(deducted) \in Nat
    BY <1>1, EventsSummable DEF RollupTyped
  <2>5. calls[c].claimed <= earned BY <1>6, <2>2, <2>4
  <2>6. earned = left + amounts(deducted) BY <1>7, <2>2, <2>5
  <2>7. QED BY <1>2, <1>13, <2>3, <2>6
<1>16. ClaimsSeen'
  <2>1. rollup'.last_event_slot = latest BY <1>2
  <2>2. \A d \in deducted : d.tx.slot \in 0..latest
    <3>1. ASSUME NEW d \in deducted PROVE d.tx.slot \in 0..latest
      <4>1. d.tx.slot \in 0..rollup.last_event_slot BY <1>1 DEF ClaimsSeen
      <4>2. QED BY <1>3, <1>5, <4>1
    <3>2. QED BY <3>1
  <2>3. QED BY <1>1, <1>2, <2>1, <2>2 DEF ClaimsSeen
<1>17. QED BY <1>12, <1>14, <1>15, <1>16 DEF RollupInv

\* A claim or a change of tier newer than all the row has seen.
LEMMA DeliverClaimedKeeps == ASSUME RollupInv, deliver_claimed PROVE RollupInv'
<1>1. RollupTyped /\ ReadIsLogged /\ ClaimsSeen /\ OneRolls BY DEF RollupInv
<1>2. PICK tx \in Happened :
         /\ rollup.last_event_slot < tx.slot
         /\ rollup' = [rollup EXCEPT !.accrued = IF tx.kind = "claimed" THEN remains(@, tx.amount) ELSE @,
                                     !.last_event_slot = tx.slot]
         /\ deducted' = IF tx.kind = "claimed"
                        THEN deducted \cup {[tx |-> tx, amount |-> rollup.accrued - rollup'.accrued,
                                             nth |-> Cardinality(deducted)]}
                        ELSE deducted
  BY DEF deliver_claimed
<1>3. overlapped' = (overlapped \/ rolling # {}) /\ UNCHANGED <<referral_events, calls>> BY DEF deliver_claimed
<1>4. tx.amount \in Nat /\ tx.slot \in Nat BY HappenedAssumption
<1>5. rollup \in [total_earned: Nat, accrued: Nat, last_event_slot: Nat] BY <1>1 DEF RollupTyped
<1> DEFINE left == IF tx.kind = "claimed" THEN remains(rollup.accrued, tx.amount) ELSE rollup.accrued
           d == [tx |-> tx, amount |-> rollup.accrued - left, nth |-> Cardinality(deducted)]
<1>6. left \in Nat /\ left <= rollup.accrued BY <1>4, <1>5 DEF remains
<1>7. rollup' = [rollup EXCEPT !.accrued = left, !.last_event_slot = tx.slot] BY <1>2
<1>7a. tx.kind # "claimed" => left = rollup.accrued OBVIOUS
<1> HIDE DEF left
<1>8. rollup' \in [total_earned: Nat, accrued: Nat, last_event_slot: Nat] /\ rollup'.accrued = left
      /\ rollup'.total_earned = rollup.total_earned /\ rollup'.last_event_slot = tx.slot
  BY <1>4, <1>5, <1>6, <1>7
<1>9. rolling' = rolling BY <1>3 DEF rolling
<1>10. Summable(deducted) /\ amounts(deducted) \in Nat BY <1>1, EventsSummable DEF RollupTyped
<1>11. rollup.accrued - left \in Nat BY <1>5, <1>6
<1>12. /\ \A e \in deducted : e.tx.slot \in 0..tx.slot /\ e.tx # tx
  <2>1. ASSUME NEW e \in deducted PROVE e.tx.slot \in 0..tx.slot /\ e.tx # tx
    <3>1. e.tx.slot \in 0..rollup.last_event_slot BY <1>1 DEF ClaimsSeen
    <3>2. e.tx # tx BY <1>2, <1>4, <1>5, <3>1
    <3>3. QED BY <1>2, <1>4, <1>5, <3>1
  <2>2. QED BY <2>1
<1>13. /\ Summable(deducted') /\ amounts(deducted') = amounts(deducted) + (rollup.accrued - left)
       /\ \A e \in deducted' : e.tx.slot \in 0..tx.slot
       /\ \A e, f \in deducted' : e.tx = f.tx => e = f
  <2>1. CASE tx.kind = "claimed"
    <3>1. deducted' = deducted \cup {d} BY <1>2, <1>8, <2>1
    <3>2. d.amount = rollup.accrued - left /\ d.tx = tx OBVIOUS
    <3> HIDE DEF d
    <3>3. d \notin deducted BY <1>12, <3>2
    <3>4. Summable(deducted \cup {d}) /\ amounts(deducted \cup {d}) = d.amount + amounts(deducted)
      BY <1>10, <1>11, <3>2, <3>3, AmountsGrow
    <3>5. amounts(deducted') = amounts(deducted) + (rollup.accrued - left)
      <4>1. amounts(deducted') = amounts(deducted \cup {d}) BY <3>1
      <4>2. QED BY <1>10, <1>11, <3>2, <3>4, <4>1
    <3>6. \A e \in deducted' : e.tx.slot \in 0..tx.slot BY <1>4, <1>12, <3>1, <3>2
    <3>7. \A e, f \in deducted' : e.tx = f.tx => e = f BY <1>1, <1>12, <3>1, <3>2 DEF ClaimsSeen
    <3>8. Summable(deducted') BY <3>1, <3>4
    <3>9. QED BY <3>5, <3>6, <3>7, <3>8
  <2>2. CASE tx.kind # "claimed"
    <3>1. deducted' = deducted /\ left = rollup.accrued BY <1>2, <1>7a, <2>2
    <3>2. amounts(deducted') = amounts(deducted) BY <3>1
    <3>3. amounts(deducted') = amounts(deducted) + (rollup.accrued - left) BY <1>5, <1>10, <3>1, <3>2
    <3>4. QED BY <1>1, <1>10, <1>12, <3>1, <3>3 DEF ClaimsSeen
  <2>3. QED BY <2>1, <2>2
<1>14. RollupTyped'
  <2>1. overlapped' \in BOOLEAN BY <1>3
  <2>2. Summable(deducted)' BY <1>13 DEF Summable
  <2>3. QED BY <1>1, <1>3, <1>8, <2>1, <2>2 DEF RollupTyped
<1>15. amounts(referral_events') = amounts(referral_events) BY <1>3
<1>16. ReadIsLogged' BY <1>1, <1>3, <1>8, <1>9, <1>15 DEF ReadIsLogged
<1>17. ClaimsSeen' BY <1>8, <1>13 DEF ClaimsSeen
<1>18. OneRolls'
  <2>1. SUFFICES ASSUME ~overlapped' PROVE
           /\ rollup'.total_earned = rollup'.accrued + amounts(deducted')
           /\ \A x, y \in rolling' : x = y
           /\ \A x \in rolling' : /\ rollup'.total_earned <= calls'[x].earned
                                  /\ calls'[x].at = "write" => calls'[x].claimed = amounts(deducted')
    BY DEF OneRolls
  <2>2. ~overlapped /\ rolling = {} BY <1>3, <2>1
  <2>3. rollup.total_earned = rollup.accrued + amounts(deducted) BY <1>1, <2>2 DEF OneRolls
  <2>4. rollup.total_earned = left + (amounts(deducted) + (rollup.accrued - left)) BY <1>5, <1>6, <1>10, <2>3
  <2>5. QED BY <1>8, <1>9, <1>13, <2>2, <2>4
<1>19. QED BY <1>14, <1>16, <1>17, <1>18 DEF RollupInv

LEMMA RollupInitially == ASSUME RollupInit PROVE RollupInv
<1>1. referral_events = {} /\ rollup = [total_earned |-> 0, accrued |-> 0, last_event_slot |-> 0]
      /\ calls = [c \in Calls |-> resting] /\ deducted = {} /\ overlapped = FALSE
  BY DEF RollupInit
<1>2. amounts(referral_events) = 0 /\ amounts(deducted) = 0 /\ Summable(deducted)
  <2>1. Summable({}) /\ amounts({}) = 0 BY AmountsNone
  <2>2. QED BY <1>1, <2>1
<1>3. rolling = {} BY <1>1 DEF rolling, resting
<1>4. calls \in [Calls -> RollupCall] BY <1>1, RestingCall
<1>5. rollup \in [total_earned: Nat, accrued: Nat, last_event_slot: Nat] BY <1>1
<1>6. RollupTyped BY <1>1, <1>2, <1>4, <1>5, FS_EmptySet DEF RollupTyped
<1>7. ReadIsLogged BY <1>1, <1>2, <1>3 DEF ReadIsLogged
<1>8. ClaimsSeen BY <1>1 DEF ClaimsSeen
<1>9. OneRolls BY <1>1, <1>2, <1>3 DEF OneRolls
<1>10. QED BY <1>6, <1>7, <1>8, <1>9 DEF RollupInv

LEMMA RollupInductive == RollupSpec => []RollupInv
<1>1. RollupInit => RollupInv BY RollupInitially
<1>2. RollupInv /\ [RollupNext]_rollupVars => RollupInv'
  <2>1. SUFFICES ASSUME RollupInv, [RollupNext]_rollupVars PROVE RollupInv' OBVIOUS
  <2>2. CASE UNCHANGED rollupVars
    <3>1. UNCHANGED <<referral_events, rollup, calls, deducted, overlapped>> BY <2>2 DEF rollupVars
    <3>2. amounts(referral_events') = amounts(referral_events) /\ amounts(deducted') = amounts(deducted)
          /\ rolling' = rolling
      BY <3>1 DEF rolling
    <3>3. RollupTyped' BY <2>1, <3>1 DEF RollupInv, RollupTyped, Summable
    <3>4. ReadIsLogged' BY <2>1, <3>1, <3>2 DEF RollupInv, ReadIsLogged
    <3>5. ClaimsSeen' BY <2>1, <3>1 DEF RollupInv, ClaimsSeen
    <3>6. OneRolls' BY <2>1, <3>1, <3>2 DEF RollupInv, OneRolls
    <3>7. QED BY <3>3, <3>4, <3>5, <3>6 DEF RollupInv
  <2>3. QED
    BY <2>1, <2>2, DeliverAccruedKeeps, ReadEarnedKeeps, ReadClaimedKeeps, WriteRowKeeps, RollupFailsKeeps,
       DeliverClaimedKeeps
    DEF RollupNext
<1>3. QED BY <1>1, <1>2, PTL DEF RollupSpec

\* However often accruals and claims are delivered, by however many calls at once, a
\* referrer's row never shows more than the log of accruals adds up to, a claim is taken off
\* it once, and while calls do not overlap it lost to claims what they took
\* (idx_apply_referral_accrued, _claimed and _tier).
THEOREM ReplaysCountOnce == RollupSpec => []ReplayNeverInflates
<1>1. RollupInv => ReplayNeverInflates
  BY DEF RollupInv, ReadIsLogged, ClaimsSeen, OneRolls, ReplayNeverInflates
<1>2. QED BY <1>1, RollupInductive, PTL

=============================================================================
