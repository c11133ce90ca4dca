------------------------------ MODULE Referral ------------------------------
(***************************************************************************)
(* Referral accounts (pinocchio/kaboom-p/src/ix/referral.rs) and what a    *)
(* settlement credits to them (pay_referral in ix/vrf.rs, settle_referral  *)
(* in ix/legacy_game.rs).                                                  *)
(*                                                                         *)
(* Three signers write one account: each referee (set_referrer), whoever   *)
(* settles a referee's round, and the referrer (claim_referral).  A        *)
(* settlement is refused while its referee's referral account is missing   *)
(* or carries another key, which is how the first version of set_referrer  *)
(* broke every claim; repair_referral exists for the accounts it left,     *)
(* which are found here with LeftCount referees (none of them in Players)  *)
(* and no key, and which a new set_referrer repairs as well.               *)
(***************************************************************************)
EXTENDS KaboomMath, Totals, FiniteSets

CONSTANTS
    N,                            \* number of players
    NoReferrer,                   \* Option tag 0 in PlayerStats
    Bets,
    Available,                    \* what the vault may hold at a settlement
    REFERRAL_BRONZE_BPS, REFERRAL_SILVER_BPS, REFERRAL_GOLD_BPS,
    SILVER_VOLUME_LAMPORTS, GOLD_VOLUME_LAMPORTS,
    LeftCount,                    \* referees of each key counted by the first set_referrer
    MaxVolume                     \* bound: referred volume of one account

Players == 1..N
ZERO_KEY == 0
Keys == {ZERO_KEY} \cup Players   \* set_referrer takes any key, the zero key too

ASSUME ReferralAssumption ==
    /\ N \in Nat
    /\ NoReferrer \notin Keys
    /\ Bets \subseteq Nat /\ Available \subseteq Nat
    /\ LeftCount \in [Keys -> Nat]
    /\ {REFERRAL_BRONZE_BPS, REFERRAL_SILVER_BPS, REFERRAL_GOLD_BPS,
        SILVER_VOLUME_LAMPORTS, GOLD_VOLUME_LAMPORTS, MaxVolume} \subseteq Nat
    /\ SILVER_VOLUME_LAMPORTS > 0 /\ GOLD_VOLUME_LAMPORTS > 0

VARIABLES
    referrer,     \* PlayerStats.referrer of each player
    account,      \* ReferralAccount of each key; lamports are those above rent
    played,       \* history: bets credited for each player
    claimed       \* history: lamports each key has claimed

vars == <<referrer, account, played, claimed>>

missing == [exists |-> FALSE, key |-> ZERO_KEY, tier |-> 0, lamports |-> 0, accrued |-> 0,
            earned |-> 0, count |-> 0, volume |-> 0]

\* The account found: missing, or left without a key by the first set_referrer.
found(r) == [missing EXCEPT !.exists = LeftCount[r] > 0, !.count = LeftCount[r]]

Init ==
    /\ referrer = [p \in Players |-> NoReferrer]
    /\ account = [r \in Keys |-> found(r)]
    /\ played = [p \in Players |-> 0]
    /\ claimed = [r \in Keys |-> 0]

-----------------------------------------------------------------------------

referral_cut_bps(tier) ==
    CASE tier = 0 -> REFERRAL_BRONZE_BPS
      [] tier = 1 -> REFERRAL_SILVER_BPS
      [] OTHER    -> REFERRAL_GOLD_BPS

tier_for_volume(volume) ==
    IF volume >= GOLD_VOLUME_LAMPORTS THEN 2
    ELSE IF volume >= SILVER_VOLUME_LAMPORTS THEN 1
    ELSE 0

\* Mutant: the key is taken from the account instead of the referrer passed,
\* as set_referrer did before its fix.
keyed_from_account(a, r) == [a EXCEPT !.exists = TRUE]

\* init_if_needed, then the fields an account without a key is given.
keyed(a, r) ==
    IF a.key = ZERO_KEY
    THEN [a EXCEPT !.exists = TRUE, !.key = r, !.tier = 0]
    ELSE a

may_set(p, r) == r # p /\ referrer[p] = NoReferrer

\* The account after one more referee.
referred(a, r) == [keyed(a, r) EXCEPT !.count = @ + 1]

set_referrer(p, r) ==
    /\ may_set(p, r)
    /\ referrer' = [referrer EXCEPT ![p] = r]
    /\ account' = [account EXCEPT ![r] = referred(@, r)]
    /\ UNCHANGED <<played, claimed>>

\* The account after a bet of a referee: `actual` lamports and the new volume.
credited(a, bet, actual) ==
    [a EXCEPT !.lamports = @ + actual, !.accrued = @ + actual, !.earned = @ + actual,
              !.volume = @ + bet, !.tier = tier_for_volume(a.volume + bet)]

\* The referral step of settling a bet of p, with `available` in the vault.
pay_referral(p, bet, available) ==
    LET r   == referrer[p]
        cut == mul_div_floor(bet, referral_cut_bps(account[r].tier), BPS)
    IN  /\ r # NoReferrer
        /\ account[r].exists /\ account[r].key = r          \* else ReferralMismatch
        /\ account[r].volume + bet <= MaxVolume
        /\ account' = [account EXCEPT ![r] = credited(@, bet, min2(cut, available))]
        /\ played' = [played EXCEPT ![p] = @ + bet]
        /\ UNCHANGED <<referrer, claimed>>

\* Mutant: a claim leaves what it paid on the books.
after_claim_unbooked(a, payout) == [a EXCEPT !.lamports = @ - payout]

after_claim(a, payout) ==
    [a EXCEPT !.lamports = @ - payout, !.accrued = saturating_sub(@, payout)]

claim_payout(a) == min2(a.accrued, a.lamports)

\* The zero key signs nothing.
claim_referral(r) ==
    LET payout == claim_payout(account[r])
    IN  /\ account[r].exists /\ account[r].key = r
        /\ account[r].accrued > 0
        /\ account' = [account EXCEPT ![r] = after_claim(@, payout)]
        /\ claimed' = [claimed EXCEPT ![r] = @ + payout]
        /\ UNCHANGED <<referrer, played>>

\* Where the key is already right the handler returns early.
repair_referral(r) ==
    /\ account[r].exists
    /\ account[r].key # r /\ account[r].key = ZERO_KEY
    /\ account' = [account EXCEPT ![r].key = r]
    /\ UNCHANGED <<referrer, played, claimed>>

Next ==
    \/ \E p \in Players : \E r \in Keys : set_referrer(p, r)
    \/ \E p \in Players : \E bet \in Bets : \E available \in Available :
            pay_referral(p, bet, available)
    \/ \E r \in Players : claim_referral(r)
    \/ \E r \in Keys : repair_referral(r)

Spec == Init /\ [][Next]_vars

-----------------------------------------------------------------------------
(* Properties *)

Account == [exists: BOOLEAN, key: Keys, tier: 0..2, lamports: Nat, accrued: Nat, earned: Nat,
            count: Nat, volume: Nat]

TypeOK ==
    /\ referrer \in [Players -> Keys \cup {NoReferrer}]
    /\ account \in [Keys -> Account]
    /\ played \in [Players -> Nat]
    /\ claimed \in [Keys -> Nat]

\* A settlement is never refused because of its player's referrer, nor a claim
\* because of its key: the account a player names exists under that key, and
\* one without its key is as the first set_referrer left it, owing nothing and
\* open to repair_referral.
ReferralReady ==
    /\ \A p \in Players : referrer[p] # NoReferrer =>
            account[referrer[p]].exists /\ account[referrer[p]].key = referrer[p]
    /\ \A r \in Keys : account[r].exists /\ account[r].key # r =>
            account[r].key = ZERO_KEY /\ account[r].accrued = 0 /\ LeftCount[r] > 0

\* The lamports in the account are what it owes, and what it ever earned is
\* what it owes and what was claimed: claims are paid in full, whatever
\* settlements come between them.
ClaimsBacked ==
    \A r \in Keys : /\ account[r].lamports = account[r].accrued
                    /\ account[r].earned = account[r].accrued + claimed[r]

referees(r) == {p \in Players : referrer[p] = r}
credit(r) == [p \in Players |-> IF referrer[p] = r THEN played[p] ELSE 0]

\* A referrer's count and volume are those of the players who now name it, next
\* to the referees it was found with.
RefereesCounted ==
    \A r \in Keys : /\ account[r].count = LeftCount[r] + Cardinality(referees(r))
                    /\ account[r].volume = Total(credit(r), N)

\* The tier is the one the volume earns.  Not so for the zero key, whose
\* account set_referrer initialises again at each new referee.
TierEarned == \A r \in Players : account[r].tier = tier_for_volume(account[r].volume)

=============================================================================
