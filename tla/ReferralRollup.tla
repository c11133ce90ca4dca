--------------------------- MODULE ReferralRollup ---------------------------
(***************************************************************************)
(* A referrer's row in the database: the referral events of applyEvent and *)
(* applyReferralAccrued (apps/web/src/server/indexer.ts) with the          *)
(* functions idx_apply_referral_accrued, _claimed and _tier of             *)
(* db/migrations.                                                          *)
(*                                                                         *)
(* An accrual is written to referral_events, keyed by its signature, and   *)
(* then the row is computed again from all of them, in a database function *)
(* of three statements that each see what is committed when they start.    *)
(* Ingests and the VRF passes call it at the same time, and a signature    *)
(* whose ingest failed is delivered again.                                 *)
(***************************************************************************)
EXTENDS Integers, FiniteSets, FiniteSetsExt

CONSTANTS
    Calls,            \* calls that may run at once
    Happened,         \* transactions: [kind, amount, slot], kind accrued, claimed or tier
    MaxDeliveries     \* bound: deliveries, first and repeated

ASSUME HappenedAssumption == Happened \subseteq [kind: {"accrued", "claimed", "tier"}, amount: Nat, slot: Nat]

VARIABLES
    referral_events,  \* the accruals logged
    rollup,           \* the row of public.referrals
    calls,            \* what each call is doing
    deliveries,       \* deliveries so far
    deducted,         \* history: what each claim took off the row, once per time it did
    overlapped        \* history: two rollups ran at once, or a claim while one ran

rollupVars == <<referral_events, rollup, calls, deliveries, deducted, overlapped>>

no_notice == [kind |-> "none", amount |-> 0, slot |-> 0]
resting == [at |-> "idle", tx |-> no_notice, earned |-> 0, claimed |-> 0]

RollupInit ==
    /\ referral_events = {}
    /\ rollup = [total_earned |-> 0, accrued |-> 0, last_event_slot |-> 0]
    /\ calls = [c \in Calls |-> resting]
    /\ deliveries = 0 /\ deducted = {} /\ overlapped = FALSE

-----------------------------------------------------------------------------
amounts(txs) == MapThenSumSet(LAMBDA t : t.amount, txs)

remains(a, b) == IF a > b THEN a - b ELSE 0

\* Mutant: the accrual is added to the total, as before the migration.
earned_of_increment(tx) == rollup.total_earned + tx.amount

\* SUM(amount) over the log.
earned_of(tx) == amounts(referral_events)

\* A rollup is between its first statement and its last.
rolling == {c \in Calls : calls[c].at \in {"claimed", "write"}}

\* The delivery of an accrual: the log is written unchecked, and may fail.
deliver_accrued(c) ==
    \E tx \in Happened :
       /\ tx.kind = "accrued" /\ calls[c].at = "idle" /\ deliveries < MaxDeliveries
       /\ deliveries' = deliveries + 1
       /\ referral_events' \in {referral_events, referral_events \cup {tx}}
       /\ calls' = [calls EXCEPT ![c] = [resting EXCEPT !.at = "sum", !.tx = tx]]
       /\ UNCHANGED <<rollup, deducted, overlapped>>

\* First statement: what the log adds up to.
read_earned(c) ==
    /\ calls[c].at = "sum"
    /\ calls' = [calls EXCEPT ![c].at = "claimed", ![c].earned = earned_of(calls[c].tx)]
    /\ overlapped' = (overlapped \/ rolling # {})
    /\ UNCHANGED <<referral_events, rollup, deliveries, deducted>>

\* Second: what has been claimed, as the row tells it.
read_claimed(c) ==
    /\ calls[c].at = "claimed"
    /\ calls' = [calls EXCEPT ![c].at = "write",
                              ![c].claimed = remains(rollup.total_earned, rollup.accrued)]
    /\ UNCHANGED <<referral_events, rollup, deliveries, deducted, overlapped>>

\* Third: the row.
write_row(c) ==
    /\ calls[c].at = "write"
    /\ rollup' = [total_earned |-> calls[c].earned,
                  accrued |-> remains(calls[c].earned, calls[c].claimed),
                  last_event_slot |-> Max({rollup.last_event_slot, calls[c].tx.slot})]
    /\ calls' = [calls EXCEPT ![c] = resting]
    /\ UNCHANGED <<referral_events, deliveries, deducted, overlapped>>

\* The call's connection is lost or times out: the delivery is repeated later.
rollup_fails(c) ==
    /\ calls[c].at # "idle"
    /\ calls' = [calls EXCEPT ![c] = resting]
    /\ UNCHANGED <<referral_events, rollup, deliveries, deducted, overlapped>>

\* A claim and a change of tier are one guarded statement each: older ones change nothing.
deliver_claimed ==
    \E tx \in Happened :
       /\ tx.kind \in {"claimed", "tier"} /\ deliveries < MaxDeliveries
       /\ deliveries' = deliveries + 1
       /\ rollup.last_event_slot < tx.slot
       /\ rollup' = [rollup EXCEPT !.accrued = IF tx.kind = "claimed" THEN remains(@, tx.amount) ELSE @,
                                   !.last_event_slot = tx.slot]
       /\ deducted' = IF tx.kind = "claimed"
                      THEN deducted \cup {[tx |-> tx, amount |-> rollup.accrued - rollup'.accrued,
                                           nth |-> Cardinality(deducted)]}
                      ELSE deducted
       /\ overlapped' = (overlapped \/ rolling # {})
       /\ UNCHANGED <<referral_events, calls>>

RollupNext ==
    \/ \E c \in Calls :
          deliver_accrued(c) \/ read_earned(c) \/ read_claimed(c) \/ write_row(c) \/ rollup_fails(c)
    \/ deliver_claimed

RollupSpec == RollupInit /\ [][RollupNext]_rollupVars

-----------------------------------------------------------------------------
(* Properties *)

\* However often an accrual is delivered, the row never shows more than the log holds; a
\* claim that is delivered again takes nothing a second time; and while no two calls for the
\* referrer overlap, what the row lost to claims is what they took, rollups or not.
ReplayNeverInflates ==
    /\ rollup.total_earned <= amounts(referral_events)
    /\ \A d, e \in deducted : d.tx = e.tx => d = e
    /\ ~overlapped => rollup.total_earned = rollup.accrued + amounts(deducted)

=============================================================================
