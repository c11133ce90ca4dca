------------------------------ MODULE LpPoints ------------------------------
(***************************************************************************)
(* K Points for liquidity providers                                        *)
(* (apps/web/src/server/cron/lp-points-pass.ts).                           *)
(*                                                                         *)
(* The first tick of an hour on a process reads every position and its     *)
(* value and credits each owner in a transaction of its own.  Replicas    *)
(* restart, their runs overlap, transactions fail or are reported as       *)
(* failed, and the owners request and cancel withdrawals in between; the   *)
(* row of lp_points_accrual is what keeps an hour from counting twice.     *)
(***************************************************************************)
EXTENDS Totals, FiniteSets

CONSTANTS
    Owners,
    Replicas,
    Values,          \* what a position may be worth, in units of rate x lamports
    E15,             \* such units in a point
    MaxHour,         \* bound: hours
    MaxTurns,        \* bound: withdrawals requested
    MaxFailedSends   \* bound: failed transactions and restarts

\* A position is worth a natural amount (bigint), and a point takes some of it.
ASSUME PointsAssumption == Values \subseteq Nat /\ E15 \in Nat \ {0} /\ MaxHour \in Nat \ {0}

NoHour == 0

VARIABLES
    hour,            \* the UTC hour
    position,        \* LpPosition of each owner: its value, and whether a withdrawal is pending
    accrual,         \* lp_points_accrual: the exact accrual and the last hour counted
    ledger,          \* points_ledger, source lp_hourly: points by owner and hour
    doneHour,        \* per process: the hour it has finished
    hourly,          \* per process: the run in progress
    turns, failed_sends,
    counted,        \* history: the hours counted for each owner: value, accrual before, and
                     \* whether a run had already found him stopped in that hour
    stopped          \* history: owners and hours a finished run found pending

lpPointsVars == <<hour, position, accrual, ledger, doneHour, hourly, turns, failed_sends, counted, stopped>>

pending_owners == {o \in Owners : position[o].pending}

no_run == [hour |-> NoHour, todo |-> {}, stopped |-> {}, errors |-> FALSE]

PointsInit ==
    /\ hour = 1 /\ turns = 0 /\ failed_sends = 0
    /\ position \in [Owners -> [value: Values, pending: {FALSE}]]
    /\ accrual = [o \in Owners |-> [e15 |-> 0, last_hour |-> NoHour]]
    /\ ledger = [o \in Owners |-> [h \in 1..MaxHour |-> 0]]
    /\ doneHour = [r \in Replicas |-> NoHour]
    /\ hourly = [r \in Replicas |-> no_run]
    /\ counted = [o \in Owners |-> {}]
    /\ stopped = {}

hour_passes ==
    /\ hour < MaxHour
    /\ hour' = hour + 1
    /\ UNCHANGED <<position, accrual, ledger, doneHour, hourly, turns, failed_sends, counted, stopped>>

\* request_withdraw, and the cancellation that ends it.
asks_out(o) ==
    /\ ~position[o].pending
    /\ turns < MaxTurns /\ turns' = turns + 1
    /\ position' = [position EXCEPT ![o].pending = TRUE]
    /\ UNCHANGED <<hour, accrual, ledger, doneHour, hourly, failed_sends, counted, stopped>>

takes_back(o) ==
    /\ position[o].pending
    /\ position' = [position EXCEPT ![o].pending = FALSE]
    /\ UNCHANGED <<hour, accrual, ledger, doneHour, hourly, turns, failed_sends, counted, stopped>>

-----------------------------------------------------------------------------
(* runLpPointsHourly *)

item(o, v) == [owner |-> o, value |-> v]

\* Pending positions are stamped at value 0; empty ones are not looked at.
earning == {item(o, position[o].value) : o \in {x \in Owners \ pending_owners : position[x].value > 0}}
stamped == {item(o, 0) : o \in pending_owners}

work_list == earning \cup stamped

read_snapshot(r) ==
    /\ hourly[r] = no_run
    /\ doneHour[r] # hour
    /\ hourly' = [hourly EXCEPT ![r] = [hour |-> hour, todo |-> work_list,
                                       stopped |-> pending_owners, errors |-> FALSE]]
    /\ UNCHANGED <<hour, position, accrual, ledger, doneHour, turns, failed_sends, counted, stopped>>

\* WHERE last_hour IS NULL OR last_hour < hour, FOR UPDATE.
not_counted(o, h) == accrual[o].last_hour < h

\* Mutant: the points of this hour alone, whatever fraction was carried.
award_of_the_hour(prev, value) == value \div E15

\* accrue: the whole points newly crossed.
award(prev, value) == (prev + value) \div E15 - prev \div E15

\* The transaction of creditLpHour.
credit_hour(o, h, value) ==
    IF not_counted(o, h)
    THEN /\ accrual' = [accrual EXCEPT ![o] = [e15 |-> @.e15 + value, last_hour |-> h]]
         /\ ledger' = [ledger EXCEPT ![o][h] = IF @ = 0 THEN award(accrual[o].e15, value) ELSE @]
         /\ counted' = [counted EXCEPT ![o] = @ \cup
                {[hour |-> h, value |-> value, before |-> accrual[o].e15, late |-> <<o, h>> \in stopped]}]
    ELSE UNCHANGED <<accrual, ledger, counted>>

creditLpHour(r, it) ==
    /\ it \in hourly[r].todo
    /\ credit_hour(it.owner, hourly[r].hour, it.value)
    /\ hourly' = [hourly EXCEPT ![r].todo = @ \ {it}]
    /\ UNCHANGED <<hour, position, doneHour, turns, failed_sends, stopped>>

\* The transaction throws, rolled back or, with only its answer lost, committed.
credit_throws(r, it) ==
    /\ it \in hourly[r].todo
    /\ failed_sends < MaxFailedSends /\ failed_sends' = failed_sends + 1
    /\ \/ credit_hour(it.owner, hourly[r].hour, it.value)
       \/ UNCHANGED <<accrual, ledger, counted>>
    /\ hourly' = [hourly EXCEPT ![r].todo = @ \ {it}, ![r].errors = TRUE]
    /\ UNCHANGED <<hour, position, doneHour, turns, stopped>>

\* An hour with errors is run again by the next tick.
end_run(r) ==
    /\ hourly[r].hour # NoHour /\ hourly[r].todo = {}
    /\ IF hourly[r].errors THEN UNCHANGED <<doneHour, stopped>>
       ELSE /\ doneHour' = [doneHour EXCEPT ![r] = hourly[r].hour]
            /\ stopped' = stopped \cup (hourly[r].stopped \X {hourly[r].hour})
    /\ hourly' = [hourly EXCEPT ![r] = no_run]
    /\ UNCHANGED <<hour, position, accrual, ledger, turns, failed_sends, counted>>

replica_restarts(r) ==
    /\ failed_sends < MaxFailedSends /\ failed_sends' = failed_sends + 1
    /\ hourly' = [hourly EXCEPT ![r] = no_run]
    /\ doneHour' = [doneHour EXCEPT ![r] = NoHour]
    /\ UNCHANGED <<hour, position, accrual, ledger, turns, counted, stopped>>

HourlyRun(r) == \/ read_snapshot(r) \/ end_run(r) \/ replica_restarts(r)
          \/ \E it \in hourly[r].todo : creditLpHour(r, it) \/ credit_throws(r, it)

PointsNext == hour_passes \/ \E o \in Owners : asks_out(o) \/ takes_back(o)
        \/ \E r \in Replicas : HourlyRun(r)

PointsSpec == PointsInit /\ [][PointsNext]_lpPointsVars

-----------------------------------------------------------------------------
(* Properties *)

\* What an owner was awarded is the whole points of the hours counted for him,
\* each hour once, across processes, retries and lost answers; fractions carry.
PointsExact ==
    \A o \in Owners :
        /\ Total(ledger[o], MaxHour) = accrual[o].e15 \div E15
        /\ \A c, d \in counted[o] : c.hour = d.hour => c = d

\* "So a later run this hour cannot credit them after a cancel": once a run has
\* found a withdrawal pending, no other run of the hour gives that hour a value.
StoppedEarnsNothing == \A o \in Owners : \A c \in counted[o] : c.late => c.value = 0

=============================================================================
