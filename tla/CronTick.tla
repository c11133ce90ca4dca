------------------------------ MODULE CronTick ------------------------------
(***************************************************************************)
(* The cron tick and its lock (apps/web/src/server/cron/tick.ts), and the  *)
(* house sends under it (sendHouseTx in apps/web/src/server/solana.ts).    *)
(*                                                                         *)
(* A tick takes a Postgres advisory lock on a connection of its own and    *)
(* runs the passes that are due.  When that connection's session ends,     *)
(* Postgres frees the lock and another tick may start, while the first one *)
(* is still in the middle of a pass.  So every send asks first whether the *)
(* lock is still there.                                                    *)
(***************************************************************************)
EXTENDS Integers, Sequences, FiniteSets

CONSTANTS
    Ticks,           \* ticks that may run at once
    replica_of,      \* the process that serves each tick
    PASSES,          \* the passes in run order: [everyMs, sends]
    MAX_ATTEMPTS,    \* sends of one transaction (solana.ts, attempt < 2)
    MaxTime,         \* bound: minutes observed
    MaxLosses        \* bound: sessions that end

Processes == {replica_of[t] : t \in Ticks}
Free == "free"
Never == -1

ASSUME CronAssumption == Free \notin Ticks

VARIABLES
    clock,           \* minutes
    holder,          \* pg_locks: the tick whose session holds the lock
    ticks,           \* what each tick is doing
    lastOk,          \* per process and pass: the tick time of the last success
    losses           \* sessions that ended under a tick so far

cronVars == <<clock, holder, ticks, lastOk, losses>>

absent == [at |-> "idle", now |-> 0, pass |-> 0, alive |-> FALSE, lost |-> FALSE,
           sends |-> 0, tries |-> 0, stale |-> 0]

CronInit ==
    /\ clock = 0 /\ losses = 0
    /\ holder = Free
    /\ ticks = [t \in Ticks |-> absent]
    /\ lastOk = [r \in Processes |-> [i \in DOMAIN PASSES |-> Never]]

minute_passes ==
    /\ clock < MaxTime
    /\ clock' = clock + 1
    /\ UNCHANGED <<holder, ticks, lastOk, losses>>

-----------------------------------------------------------------------------
(* withAdvisoryLock *)

\* GET /api/cron/tick: the time of the tick is taken before the lock.
arrive(t) ==
    /\ ticks[t].at = "idle"
    /\ ticks' = [ticks EXCEPT ![t] = [absent EXCEPT !.at = "locking", !.now = clock, !.alive = TRUE]]
    /\ UNCHANGED <<clock, holder, lastOk, losses>>

may_take_lock == holder = Free

\* pg_try_advisory_lock; a tick that does not get the lock does nothing.
try_lock(t) ==
    /\ ticks[t].at = "locking"
    /\ IF may_take_lock
       THEN /\ holder' = t
            /\ ticks' = [ticks EXCEPT ![t].at = "next", ![t].pass = 1]
       ELSE /\ ticks' = [ticks EXCEPT ![t] = absent]
            /\ UNCHANGED holder
    /\ UNCHANGED <<clock, lastOk, losses>>

holds(t) == ticks[t].at \notin {"idle", "locking"}

\* The session of the lock ends.  The server may learn of it at once or not
\* before the next query.
session_ends(t) ==
    /\ holds(t) /\ ticks[t].alive
    /\ losses < MaxLosses
    /\ losses' = losses + 1
    /\ \E noticed \in BOOLEAN : ticks' = [ticks EXCEPT ![t].alive = FALSE, ![t].lost = noticed]
    /\ holder' = IF holder = t THEN Free ELSE holder
    /\ UNCHANGED <<clock, lastOk>>

\* The end of the run: unlock, or destroy the connection; both free the lock.
advisory_unlock(t) ==
    /\ ticks[t].at = "next"
    /\ ticks[t].pass > Len(PASSES)
    /\ holder' = IF holder = t THEN Free ELSE holder
    /\ ticks' = [ticks EXCEPT ![t] = absent]
    /\ UNCHANGED <<clock, lastOk, losses>>

-----------------------------------------------------------------------------
(* runPasses *)

\* assertTickLockHeld: a round trip on the lock's own session.
assertTickLockHeld(t) == ~ticks[t].lost /\ ticks[t].alive

to_next(t) == ticks' = [ticks EXCEPT ![t].at = "next", ![t].pass = @ + 1, ![t].sends = 0, ![t].tries = 0]

\* The pass has not succeeded on this process within its cadence.
due(t) ==
    LET last == lastOk[replica_of[t]][ticks[t].pass]
    IN  last = Never \/ ticks[t].now - last >= PASSES[ticks[t].pass].everyMs

\* Without the lock, or before its time, a pass is passed over.
begin_pass(t) ==
    /\ ticks[t].at = "next" /\ ticks[t].pass <= Len(PASSES)
    /\ IF assertTickLockHeld(t) /\ due(t)
       THEN ticks' = [ticks EXCEPT ![t].at = "running"]
       ELSE IF assertTickLockHeld(t) THEN to_next(t)
       ELSE ticks' = [ticks EXCEPT ![t].lost = TRUE, ![t].pass = @ + 1]
    /\ UNCHANGED <<clock, holder, lastOk, losses>>

\* The pass returns; only then does its cadence start again.
pass_succeeds(t) ==
    /\ ticks[t].at = "running"
    /\ lastOk' = [lastOk EXCEPT ![replica_of[t]][ticks[t].pass] = ticks[t].now]
    /\ to_next(t)
    /\ UNCHANGED <<clock, holder, losses>>

\* A pass that throws is logged; the passes after it run all the same.
pass_fails(t) ==
    /\ ticks[t].at = "running"
    /\ to_next(t)
    /\ UNCHANGED <<clock, holder, lastOk, losses>>

-----------------------------------------------------------------------------
(* sendHouseTx *)

\* Mutant: the lock is asked for at the start of a pass only.
may_send_unasked(t) == TRUE

may_send(t) == assertTickLockHeld(t)

\* A send without the lock throws; the pass goes on to its next item.
begin_send(t) ==
    /\ ticks[t].at = "running"
    /\ ticks[t].sends < PASSES[ticks[t].pass].sends
    /\ ticks' = [ticks EXCEPT ![t].sends = @ + 1,
                            ![t].at = IF may_send(t) THEN "sending" ELSE @,
                            ![t].lost = @ \/ ~ticks[t].alive,
                            ![t].tries = 0]
    /\ UNCHANGED <<clock, holder, lastOk, losses>>

\* The node takes the transaction.
submit(t) ==
    /\ ticks[t].at = "sending"
    /\ ticks' = [ticks EXCEPT ![t].at = "running",
                            ![t].stale = IF ticks[t].alive THEN @ ELSE @ + 1]
    /\ UNCHANGED <<clock, holder, lastOk, losses>>

\* The preflight fails: a blockhash the node does not know yet is tried again,
\* without asking for the lock; a program error ends the send.
preflight_fails(t) ==
    /\ ticks[t].at = "sending"
    /\ \/ /\ ticks[t].tries < MAX_ATTEMPTS - 1
          /\ ticks' = [ticks EXCEPT ![t].tries = @ + 1]
       \/ ticks' = [ticks EXCEPT ![t].at = "running"]
    /\ UNCHANGED <<clock, holder, lastOk, losses>>

Work(t) == \/ try_lock(t) \/ advisory_unlock(t) \/ begin_pass(t) \/ pass_succeeds(t) \/ pass_fails(t)
           \/ begin_send(t) \/ submit(t) \/ preflight_fails(t)

CronNext == minute_passes \/ \E t \in Ticks : arrive(t) \/ session_ends(t) \/ Work(t)

CronSpec == CronInit /\ [][CronNext]_cronVars

-----------------------------------------------------------------------------
(* Properties *)

\* Two ticks whose sessions are alive never run passes at the same time.
TicksExclude ==
    \A s, t \in Ticks : s # t /\ holds(s) /\ holds(t) => ~(ticks[s].alive /\ ticks[t].alive)

\* A tick that lost its lock sends at most the one transaction it had asked
\* the lock for before: "every house send under it ... stops instead of racing
\* that tick", but for the time between asking and sending.
OneStaleSend == \A t \in Ticks : ticks[t].stale <= 1

=============================================================================
