------------------------------ MODULE LpMirror ------------------------------
(***************************************************************************)
(* How an LP's transactions reach the database                             *)
(* (apps/web/src/server/indexer.ts, ingestTransactions and the LP cases of *)
(* applyEvent, with the idx_apply_lp_* functions of db/migrations).        *)
(*                                                                         *)
(* Inline ingests and the cron's pass run at once and in any order.  An    *)
(* ingest claims a signature by inserting it into processed_events, writes *)
(* the action log, calls a database function that adds the change to the   *)
(* user's row, and gives the claim up again if that call failed, so that   *)
(* a later delivery retries it.  A call may fail after its statement has   *)
(* committed (query_timeout in db/pg.ts), the release may fail, and a      *)
(* process may stop between any two of these steps.  An operator may       *)
(* repair the row from the chain in the meantime                           *)
(* (scripts/repair-vault-mirror.ts).                                       *)
(***************************************************************************)
EXTENDS Totals, Sequences, FiniteSetsExt

CONSTANTS
    Ingests,      \* ingests that may run at once
    Chain,        \* the LP transactions of one user in the order of their slots: kind,
                  \* units, lamports, slot
    MaxTroubles   \* bound: failed calls, stopped processes and runs of the repair

Sigs == 1..Len(Chain)
Kinds == {"deposit", "request", "cancel", "complete"}

VARIABLES
    head,         \* transactions of the chain that have landed
    processed_events,
    logged,       \* lp_actions
    row,          \* the user's row of lp_positions
    work,         \* what each ingest is doing
    faults,       \* faults so far
    applied,      \* history: signatures whose change was written, in order
    repair,       \* the repair: what it has read
    healed        \* history: a repair that saw all of the chain was the last to write all of the row

ingestVars == <<processed_events, logged, row, work, faults, applied>>
repairVars == <<head, repair, healed>>
mirrorVars == <<ingestVars, repairVars>>

idle == [sig |-> 0, step |-> "idle"]
no_row == [exists |-> FALSE, units |-> 0, pending |-> 0, deposited |-> 0, withdrawn |-> 0, slot |-> 0]
no_repair == [at |-> "idle", head |-> 0, seen |-> {}, runs |-> 0]

MirrorInit ==
    /\ head = 0 /\ repair = no_repair /\ healed = FALSE
    /\ processed_events = {} /\ logged = {}
    /\ row = no_row
    /\ work = [w \in Ingests |-> idle]
    /\ faults = 0
    /\ applied = <<>>

-----------------------------------------------------------------------------
(* The database functions *)

\* GREATEST(0, a - b).
clamped(a, b) == IF a > b THEN a - b ELSE 0

\* On conflict the units and lamports are added to the row that is there.
idx_apply_lp_deposit(r, ev) ==
    [r EXCEPT !.exists = TRUE, !.units = @ + ev.units, !.deposited = @ + ev.lamports]

idx_apply_lp_request(r, ev) ==
    [r EXCEPT !.units = clamped(@, ev.units), !.pending = @ + ev.units]

idx_apply_lp_cancel(r, ev) ==
    [r EXCEPT !.units = @ + ev.units, !.pending = clamped(@, ev.units)]

idx_apply_lp_complete(r, ev) ==
    [r EXCEPT !.pending = clamped(@, ev.units), !.withdrawn = @ + ev.lamports]

\* The change an event makes to the row.
moved(r, ev) ==
    CASE ev.kind = "deposit"  -> idx_apply_lp_deposit(r, ev)
      [] ev.kind = "request"  -> idx_apply_lp_request(r, ev)
      [] ev.kind = "cancel"   -> idx_apply_lp_cancel(r, ev)
      [] ev.kind = "complete" -> idx_apply_lp_complete(r, ev)

\* WHERE last_event_slot < p_event_slot; only a deposit inserts the row.
newer(r, ev) == r.slot < ev.slot /\ (r.exists \/ ev.kind = "deposit")

\* The CHECKs of lp_positions.
violates(r) == r.units < 0 \/ r.pending < 0

\* The statement commits: it writes the change, finds no row to update, or is
\* refused by a CHECK.
commit(sig) ==
    LET ev == Chain[sig]
        r  == [moved(row, ev) EXCEPT !.slot = ev.slot]
    IN  IF newer(row, ev) /\ ~violates(r)
        THEN row' = r /\ applied' = Append(applied, sig)
        ELSE UNCHANGED <<row, applied>>

-----------------------------------------------------------------------------
(* ingestTransactions *)

moves_on(w, step) == work' = [work EXCEPT ![w].step = step]

\* A failure within the bound.
fault == faults + repair.runs < MaxTroubles /\ faults' = faults + 1

\* The insert into processed_events succeeds for one ingest.
may_claim(sig) == sig \notin processed_events

claim(w, sig) ==
    /\ work[w] = idle
    /\ may_claim(sig)
    /\ processed_events' = processed_events \cup {sig}
    /\ work' = [work EXCEPT ![w] = [sig |-> sig, step |-> "log"]]
    /\ UNCHANGED <<logged, row, faults, applied>>

\* The action log is written unchecked: a failure is only reported.
log_action(w) ==
    /\ work[w].step = "log"
    /\ \/ logged' = logged \cup {work[w].sig} /\ UNCHANGED faults
       \/ fault /\ UNCHANGED logged
    /\ moves_on(w, "apply")
    /\ UNCHANGED <<processed_events, row, applied>>

\* A CHECK violation is terminal: the claim is kept, as after success.
apply_event(w) ==
    /\ work[w].step = "apply"
    /\ commit(work[w].sig)
    /\ work' = [work EXCEPT ![w] = idle]
    /\ UNCHANGED <<processed_events, logged, faults>>

\* The call fails, before or after the statement committed.
call_fails(w) ==
    /\ work[w].step = "apply"
    /\ fault
    /\ commit(work[w].sig) \/ UNCHANGED <<row, applied>>
    /\ moves_on(w, "release")
    /\ UNCHANGED <<processed_events, logged>>

\* The claim is deleted, or stays if that fails too.
release_claim(w) ==
    /\ work[w].step = "release"
    /\ \/ processed_events' = processed_events \ {work[w].sig} /\ UNCHANGED faults
       \/ fault /\ UNCHANGED processed_events
    /\ work' = [work EXCEPT ![w] = idle]
    /\ UNCHANGED <<logged, row, applied>>

\* The process stops; the claim stays.
dies(w) ==
    /\ work[w] # idle
    /\ fault
    /\ work' = [work EXCEPT ![w] = idle]
    /\ UNCHANGED <<processed_events, logged, row, applied>>

IngestStep(w) ==
    /\ \/ \E sig \in 1..head : claim(w, sig)
       \/ log_action(w) \/ apply_event(w) \/ call_fails(w) \/ release_claim(w) \/ dies(w)
    /\ UNCHANGED repairVars

-----------------------------------------------------------------------------
(* repairLpPositions *)

no_position == [units |-> 0, pending |-> 0, deposited |-> 0, withdrawn |-> 0]

\* What a transaction does to the position on chain.
executed(p, ev) ==
    CASE ev.kind = "deposit"  -> [p EXCEPT !.units = @ + ev.units, !.deposited = @ + ev.lamports]
      [] ev.kind = "request"  -> [p EXCEPT !.units = @ - ev.units, !.pending = ev.units]
      [] ev.kind = "cancel"   -> [p EXCEPT !.units = @ + ev.units, !.pending = 0]
      [] ev.kind = "complete" -> [p EXCEPT !.pending = 0, !.withdrawn = @ + ev.lamports]

\* The position on chain after the first n transactions.
onchain[n \in 0..Len(Chain)] == IF n = 0 THEN no_position ELSE executed(onchain[n - 1], Chain[n])

\* The program takes one request at a time, of units the position holds, and cancels or
\* completes all of it.
allowed(p, ev) ==
    CASE ev.kind = "deposit"  -> TRUE
      [] ev.kind = "request"  -> p.pending = 0 /\ ev.units <= p.units
      [] ev.kind = "cancel"   -> p.pending = ev.units
      [] ev.kind = "complete" -> p.pending = ev.units

\* The chain is a history the program executed, in the order of its slots.
ASSUME ChainAssumption ==
    /\ Chain \in Seq([kind: Kinds, units: Nat, lamports: Nat, slot: Nat])
    /\ \A s, t \in Sigs : s <= t => Chain[s].slot <= Chain[t].slot
    /\ \A s \in Sigs : allowed(onchain[s - 1], Chain[s])
ASSUME TroublesAssumption == MaxTroubles \in Nat

lands ==
    /\ head < Len(Chain) /\ head' = head + 1 /\ healed' = FALSE
    /\ UNCHANGED <<ingestVars, repair>>

\* The account is read first.
repair_reads ==
    /\ repair.at = "idle" /\ faults + repair.runs < MaxTroubles /\ head > 0
    /\ repair' = [at |-> "walk", head |-> head, seen |-> {}, runs |-> repair.runs + 1]
    /\ UNCHANGED <<ingestVars, head, healed>>

\* Then its history; a transaction that is not found is skipped.
repair_walks ==
    /\ repair.at = "walk"
    /\ \/ repair' = [repair EXCEPT !.at = "write", !.seen = 1..head] /\ UNCHANGED faults
       \/ /\ fault
          /\ \E sig \in 1..head : repair' = [repair EXCEPT !.at = "write", !.seen = (1..head) \ {sig}]
    /\ UNCHANGED <<processed_events, logged, row, work, applied, head, healed>>

\* Mutant: the slot of the last event is left to the ingests.
last_slot_unknown(seen) == 0

\* Of the deposits and the completed withdrawals.
last_slot(seen) == Max({0} \cup {Chain[s].slot : s \in {t \in seen : Chain[t].kind \in {"deposit", "complete"}}})

total_of(seen, kind) ==
    Total([s \in Sigs |-> IF s \in seen /\ Chain[s].kind = kind THEN Chain[s].lamports ELSE 0], Len(Chain))

\* The whole row is written, or the write fails and is reported.
repair_writes ==
    LET seen == repair.seen
        p    == onchain[repair.head]
    IN  /\ repair.at = "write"
        /\ repair' = [no_repair EXCEPT !.runs = repair.runs]
        /\ \/ /\ row' = [exists |-> TRUE, units |-> p.units, pending |-> p.pending,
                          deposited |-> total_of(seen, "deposit"), withdrawn |-> total_of(seen, "complete"),
                          slot |-> last_slot(seen)]
              /\ healed' = (repair.head = head /\ seen = 1..head)
              /\ UNCHANGED faults
           \/ fault /\ UNCHANGED <<row, healed>>
        /\ UNCHANGED <<processed_events, logged, work, applied, head>>

MirrorNext ==
    \/ \E w \in Ingests : IngestStep(w)
    \/ lands \/ repair_reads \/ repair_walks \/ repair_writes

MirrorSpec == MirrorInit /\ [][MirrorNext]_mirrorVars

-----------------------------------------------------------------------------
(* Properties *)

Row == [exists: BOOLEAN, units: Nat, pending: Nat, deposited: Nat, withdrawn: Nat, slot: Nat]

MirrorTypeOK ==
    /\ processed_events \subseteq Sigs /\ logged \subseteq Sigs
    /\ row \in Row
    /\ work \in [Ingests -> [sig: Sigs, step: {"log", "apply", "release"}] \cup {idle}]
    /\ faults \in 0..MaxTroubles
    /\ applied \in Seq(Sigs)

\* Two deliveries of a signature never apply it at the same time, whatever
\* claims were released or left behind (the insert-first claim).
OneIngestPerSignature ==
    \A v, w \in Ingests : v # w /\ work[v] # idle => work[v].sig # work[w].sig

\* "Idempotent: re-running converges": after a repair that saw the whole chain the
\* totals are the chain's, and stay so whatever the ingests that were behind deliver
\* next; so do the units, unless a request or cancellation came last, whose slot the
\* repair does not record.
RepairHolds ==
    healed => LET p == onchain[head]
              IN  /\ row.deposited = p.deposited /\ row.withdrawn = p.withdrawn
                  /\ Chain[head].kind \in {"deposit", "complete"} =>
                         row.units = p.units /\ row.pending = p.pending

\* No call is refused by a CHECK of lp_positions, in whatever order the
\* transactions arrive and whichever are missing; a refusal would be terminal.
ChecksNeverFire ==
    \A w \in Ingests : work[w].step = "apply" =>
        LET ev == Chain[work[w].sig] IN newer(row, ev) => ~violates(moved(row, ev))

\* Transactions applied in their order, with retries in between but none
\* missing, give the position on chain: the clamps then change nothing.
ExactInOrder ==
    (repair.runs = 0 /\ \A i \in 1..Len(applied) : applied[i] = i) =>
        LET p == onchain[Len(applied)]
        IN  /\ row.units = p.units /\ row.pending = p.pending
            /\ row.deposited = p.deposited /\ row.withdrawn = p.withdrawn

\* The mirrored position is exact: transactions applied in their order give the position on
\* chain, and a repaired position stays right while late transactions are delivered.
PositionsExact == ExactInOrder /\ RepairHolds

\* The running totals "always commit": without a fault, once nothing is in
\* flight, they are the sums of the action log.
TotalsCommit ==
    (faults = 0 /\ \A w \in Ingests : work[w] = idle) =>
        row.deposited = total_of(logged, "deposit") /\ row.withdrawn = total_of(logged, "complete")

=============================================================================
