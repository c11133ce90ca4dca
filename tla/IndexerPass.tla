---------------------------- MODULE IndexerPass -----------------------------
(***************************************************************************)
(* The indexer pass of the cron                                            *)
(* (apps/web/src/server/cron/indexer-pass.ts) and the inline ingest of     *)
(* fresh signatures (apps/web/src/server/inline-ingest.ts).                *)
(*                                                                         *)
(* Transactions of the program are numbered as they land.  A pass reads    *)
(* the newest ones back to the cursor, and the ones just before the cursor *)
(* once more, in case an earlier fetch came back empty; then it fetches    *)
(* each transaction, ingests it, and moves the cursor to the newest it     *)
(* listed.  A fetch that fails drops the transaction from the run without  *)
(* a trace, and the cursor moves all the same.                             *)
(***************************************************************************)
EXTENDS Integers, FiniteSets

CONSTANTS
    MAX_SIGNATURES_PER_RUN, SAFETY_WINDOW_SIGNATURES,   \* indexer-pass.ts: multiples of
    PAGE_SIZE,
    MaxBurst,        \* bound: transactions that land between two passes
    MaxTx,           \* bound: transactions that land at all
    MaxRunFaults     \* bound: transactions not fetched and cursors not written

\* What the code's 100, 100 and 300 leave room for: a page reaches past the window
\* by at most one, and a run has room for a page and a window.
ASSUME IndexerAssumption ==
    /\ {MAX_SIGNATURES_PER_RUN, SAFETY_WINDOW_SIGNATURES, PAGE_SIZE, MaxBurst, MaxTx, MaxRunFaults} \subseteq Nat
    /\ PAGE_SIZE > 0
    /\ PAGE_SIZE <= SAFETY_WINDOW_SIGNATURES + 1
    /\ PAGE_SIZE + SAFETY_WINDOW_SIGNATURES <= MAX_SIGNATURES_PER_RUN + 1

VARIABLES
    landed,      \* transactions of the program on chain
    processed,   \* processed_events: those that were ingested
    cursor,      \* cron_indexer_state.last_signature
    listed,      \* signatures the running pass has listed; none between passes
    missed,      \* history: transactions some pass listed and failed to ingest
    narrow,      \* history: every pass so far found less than a page of new ones
    run_faults   \* faults so far

indexerVars == <<landed, processed, cursor, listed, missed, narrow, run_faults>>

newest(sigs) == CHOOSE s \in sigs : \A t \in sigs : t <= s

IndexerInit ==
    /\ landed = 0 /\ cursor = 0 /\ run_faults = 0
    /\ processed = {} /\ listed = {} /\ missed = {} /\ narrow = TRUE

\* What the running pass will set the cursor to.
horizon == IF listed = {} THEN cursor ELSE newest(listed)

land ==
    /\ landed < MaxTx
    /\ landed - horizon < MaxBurst
    /\ landed' = landed + 1
    /\ UNCHANGED <<processed, cursor, listed, missed, narrow, run_faults>>

\* indexFreshSignature; when the node does not know the signature yet it gives up.
inline_ingest(s) ==
    /\ s \in 1..landed \ processed
    /\ processed' = processed \cup {s}
    /\ UNCHANGED <<landed, cursor, listed, missed, narrow, run_faults>>

\* Mutant: no safety window.
signatures_without_window(n, until) == (IF n - until > MAX_SIGNATURES_PER_RUN
                                        THEN n - MAX_SIGNATURES_PER_RUN + 1 ELSE until + 1)..n

\* The signatures listed with n transactions on chain.  Pages come newest first
\* and stop at `until`; the window is read after a page that is partly filled, so
\* not when the new signatures fill their pages exactly, and not at the cap.
signatures(n, until) ==
    LET new   == n - until
        first == IF new >= MAX_SIGNATURES_PER_RUN THEN n - MAX_SIGNATURES_PER_RUN + 1
                 ELSE IF new % PAGE_SIZE = 0 THEN until + 1
                 ELSE until - SAFETY_WINDOW_SIGNATURES + 1
    IN  {s \in 1..n : s >= first}

\* `until` is the cursor, or nothing at a reset or when the cursor is not read.
\* A run that lists nothing ends here.
list_signatures(until) ==
    /\ listed = {}
    /\ listed' = signatures(landed, until)
    /\ narrow' = (narrow /\ landed - cursor < PAGE_SIZE)
    /\ UNCHANGED <<landed, processed, cursor, missed, run_faults>>

\* Where the pass leaves the cursor.
next_cursor == newest(listed)

\* Fetch and ingest what was listed, `lost` excepted, then write the cursor,
\* which may fail unnoticed.
index_listed ==
    /\ listed # {}
    /\ \E lost \in SUBSET (listed \ processed), written \in BOOLEAN :
        /\ run_faults' = run_faults + Cardinality(lost) + (IF written THEN 0 ELSE 1)
        /\ run_faults' <= MaxRunFaults
        /\ processed' = processed \cup (listed \ lost)
        /\ missed' = missed \cup lost
        /\ cursor' = IF written THEN next_cursor ELSE cursor
    /\ listed' = {}
    /\ UNCHANGED <<landed, narrow>>

IndexerNext == \/ land \/ \E s \in 1..MaxTx : inline_ingest(s)
        \/ list_signatures(cursor) \/ list_signatures(0) \/ index_listed

IndexerSpec == IndexerInit /\ [][IndexerNext]_indexerVars

\* The relay ticks every minute, whatever else happens.
FairIndexerSpec == IndexerSpec /\ WF_indexerVars(list_signatures(cursor)) /\ WF_indexerVars(index_listed)

-----------------------------------------------------------------------------
(* Properties *)

IndexerTypeOK ==
    /\ landed \in 0..MaxTx /\ cursor \in 0..landed /\ run_faults \in 0..MaxRunFaults /\ narrow \in BOOLEAN
    /\ {processed, listed, missed} \subseteq SUBSET (1..landed)

\* While bursts (MaxBurst) stay within the cap of a run, the cursor passes no transaction
\* that was not listed, also when more land during the run or a cursor is not
\* written: what is missing behind it was listed and not fetched.  And what the
\* safety window is for: while each run finds less than a page of new
\* transactions and nothing fails twice, one that could not be fetched is listed
\* again before the cursor is a window past it.
CursorSkipsNothing ==
    LET behind == 1..cursor \ processed
    IN  /\ behind \subseteq missed
        /\ (narrow /\ run_faults <= 1) => \A s \in behind : cursor - s < SAFETY_WINDOW_SIGNATURES

\* "every cron run also re-fetches the last N sigs", so a transaction that one
\* run could not fetch is indexed by a later one.
EveryTxIndexed == \A s \in 1..MaxTx : (s <= landed) ~> (s \in processed)

=============================================================================
