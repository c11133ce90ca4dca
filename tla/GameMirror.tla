----------------------------- MODULE GameMirror -----------------------------
(***************************************************************************)
(* How settled games reach the database and earn points: the game events   *)
(* of applyEvent, recordVrfGame (apps/web/src/server/indexer.ts),          *)
(* awardPoints (server/points.ts), idx_apply_game_settled (db/migrations)  *)
(* and the points backfill (app/api/admin/backfill-points).                *)
(*                                                                         *)
(* A legacy game writes its row when it ends and learns its layout from    *)
(* the transaction that settles it later; both are delivered by ingests    *)
(* that run at once, retry and may stop (see LpMirror for their claims).   *)
(* All games of a player have the same account, so a settlement has to     *)
(* find its row by slots.  A VRF game is written by the pass that settled  *)
(* it, once.  Points follow the row in a call of their own whose failure   *)
(* is only logged, and the backfill looks for rows without points; an      *)
(* operator may add the rows that are missing                              *)
(* (scripts/repair-vault-mirror.ts).  Readers of the rows are the public   *)
(* verifier of legacy games (app/api/verify) and the nightly checks        *)
(* (scripts/check-invariants.mjs, server/cron/invariants-pass.ts).         *)
(*                                                                         *)
(* The house edge does not change.  Stakes and the columns that no step    *)
(* looks at are left out, and with them the multipliers, which every       *)
(* caller leaves at one.                                                   *)
(***************************************************************************)
EXTENDS Integers, FiniteSets

CONSTANTS
    Workers,        \* ingests that may run at once
    Settlements,    \* transactions: [sig, kind, account, game, slot], kind ended, settled
                    \* or vrf; games of a player have one account
    PAGE,           \* rows the backfill reads at once
    MaxMishaps,     \* bound: failed calls and stopped processes
    MaxRuns         \* bound: backfills

Pending == 0                                  \* mine_layout IS NULL

\* Signatures name transactions, and the rows of a player's account and their settlements
\* come in the order of its games: one at a time, since an account holds one game, which
\* its settlement frees.  VRF games have accounts of their own.
ASSUME SettlementsAssumption ==
    /\ Settlements \subseteq [sig : Nat \ {0}, kind : {"ended", "settled", "vrf"}, account : Nat,
                              game : Nat \ {Pending}, slot : Nat \ {0}]
    /\ \A s, t \in Settlements : s.sig = t.sig => s = t
    /\ \A s, e, f \in Settlements :
          /\ s.kind = "settled" /\ e.kind # "settled" /\ f.kind # "settled"
          /\ e.game = s.game /\ f.account = s.account
          => /\ e.account = s.account /\ e.slot <= s.slot
             /\ f.slot <= s.slot => f = e \/ f.slot < e.slot
ASSUME PageAssumption == PAGE \in Nat \ {0}

VARIABLES
    games,          \* public.games: [sig, account, game, slot, layout, settle]; layout is the
                    \* game whose layout, mines and commitment it has, settle the game whose
                    \* settlement it points to
    points,         \* points_ledger: [sig, edge]
    seen,           \* processed_events
    ingest,         \* what each ingest is doing
    backfill,       \* the backfill
    mishaps,        \* mishaps so far
    strays          \* history: games whose settlement was written into another game's row

gameVars == <<games, points, seen, ingest, backfill, mishaps, strays>>

NoLimit == 99
no_tx == [sig |-> 0, kind |-> "none", account |-> 0, game |-> 0, slot |-> 0]
at_rest == [at |-> "idle", tx |-> no_tx]

no_backfill == [at |-> "idle", cursor |-> 0, page |-> {}, missing |-> 0, hardLimit |-> NoLimit,
                found |-> {}, failed |-> {}, runs |-> 0]

GamesInit ==
    /\ games = {} /\ points = {} /\ seen = {} /\ strays = {}
    /\ ingest = [w \in Workers |-> at_rest]
    /\ backfill = no_backfill
    /\ mishaps = 0

-----------------------------------------------------------------------------
(* The statements *)

mishap == mishaps < MaxMishaps /\ mishaps' = mishaps + 1

pointer(sig) == LET rows == {g \in games : g.sig = sig}
                IN  IF rows = {} THEN Pending ELSE (CHOOSE g \in rows : TRUE).settle

new_row(tx, settle) ==
    [sig |-> tx.sig, account |-> tx.account, game |-> tx.game, slot |-> tx.slot, layout |-> Pending, settle |-> settle]

\* upsert: the columns it names are written again when the row is there, layout included,
\* but not settle_signature.
upserted(tx) == {g \in games : g.sig # tx.sig} \cup {new_row(tx, pointer(tx.sig))}

\* ON CONFLICT (source_key, source) DO NOTHING.
awarded(sig, edge) == IF \E p \in points : p.sig = sig THEN points ELSE points \cup {[sig |-> sig, edge |-> edge]}

\* Rows of the account up to the settlement.
earlier(tx) == {g \in games : g.account = tx.account /\ g.slot <= tx.slot}

\* Mutant: any pending row before the settlement.
unsettled_any(tx) == {g \in earlier(tx) : g.layout = Pending}

\* Rows that may be the settlement's: pending, no later than it, and after every row that
\* has been settled.
unsettled(tx) ==
    {g \in earlier(tx) : g.layout = Pending /\ \A h \in earlier(tx) : h.layout # Pending => h.slot < g.slot}

\* The latest of them takes the layout.
idx_apply_game_settled(tx) ==
    \/ unsettled(tx) = {} /\ UNCHANGED <<games, strays>>
    \/ \E g \in unsettled(tx) :
         /\ \A h \in unsettled(tx) : h.slot <= g.slot
         /\ games' = (games \ {g}) \cup {[g EXCEPT !.layout = tx.game, !.settle = tx.game]}
         /\ strays' = strays \cup (IF \E h \in games : h.game = tx.game THEN {} ELSE {tx.game})

-----------------------------------------------------------------------------
(* ingestTransactions *)

goto(w, at) == ingest' = [ingest EXCEPT ![w].at = at]

claim_tx(w) ==
    \E tx \in Settlements :
       /\ tx.kind # "vrf" /\ tx \notin seen /\ ingest[w].at = "idle"
       /\ seen' = seen \cup {tx}
       /\ ingest' = [ingest EXCEPT ![w] = [at |-> tx.kind, tx |-> tx]]
       /\ UNCHANGED <<games, points, backfill, mishaps, strays>>

\* GameWon, GameLost: the row, then its points, whose failure nobody hears of.
ended(w) ==
    /\ ingest[w].at = "ended"
    /\ games' = upserted(ingest[w].tx)
    /\ goto(w, "points")
    /\ UNCHANGED <<points, seen, backfill, mishaps, strays>>

awards(w) ==
    /\ ingest[w].at = "points"
    /\ \/ points' = awarded(ingest[w].tx.sig, "POINTS_EDGE_BPS") /\ UNCHANGED mishaps
       \/ mishap /\ UNCHANGED points
    /\ ingest' = [ingest EXCEPT ![w] = at_rest]
    /\ UNCHANGED <<games, seen, backfill, strays>>

\* GameSettled: no row means a retry, or, RETRY_WINDOW_MS after the settlement, no more.
settles(w) ==
    LET tx == ingest[w].tx IN
    /\ ingest[w].at = "settled"
    /\ idx_apply_game_settled(tx)
    /\ \/ unsettled(tx) = {} /\ goto(w, "release")
       \/ ingest' = [ingest EXCEPT ![w] = at_rest]
    /\ UNCHANGED <<points, seen, backfill, mishaps>>

\* The call fails, before or after its statement committed.
apply_fails(w) ==
    /\ ingest[w].at \in {"ended", "settled"}
    /\ mishap
    /\ \/ UNCHANGED <<games, strays>>
       \/ ingest[w].at = "ended" /\ games' = upserted(ingest[w].tx) /\ UNCHANGED strays
       \/ ingest[w].at = "settled" /\ idx_apply_game_settled(ingest[w].tx)
    /\ goto(w, "release")
    /\ UNCHANGED <<points, seen, backfill>>

release(w) ==
    /\ ingest[w].at = "release"
    /\ \/ seen' = seen \ {ingest[w].tx} /\ UNCHANGED mishaps
       \/ mishap /\ UNCHANGED seen
    /\ ingest' = [ingest EXCEPT ![w] = at_rest]
    /\ UNCHANGED <<games, points, backfill, strays>>

stop(w) ==
    /\ ingest[w].at # "idle" /\ mishap
    /\ ingest' = [ingest EXCEPT ![w] = at_rest]
    /\ UNCHANGED <<games, points, seen, backfill, strays>>

\* recordVrfGame after a settle of this server: the row, then its points at the claim's edge;
\* the process may stop in between, and nobody tries again.
recordVrfGame ==
    \E tx \in Settlements :
       /\ tx.kind = "vrf" /\ tx \notin seen
       /\ seen' = seen \cup {tx}
       /\ \/ mishap /\ UNCHANGED <<games, points>>
          \/ mishap /\ games' = upserted(tx) /\ UNCHANGED points
          \/ games' = upserted(tx) /\ points' = awarded(tx.sig, "houseEdgeBps") /\ UNCHANGED mishaps
       /\ UNCHANGED <<ingest, backfill, strays>>

\* repairGames --apply --games, after something went wrong: a row that is there is left alone.
repairGames ==
    \E tx \in Settlements :
       /\ mishaps > 0 /\ tx.kind = "ended" /\ \A g \in games : g.sig # tx.sig
       /\ games' = games \cup {new_row(tx, Pending)}
       /\ UNCHANGED <<points, seen, ingest, backfill, mishaps, strays>>

-----------------------------------------------------------------------------
(* The backfill *)

\* A run, with or without ?limit.
backfill_start ==
    /\ backfill.at = "idle" /\ backfill.runs < MaxRuns
    /\ \E limit \in {1, NoLimit} :
         backfill' = [no_backfill EXCEPT !.at = "read", !.hardLimit = limit, !.runs = backfill.runs + 1,
                                         !.found = {g.sig : g \in games}]
    /\ UNCHANGED <<games, points, seen, ingest, mishaps, strays>>

missing_sigs == {g.sig : g \in games} \ {p.sig : p \in points}

\* Mutant: the next page starts after as many rows as were met, among those without points.
missing_rows_offset ==
    {x \in missing_sigs : Cardinality({y \in missing_sigs : y < x}) >= backfill.missing}

\* Rows without points after the cursor.
missing_rows == {x \in missing_sigs : x > backfill.cursor}

\* ORDER BY signature LIMIT PAGE: no more than a page, and nothing before its end is left out.
is_page(page) ==
    /\ \A x \in page, y \in missing_rows \ page : x < y
    /\ page # missing_rows => Cardinality(page) = PAGE
    /\ Cardinality(page) <= PAGE

backfill_read ==
    /\ backfill.at = "read"
    /\ \E page \in SUBSET missing_rows :
          is_page(page) /\ backfill' = [backfill EXCEPT !.at = "rows", !.page = page]
    /\ UNCHANGED <<games, points, seen, ingest, mishaps, strays>>

\* Rows of the page that the run has not come to.
to_come == {x \in backfill.page : x > backfill.cursor}

\* The next row of the page gets its points, or the insert fails and is logged.
backfill_row ==
    /\ backfill.at = "rows" /\ backfill.missing < backfill.hardLimit
    /\ \E sig \in to_come :
          LET next == [backfill EXCEPT !.missing = @ + 1, !.cursor = sig] IN
          /\ \A x \in to_come : sig <= x
          /\ \/ backfill' = next /\ points' = awarded(sig, "POINTS_EDGE_BPS") /\ UNCHANGED mishaps
             \/ backfill' = [next EXCEPT !.failed = @ \cup {sig}] /\ mishap /\ UNCHANGED points
    /\ UNCHANGED <<games, seen, ingest, strays>>

\* After the page: a short page or the limit ends the run.
backfill_page ==
    /\ backfill.at = "rows"
    /\ to_come = {} \/ backfill.missing = backfill.hardLimit
    /\ backfill' = [backfill EXCEPT !.at = IF Cardinality(backfill.page) < PAGE \/ backfill.missing >= backfill.hardLimit
                                          THEN "ended" ELSE "read"]
    /\ UNCHANGED <<games, points, seen, ingest, mishaps, strays>>

backfill_end ==
    /\ backfill.at = "ended"
    /\ backfill' = [no_backfill EXCEPT !.runs = backfill.runs]
    /\ UNCHANGED <<games, points, seen, ingest, mishaps, strays>>

ingest_step(w) ==
    \/ claim_tx(w) \/ ended(w) \/ awards(w) \/ settles(w) \/ apply_fails(w) \/ release(w) \/ stop(w)

GamesNext ==
    \/ \E w \in Workers : ingest_step(w)
    \/ recordVrfGame \/ repairGames
    \/ backfill_start \/ backfill_read \/ backfill_row \/ backfill_page \/ backfill_end

GamesSpec == GamesInit /\ [][GamesNext]_gameVars

-----------------------------------------------------------------------------
(* Readers *)

\* /api/verify of the transaction that ended a game: the game whose settlement is shown
\* as its proof, which must be of the same account.
proof(g) ==
    IF \E tx \in Settlements : tx.kind = "settled" /\ tx.game = g.settle /\ tx.account = g.account
    THEN g.settle ELSE Pending

\* A row that waits for its settlement is not checked.
isSettlePendingSentinel(g) == g.layout = Pending /\ g.settle = Pending

\* check-invariants: the multiplier does not fit the mines; none, or another game's.
flagged(g) == ~isSettlePendingSentinel(g) /\ g.layout # g.game

\* The same in the cron's daily pass, whose alert lists the rows.
runInvariants == {g \in games : flagged(g)}

-----------------------------------------------------------------------------
(* Properties *)

\* However settlements and the games they settle are delivered, retried and delivered again,
\* a row never shows the layout of another game, nor the verifier its settlement, unless a
\* settlement was delivered before its own row and took the row of an earlier game that was
\* not settled yet; and as long as nothing failed the nightly check has nothing to report.
SettleFindsItsRow ==
    strays = {} => \A g \in games :
        /\ g.layout \in {Pending, g.game} /\ proof(g) \in {Pending, g.game}
        /\ mishaps = 0 => runInvariants = {}

\* A run of the backfill that went to its end, while games were written and awarded next to
\* it, leaves no game that was there when it started without points, other than those whose
\* insert failed; and no game ever earns twice.
BackfillSkipsNothing ==
    /\ backfill.at = "ended" /\ backfill.missing < backfill.hardLimit =>
          backfill.found \subseteq backfill.failed \cup {p.sig : p \in points}
    /\ \A p, q \in points : p.sig = q.sig => p = q

=============================================================================
