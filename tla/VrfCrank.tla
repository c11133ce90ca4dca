------------------------------ MODULE VrfCrank ------------------------------
(***************************************************************************)
(* The house's crank over VRF rounds (apps/web/src/server/cron/            *)
(* vrf-passes.ts), the settle route the player's client calls              *)
(* (apps/web/src/app/api/vrf/settle) and the mirror of settled rounds      *)
(* (apps/web/src/server/vrf-settle.ts), composed with the rounds on chain  *)
(* (VrfRound).                                                             *)
(*                                                                         *)
(* A pass reads the claims and the games of L1, then works through what it *)
(* read, and at the end reads the rollup's copies of the games that were   *)
(* not on L1.  Everything it sends was decided on those readings; the      *)
(* chain goes on meanwhile.  A game is idle when its newest transaction is *)
(* old; anyone can send a transaction that lists a game, and the RPC may   *)
(* fail, so an idle game may always look busy, and only the age of the     *)
(* claim can be relied upon.                                               *)
(***************************************************************************)
EXTENDS VrfRound

CONSTANTS
    SETTLED_IDLE,       \* vrf-passes.ts SETTLED_IDLE_MS, in slots
    FORCE_AGE,          \* vrf-passes.ts FORCE_AGE_MS, in slots
    FORCE_IDLE,         \* vrf-passes.ts FORCE_IDLE_MS, in slots
    MAX_TX_PER_KIND     \* sends of a kind in one pass

VARIABLES
    at,                 \* where the pass is: "idle", "L1", "ER" or "send"
    seen_claims,        \* the pass's reading of the claims
    seen_games,         \* its reading of the games, of L1 and then of the rollup
    todo,               \* players it has still to look at
    job,                \* the send it is at, and where it goes on
    sent,               \* successful sends of each kind in this pass
    flight,             \* settle_vrf transactions in flight: [player][sender]
    api,                \* what the settle route has read for each player
    mirrored,           \* rows written for settled rounds
    er_quiet            \* slots since the newest transaction on each game's address on the rollup

crankVars == <<at, seen_claims, seen_games, todo, job, sent, flight, api, mirrored, er_quiet>>
passVars == <<at, seen_claims, seen_games, todo, job, sent>>

Senders == {"cron", "api"}
Kinds == {"settle", "refund", "force"}
Nothing == [live |-> FALSE]
NoTx == -1           \* no transaction has ever listed the game on the rollup
NoJob == [kind |-> "none", player |-> 0, back |-> "idle"]

CrankInit ==
    /\ Init
    /\ at = "idle" /\ todo = {} /\ job = NoJob
    /\ seen_claims = [p \in Players |-> NoClaim]
    /\ seen_games = [p \in Players |-> NoGame]
    /\ sent = [k \in Kinds |-> 0]
    /\ flight = [p \in Players |-> [s \in Senders |-> Nothing]]
    /\ api = [p \in Players |-> Nothing]
    /\ mirrored = <<>>
    /\ er_quiet = [p \in Players |-> NoTx]

-----------------------------------------------------------------------------
(* runVrfPasses: what a pass reads *)

\* getProgramAccounts twice and the slot: live claims, and the games whose
\* owner is the program.
start_pass ==
    /\ at = "idle"
    /\ at' = "L1"
    /\ seen_claims' = claim
    /\ seen_games' = [p \in Players |-> IF game[p].at = "L1" THEN game[p] ELSE NoGame]
    /\ todo' = {p \in Players : claim[p].live /\ game[p].at = "L1"}
    /\ sent' = [k \in Kinds |-> 0]
    /\ UNCHANGED <<job, flight, api, mirrored, er_quiet, vars>>

\* The claims whose game was not on L1 are looked up again: those delegated
\* by now are read from the rollup.
read_rollup ==
    LET candidates == {p \in Players : seen_claims[p].live /\ seen_games[p].at = "none"}
        delegated  == {p \in candidates : game[p].at \in {"ER", "returning"}}
    IN  /\ at = "L1" /\ todo = {}
        /\ at' = "ER"
        /\ todo' = delegated
        /\ seen_games' = [p \in Players |-> IF p \in delegated THEN game[p] ELSE NoGame]
        /\ UNCHANGED <<seen_claims, job, sent, flight, api, mirrored, er_quiet, vars>>

end_pass ==
    /\ at = "ER" /\ todo = {}
    /\ at' = "idle"
    /\ seen_claims' = [p \in Players |-> NoClaim]
    /\ seen_games' = [p \in Players |-> NoGame]
    /\ UNCHANGED <<todo, job, sent, flight, api, mirrored, er_quiet, vars>>

-----------------------------------------------------------------------------
(* runVrfPasses: what it decides *)

\* Mutant: no cap on the age, as before the audit: idleness alone decides.
settle_due_idle_only(c, quiet) == quiet

\* settleDue: the newest transaction on the game is old, or the claim is.
settle_due(c, quiet) == c.age >= FORCE_AGE \/ quiet

\* lastOkTxTime on the rollup.  The address of a game is its player's, round
\* after round, and so are its transactions; without any, idle since the start.
er_idle(p, c, idle) == IF er_quiet[p] = NoTx THEN c.age >= idle ELSE er_quiet[p] >= idle

idle_window(g) == IF g.status = "PLAYING" THEN FORCE_IDLE ELSE SETTLED_IDLE

\* shouldForce: the oracle answers first; then the age cap, or idleness.
should_force(p, c, g, heard) ==
    /\ ~(g.status = "PLAYING" /\ g.pending)
    /\ c.age >= FORCE_AGE \/ (heard /\ er_idle(p, c, idle_window(g)))

\* The kind of transaction a game on L1 gets, "none" for a pass that leaves
\* it alone (its player's grace, or PLAYING with progress: manual review).
l1_kind(c, g, quiet) ==
    CASE g.status \in {"WON", "LOST"} -> IF settle_due(c, quiet) THEN "settle" ELSE "none"
      [] g.status = "VOID"            -> "refund"
      [] OTHER -> IF g.safe = 0 /\ ~g.pending /\ c.age >= SETTLED_IDLE THEN "refund" ELSE "none"

er_kind(p, c, g, heard) == IF should_force(p, c, g, heard) THEN "force" ELSE "none"

\* The next game of the reading; a kind at its cap waits for the next pass.
\* Whether the game looks quiet is arbitrary, within what the code can see.
look_at(p) ==
    /\ at \in {"L1", "ER"}
    /\ p \in todo
    /\ todo' = todo \ {p}
    /\ \E quiet \in BOOLEAN :
         LET kind == IF at = "L1" THEN l1_kind(seen_claims[p], seen_games[p], quiet)
                     ELSE er_kind(p, seen_claims[p], seen_games[p], quiet)
         IN  IF kind # "none" /\ sent[kind] < MAX_TX_PER_KIND
             THEN job' = [kind |-> kind, player |-> p, back |-> at] /\ at' = "send"
             ELSE UNCHANGED <<job, at>>
    /\ UNCHANGED <<seen_claims, seen_games, sent, flight, api, mirrored, er_quiet, vars>>

-----------------------------------------------------------------------------
(* What it sends *)

\* A transaction on the rollup that changes a game is on record under the
\* game's address; `passed` slots go by for the others.
er_moves(passed) ==
    er_quiet' = [p \in Players |->
        IF game[p].at = "ER" /\ game'[p] # game[p] THEN 0
        ELSE IF er_quiet[p] = NoTx THEN NoTx ELSE min2(er_quiet[p] + passed, FORCE_IDLE)]

next_job == at' = job.back /\ job' = NoJob

\* Whether the chain would take the transaction now (preflight).
accepted(kind, p) ==
    CASE kind = "settle" -> claim[p].live /\ game[p].at = "L1" /\ replay(game[p], claim[p])
      [] kind = "refund" -> /\ claim[p].live /\ claim[p].age > STALL_SLOTS
                            /\ refundable(game[p], "house")
      [] OTHER           -> game[p].at = "ER" /\ may_end_playing(game[p])

\* sendSettleVrf: the referrer is read again once if the cached one is stale,
\* so a send that is accepted carries the referral account.
send_settle(p) ==
    /\ at = "send" /\ job.kind = "settle" /\ job.player = p
    /\ accepted("settle", p)
    /\ flight' = [flight EXCEPT ![p]["cron"] = [live |-> TRUE, claim |-> seen_claims[p], game |-> seen_games[p]]]
    /\ sent' = [sent EXCEPT !["settle"] = @ + 1]
    /\ next_job
    /\ UNCHANGED <<seen_claims, seen_games, todo, api, mirrored, er_quiet, vars>>

\* A refund and a forced undelegation leave nothing to follow up: one that
\* lands later is one sent later.
send_refund(p) ==
    /\ at = "send" /\ job.kind = "refund" /\ job.player = p
    /\ refund_stalled_vrf(p, "house")
    /\ sent' = [sent EXCEPT !["refund"] = @ + 1]
    /\ next_job
    /\ UNCHANGED <<seen_claims, seen_games, todo, flight, api, mirrored, er_quiet>>

send_force(p) ==
    /\ at = "send" /\ job.kind = "force" /\ job.player = p
    /\ force_undelegate_vrf(p)
    /\ sent' = [sent EXCEPT !["force"] = @ + 1]
    /\ next_job
    /\ er_moves(0)
    /\ UNCHANGED <<seen_claims, seen_games, todo, flight, api, mirrored>>

\* The chain refuses (the reading is out of date), the node cannot be reached,
\* or the tick has lost its lock: logged, and not counted.
send_fails ==
    /\ at = "send"
    /\ next_job
    /\ UNCHANGED <<seen_claims, seen_games, todo, sent, flight, api, mirrored, er_quiet, vars>>

\* POST /api/vrf/settle reads the claim and the game and refuses all but a
\* decided game; then it sends what the pass would send.
api_read(p) ==
    /\ ~api[p].live
    /\ claim[p].live /\ game[p].at = "L1" /\ game[p].status \in {"WON", "LOST"}
    /\ api' = [api EXCEPT ![p] = [live |-> TRUE, claim |-> claim[p], game |-> game[p]]]
    /\ UNCHANGED <<passVars, flight, mirrored, er_quiet, vars>>

api_send(p) ==
    /\ api[p].live
    /\ api' = [api EXCEPT ![p] = Nothing]
    /\ flight' = IF accepted("settle", p) THEN [flight EXCEPT ![p]["api"] = api[p]] ELSE flight
    /\ UNCHANGED <<passVars, mirrored, er_quiet, vars>>

-----------------------------------------------------------------------------
(* mirrorVrfSettle *)

verdict(c, g) == [round |-> c.round, won |-> g.status = "WON", mult |-> g.mult]

row(p, f) == [player |-> p, told |-> verdict(f.claim, f.game), settled |-> verdict(claim[p], game[p])]

\* The transaction lands and is confirmed; the mirror writes what was read
\* before the send, unless the process dies or the write fails.
lands(p, s) ==
    /\ flight[p][s].live
    /\ settle_vrf(p)
    /\ flight' = [flight EXCEPT ![p][s] = Nothing]
    /\ mirrored' \in {mirrored, Append(mirrored, row(p, flight[p][s]))}
    /\ UNCHANGED <<passVars, api, er_quiet>>

\* Mutant: the mirror does not wait for the confirmation.
unconfirmed_row_written(p, f) == mirrored' = Append(mirrored, row(p, f))

unconfirmed_row(p, f) == UNCHANGED mirrored

\* The transaction is dropped, or lands after another settled the round and
\* fails there: waitConfirmed answers no.
never_confirmed(p, s) ==
    /\ flight[p][s].live
    /\ flight' = [flight EXCEPT ![p][s] = Nothing]
    /\ unconfirmed_row(p, flight[p][s])
    /\ UNCHANGED <<passVars, api, er_quiet, vars>>

-----------------------------------------------------------------------------

\* The steps of the chain that the crank does not take.
ChainStep ==
    /\ \/ tick /\ er_moves(1)
       \/ OwnerStep /\ er_moves(0)
       \/ \E p \in Players : (PlayerStep(p) \/ process_undelegation(p)) /\ er_moves(0)
       \/ \E p \in Players, rand \in Words : reveal_callback_vrf(p, rand) /\ er_moves(0)
    /\ UNCHANGED <<passVars, flight, api, mirrored>>

PassStep == start_pass \/ read_rollup \/ end_pass \/ send_fails \/ \E p \in Players : look_at(p)

CrankSends(p) == send_settle(p) \/ send_refund(p) \/ send_force(p)

CrankNext ==
    \/ ChainStep \/ PassStep
    \/ \E p \in Players : CrankSends(p) \/ api_read(p) \/ api_send(p)
    \/ \E p \in Players, s \in Senders : lands(p, s) \/ never_confirmed(p, s)

CrankSpec == CrankInit /\ [][CrankNext]_<<vars, crankVars>>

(* Fairness: the ticks keep coming (WF of the pass), the oracle answers and  *)
(* the delegation program hands back (WF), and a transaction that is sent    *)
(* again and again is accepted and lands at last (SF).  Nothing is assumed   *)
(* of idleness, of the players, of the settle route or of the owner.         *)
CrankFairness ==
    /\ WF_<<vars, crankVars>>(tick /\ ChainStep)
    /\ WF_<<vars, crankVars>>(PassStep)
    /\ \A p \in Players :
        /\ WF_<<vars, crankVars>>((\E rand \in Words : reveal_callback_vrf(p, rand)) /\ ChainStep)
        /\ WF_<<vars, crankVars>>(process_undelegation(p) /\ ChainStep)
        /\ SF_<<vars, crankVars>>(CrankSends(p))
        /\ SF_<<vars, crankVars>>(lands(p, "cron"))

FairCrankSpec == CrankSpec /\ CrankFairness

-----------------------------------------------------------------------------
(* Properties *)

\* Every row stands for a settlement that happened, and no settlement for two
\* rows, although the pass and the settle route may both send one.
OneRowPerSettlement ==
    \A i, j \in DOMAIN mirrored :
        /\ mirrored[i].settled.round > 0
        /\ mirrored[i].player = mirrored[j].player /\ mirrored[i].settled = mirrored[j].settled => i = j

\* A mirrored row tells the round that its signature settled.
MirrorTellsTheRound == \A i \in DOMAIN mirrored : mirrored[i].told = mirrored[i].settled

\* "A game the ER never touched is idle since its start": an unfinished round
\* is taken from its player only when the round itself is old enough.
IdleSinceTheStart ==
    job.kind = "force" =>
        LET g == seen_games[job.player]
        IN  g.status = "PLAYING" /\ g.reveals = <<>> => seen_claims[job.player].age >= FORCE_IDLE

\* Checked as well: EveryRoundCloses of VrfRound, now under the passes of the
\* crank, whoever keeps a game busy with transactions, whatever the player
\* leaves undone and however stale the readings of a pass are.

=============================================================================
