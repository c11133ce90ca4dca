----------------------------- MODULE Monitoring -----------------------------
(***************************************************************************)
(* Who says how the vault is: the public status page                       *)
(* (app/api/status/route.ts, app/status/status-client.tsx), the health     *)
(* pass of the cron (server/cron/vault-health-pass.ts with                 *)
(* server/alerts.ts) and the health shown in the app                       *)
(* (hooks/useContracts.tsx).                                               *)
(*                                                                         *)
(* Each reads the vault's balance, its account and v2_state in calls of    *)
(* their own, between which games and LPs move them, computes the          *)
(* program's health factor in a copy of its own, and is looked at later:   *)
(* the page polls a route that remembers its answer, and overlapping       *)
(* requests answer in any order.  Time goes in ticks and only ages are     *)
(* kept; a behaviour follows one of the three readers.                     *)
(*                                                                         *)
(* Latencies, wording and the figures shown beside a status are left out;  *)
(* both accounts exist from initialisation on.                             *)
(***************************************************************************)
EXTENDS KaboomMath, FiniteSets

CONSTANTS
    Figures,             \* what the chain can hold: lamports, paused, outstanding, pending, total, house, fuel
    MinHealth,           \* v2.min_health_bps
    Rent,                \* rent of the vault account
    RENT_FLOOR,          \* what the pass and the app take for it
    SOL,                 \* one SOL
    HEALTH_CRITICAL, HEALTH_WARN, RISK_BPS,
    HOUSE_WARN, HOUSE_CRITICAL,
    TIMEOUT, MEMO, POLL, NET,       \* ticks: a request's probes, the memo, between two polls, an answer's way
    Gets                            \* requests of the status route at once

VARIABLES
    who,       \* the reader
    vault,     \* the figures on chain
    quiet,     \* ticks since they changed last, up to one more than STALE
    reads,     \* each probe: under way, its age, what it has read so far, whether the page asked
               \* for it and whether the vault has stood still since
    memo,      \* the route's last answer and its age, up to MEMO
    answers,   \* on their way to the page, with their ages
    page,      \* what the status page shows, and ticks since it asked last
    report,    \* the alerts of the last health pass, and whether the vault has stood still since its start
    app        \* the same of the risk the app shows

monitorVars == <<who, vault, quiet, reads, memo, answers, page, report, app>>

\* How long the page may show a condition that is gone.
STALE == TIMEOUT + MEMO - 1 + POLL + TIMEOUT + NET

\* What their all-clears rest on: an answer is through before the memo is given up and
\* before the next poll, both rents err on the careful side, and the thresholds are above the
\* program's floor by enough that one lamport of rounding does not matter.
ReadersAssumption ==
    /\ \A f \in Figures : /\ f.paused \in BOOLEAN /\ f.lamports \in Nat
                          /\ f.outstanding \in Nat /\ f.pending \in Nat /\ f.total \in Nat
    /\ {TIMEOUT, MEMO, POLL, NET, MinHealth, HEALTH_WARN, RISK_BPS, Rent, RENT_FLOOR, SOL} \subseteq Nat
    /\ NET < MEMO /\ NET < POLL /\ Rent <= RENT_FLOOR /\ RISK_BPS > 0
    /\ BPS <= SOL * (HEALTH_WARN - MinHealth)
    /\ \A f \in Figures :
          f.lamports > RENT_FLOOR => BPS <= (f.lamports - RENT_FLOOR) * (RISK_BPS - MinHealth)

-----------------------------------------------------------------------------
(* The program *)

vault_assets(f) == saturating_sub(f.lamports, Rent)

\* The pause and the health floor of start_game_vrf, before the bet's own reservation.
sound(f) == enforce_min_health(MinHealth, vault_assets(f), f.outstanding, f.pending, f.total)
admits(f) == ~f.paused /\ sound(f)

-----------------------------------------------------------------------------
(* The status route *)

\* Mutant: pending withdrawals are no obligation.
board_health_games_only(f) == calc_health_bps(vault_assets(f), f.outstanding, 0, f.total)

\* The rent is read from the chain.
board_health(f) == calc_health_bps(vault_assets(f), f.outstanding, f.pending, f.total)

vault_status(f) == CASE f.paused                                     -> "down"
                     [] ~f.paused /\ board_health(f) < MinHealth     -> "degraded"
                     [] ~f.paused /\ board_health(f) >= MinHealth    -> "operational"

\* What becomes of a probe under its timeout.
timed == {"fast", "slow", "failed"}
by_latency(o) == CASE o = "failed" -> "down" [] o = "slow" -> "degraded" [] o = "fast" -> "operational"

program_status(o, executable) == IF o = "failed" THEN "unknown" ELSE IF executable THEN "operational" ELSE "down"
vrf_status(o, armed) == IF o = "failed" THEN "unknown" ELSE IF armed THEN "operational" ELSE "down"
stuck_status(o, count) == IF o = "failed" THEN "unknown" ELSE IF count = 0 THEN "operational" ELSE "degraded"
checkRollup(o, ok) == IF o = "failed" \/ ok THEN by_latency(o) ELSE "degraded"
database_status(o) == IF o = "failed" THEN "down" ELSE "operational"
indexer_status(minutes) == CASE minutes < 5 -> "operational" [] minutes \in 5..29 -> "degraded" [] OTHER -> "down"
checkRealtime(o, bound, ok, hears) ==
    IF o = "failed" \/ ~bound THEN "down" ELSE IF ok /\ hears THEN "operational" ELSE "degraded"

\* The worst of RPC and program, and the worst of the parts that only delay what is seen.
critical == {by_latency(o) : o \in timed} \cup {program_status(o, x) : o \in timed, x \in BOOLEAN}
supporting == {vrf_status(o, armed) : o \in timed, armed \in BOOLEAN}
              \cup {stuck_status(o, n) : o \in timed, n \in 0..1}
              \cup {checkRollup(o, ok) : o \in timed, ok \in BOOLEAN}
              \cup {database_status(o) : o \in timed}
              \cup {indexer_status(m) : m \in {0, 5, 30}} \cup {"unknown"}
              \cup {checkRealtime(o, bound, ok, hears) : o \in timed, bound \in BOOLEAN, ok \in BOOLEAN, hears \in BOOLEAN}

\* A part that could not be read counts as nothing.
overall(v, of_chain, other) ==
    IF "down" \in {v, of_chain} THEN "down"
    ELSE IF {"down", "degraded"} \cap {v, of_chain, other} # {} THEN "degraded"
    ELSE "operational"

bodies(v) == {[vault |-> v, overall |-> overall(v, c, s)] : c \in critical, s \in supporting}

-----------------------------------------------------------------------------
(* The health pass and the app: the rent is a constant above the real one *)

available(f) == saturating_sub(f.lamports, RENT_FLOOR)

\* An empty vault has no obligations here.
pass_health(f) == IF available(f) = 0 THEN BPS
                  ELSE calc_health_bps(available(f), f.outstanding, f.pending, f.total)

house_alerts(f) ==
    (IF f.house # "ours" THEN {"House key does not match"} ELSE {}) \cup
    (IF f.fuel < HOUSE_CRITICAL THEN {"House signer balance critical"}
     ELSE IF f.fuel < HOUSE_WARN THEN {"House signer balance low"}
     ELSE {})

vault_alerts(f) ==
    IF f.paused THEN {"Vault is paused"}
    ELSE IF pass_health(f) < HEALTH_CRITICAL THEN {"Vault health critical"}
    ELSE IF pass_health(f) < HEALTH_WARN THEN {"Vault health low"}
    ELSE IF f.lamports < SOL + RENT_FLOOR THEN {"Vault balance is low"}
    ELSE {}

\* Logged whatever becomes of the webhook.
sendAlert(f) == house_alerts(f) \cup vault_alerts(f)

useVaultHealth(f) == IF f.lamports <= RENT_FLOOR THEN 0
                     ELSE calc_health_bps(available(f), f.outstanding, f.pending, f.total)

\* Below the lower threshold the app shows risk.
useRiskLevel(f) == IF useVaultHealth(f) < RISK_BPS THEN "risk" ELSE "fine"

-----------------------------------------------------------------------------
(* Reading the chain *)

Probes == CASE who = "page" -> Gets [] who = "pass" -> {"pass"} [] who = "app" -> {"app"}

\* The route takes the balance from the account.
parts(r) == IF who = "page" THEN {"account", "v2"} ELSE {"balance", "account", "v2"}

no_read == [on |-> FALSE, age |-> 0, seen |-> <<>>, asked |-> FALSE, still |-> FALSE]
begun(asked) == [on |-> TRUE, age |-> 0, seen |-> <<>>, asked |-> asked, still |-> who # "page"]
complete(r) == reads[r].on /\ DOMAIN reads[r].seen = parts(r)

\* What the probe computes with.
figures(r) ==
    LET seen == reads[r].seen
        balance == IF who = "page" THEN seen["account"] ELSE seen["balance"]
    IN  [lamports |-> balance.lamports, paused |-> seen["account"].paused, house |-> seen["account"].house,
         fuel |-> seen["account"].fuel, outstanding |-> seen["v2"].outstanding,
         pending |-> seen["v2"].pending, total |-> seen["v2"].total]

read(r, part) ==
    /\ reads[r].on /\ part \in parts(r) \ DOMAIN reads[r].seen
    /\ reads' = [reads EXCEPT ![r].seen = [p \in DOMAIN @ \cup {part} |-> IF p = part THEN vault ELSE @[p]]]
    /\ UNCHANGED <<who, vault, quiet, memo, answers, page, report, app>>

-----------------------------------------------------------------------------
(* The page and its route *)

nothing == [vault |-> "unknown", overall |-> "unknown"]
answer(body) == [body |-> body, age |-> 0]

remembered == memo.age < MEMO

\* Requests are not told apart: the first that is free.
spare(g) == ~reads[g].on /\ \A h \in Gets : h < g => reads[h].on

\* A load of the page, every POLL.
load ==
    /\ who = "page" /\ page.asked = POLL
    /\ page' = [page EXCEPT !.asked = 0]
    /\ \/ remembered /\ answers' = answers \cup {answer(memo.body)} /\ UNCHANGED reads
       \/ /\ ~remembered /\ UNCHANGED answers
          /\ \E g \in Gets : spare(g) /\ reads' = [reads EXCEPT ![g] = begun(TRUE)]
    /\ UNCHANGED <<who, vault, quiet, memo, report, app>>

\* Another visitor's.
other_visitor(g) ==
    /\ who = "page" /\ ~remembered /\ spare(g)
    /\ reads' = [reads EXCEPT ![g] = begun(FALSE)]
    /\ UNCHANGED <<who, vault, quiet, memo, answers, page, report, app>>

\* The last to finish fills the memo.  A probe may fail at any time.
GET(g) ==
    /\ who = "page" /\ reads[g].on
    /\ \E v \in {"unknown"} \cup (IF complete(g) THEN {vault_status(figures(g))} ELSE {}) : \E body \in bodies(v) :
          /\ memo' = [body |-> body, age |-> 0]
          /\ answers' = IF reads[g].asked THEN answers \cup {answer(body)} ELSE answers
    /\ reads' = [reads EXCEPT ![g] = no_read]
    /\ UNCHANGED <<who, vault, quiet, page, report, app>>

\* Answers arrive in any order; after an error the page keeps what it shows.
arrives(a, lost) ==
    /\ answers' = answers \ {a}
    /\ page' = IF lost THEN [page EXCEPT !.error = TRUE] ELSE [page EXCEPT !.body = a.body, !.error = FALSE]
    /\ UNCHANGED <<who, vault, quiet, reads, memo, report, app>>

-----------------------------------------------------------------------------
(* The pass, the app, the chain and the clock *)

runVaultHealth ==
    /\ who = "pass"
    /\ \/ ~reads["pass"].on /\ reads' = [reads EXCEPT !["pass"] = begun(FALSE)] /\ UNCHANGED report
       \/ /\ complete("pass") /\ reads' = [reads EXCEPT !["pass"] = no_read]
          /\ report' = [alerts |-> sendAlert(figures("pass")), still |-> reads["pass"].still]
    /\ UNCHANGED <<who, vault, quiet, memo, answers, page, app>>

\* One query for all hooks.
useVaultAccount ==
    /\ who = "app"
    /\ \/ ~reads["app"].on /\ reads' = [reads EXCEPT !["app"] = begun(FALSE)] /\ UNCHANGED app
       \/ /\ complete("app") /\ reads' = [reads EXCEPT !["app"] = no_read]
          /\ app' = [risk |-> useRiskLevel(figures("app")), still |-> reads["app"].still]
    /\ UNCHANGED <<who, vault, quiet, memo, answers, page, report>>

chain_moves(f) ==
    /\ f # vault /\ vault' = f /\ quiet' = 0
    /\ reads' = [r \in DOMAIN reads |-> [reads[r] EXCEPT !.still = FALSE]]
    /\ report' = [report EXCEPT !.still = FALSE]
    /\ app' = [app EXCEPT !.still = FALSE]
    /\ UNCHANGED <<who, memo, answers, page>>

\* The probes of a request are answered or given up within TIMEOUT, an answer is through
\* within NET, and the page polls in time.
passes ==
    /\ who = "page" /\ page.asked < POLL
    /\ \A g \in Gets : reads[g].age < TIMEOUT
    /\ \A a \in answers : a.age < NET
    /\ quiet' = min2(quiet + 1, STALE + 1)
    /\ reads' = [g \in Gets |-> IF reads[g].on THEN [reads[g] EXCEPT !.age = @ + 1] ELSE reads[g]]
    /\ memo' = [memo EXCEPT !.age = min2(@ + 1, MEMO)]
    /\ answers' = {[a EXCEPT !.age = @ + 1] : a \in answers}
    /\ page' = [page EXCEPT !.asked = @ + 1]
    /\ UNCHANGED <<who, vault, report, app>>

MonitorInit ==
    /\ who \in {"page", "pass", "app"} /\ vault \in Figures /\ quiet = 0
    /\ reads = [r \in Probes |-> no_read]
    /\ memo = [body |-> nothing, age |-> MEMO] /\ answers = {}
    /\ page = [body |-> nothing, error |-> FALSE, asked |-> POLL]
    /\ report = [alerts |-> {"none yet"}, still |-> FALSE]
    /\ app = [risk |-> "loading", still |-> FALSE]

MonitorNext ==
    \/ \E r \in Probes : \E part \in parts(r) : read(r, part)
    \/ load \/ (\E g \in Gets : other_visitor(g) \/ GET(g))
    \/ \E a \in answers, lost \in BOOLEAN : arrives(a, lost)
    \/ runVaultHealth \/ useVaultAccount
    \/ \E f \in Figures : chain_moves(f)
    \/ passes

MonitorSpec == MonitorInit /\ [][MonitorNext]_monitorVars

-----------------------------------------------------------------------------
(* Properties *)

all_clear == /\ ~page.error
             /\ \/ page.body.vault = "operational"
                \/ page.body.overall = "operational" /\ page.body.vault # "unknown"

\* No false all-clear: once the vault has stood still for as long as answers are
\* kept and travel, a page that calls it operational, a health pass without an alert
\* and an app that shows no risk are right: neither pause nor floor stands against a bet
\* (the app does not look at the pause), although the three work with different rents,
\* read the accounts one by one and are overtaken by late answers.
NoFalseAllClear ==
    /\ all_clear /\ quiet > STALE => admits(vault)
    /\ report.alerts = {} /\ report.still => admits(vault) /\ vault.house = "ours"
    /\ app.risk = "fine" /\ app.still => sound(vault)

=============================================================================
