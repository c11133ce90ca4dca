# PlayKaboom: a verification project

PlayKaboom is a Mines casino on Solana. This directory holds TLA+ modules that
model the program, the server around it and the browser in front of it, TLC
configurations that check them on small instances, and proofs that TLAPS checks
for every value of the constants. The reference is the code: the live program
in `src/pinocchio/kaboom-p/src`, the web application in `src/apps/web/src` with
its database in `src/db`, the relay in `src/apps/realtime`, the SDK in
`src/packages/sdk` and the scripts in `src/scripts`. Paths below are relative to
`src/`; `kaboom-p/` stands for `pinocchio/kaboom-p/src/`, `web/` for
`apps/web/src/` and `server/` for `apps/web/src/server/`.

## 1. The system

### Components, their state and operations

| Component | State | Operations | Modules |
|---|---|---|---|
| VRF round protocol, `kaboom-p/ix/vrf.rs` | per player a `VrfClaim` (L1) and a `VrfGame` (L1 or rollup); `total_outstanding_max_payout`; vault lamports | start, delegate, reveal request, oracle callback, cash-out, settle-and-undelegate, force-undelegate, hand-back, settle, refund, admin release | `VrfRound`, promise: `WagerBook` |
| LP vault, `kaboom-p/ix/v2_lp.rs`, `house.rs`, treasury side of `vault_admin.rs` | `VaultV2State` unit counters, one `LpPosition` per user | deposit, request / cancel / complete withdrawal (users and house), operator unlock, donation, treasury withdrawal | `VaultLp` |
| Arithmetic, `kaboom-p/helpers.rs` | none | multiplier ladder, worst case, mine decision, unit pricing, health, floors and caps | `KaboomMath` |
| Vault administration, `kaboom-p/ix/vault_admin.rs` | owner, pending owner, allowlist | two-step ownership, allowlist | `VaultAdmin` (keys); edge and switches in `VrfRound`, pause in `VaultLp` |
| Referral accounts, `kaboom-p/ix/referral.rs` | `PlayerStats.referrer`, one `ReferralAccount` per key | set, claim, repair; accrual at settlement | `Referral`; the cut also in `VrfRound` |
| Legacy games, `kaboom-p/ix/legacy_game.rs` | `GameSession` | reveal, cash-out, settle, refund of what is left of commit-reveal sessions | `LegacyGame` |
| Cron tick, `server/cron/tick.ts`, `server/solana.ts` | advisory lock and its session, last runs per process | tick, passes due, lock question before each send | `CronTick` |
| VRF passes and settle route, `server/cron/vrf-passes.ts`, `server/vrf-settle.ts` | what a pass read; sends under way; rows | settle, refund, force; record a settled game | `VrfCrank` over `VrfRound` |
| Legacy passes and cleanup, `server/cron/legacy-passes.ts`, `web/app/api/cleanup`, the recovery banner | stored sessions, scans, offers | expire, release, delete; offer and follow | `LegacyCrank` over `LegacyGame` |
| LP passes, `server/cron/lp-pass.ts`, `lp-points-pass.ts` | rotation; hourly accruals | complete matured withdrawals; award points | `LpPass`, `LpPoints` |
| Indexer, `server/indexer.ts`, `cron/indexer-pass.ts`, `inline-ingest.ts`, `db/migrations` | cursor, `processed_events`, mirror tables | list and fetch signatures; claim, apply, release one; repair a mirror | `IndexerPass`, `LpMirror`, `GameMirror`, `ReferralRollup` |
| Referral tracking, `server/referral-codes.ts`, `referral-tracking.ts`, `web/hooks/use-referral.ts` | codes, visits, localStorage | mint a code, follow a link, sign up, confirm | `ReferralLinks` |
| Monitoring, `web/app/api/status`, `server/cron/vault-health-pass.ts`, `web/hooks/useContracts.tsx` | readings, remembered answers, alerts | read, compute, show | `Monitoring` |
| Web client of a round, `web/hooks/use-vrf-game.ts`, `web/lib/vrf/client.ts` | session keys in localStorage, tabs | start, reveal, cash out, settle, sweep, recover | `VrfClient` |
| Panels, `BetControls.tsx`, `game-store.ts`, `lp-panel.tsx`, `vault-math.ts`, `lib/confirm.ts` | polled readings, inputs, locks | engage; deposit, request, complete, confirm | `BetPanel`, `LpDesk` |
| Round verifier, `server/verify-vrf.ts` | none (reads the chain) | walk back, replay, compare | `RoundVerifier` |
| Realtime relay, `apps/realtime/src` | upstream sockets and subscriptions, remembered signatures, listeners | proxy calls, push signatures, relay rows | `RpcProxy`, `RelayPush`, `LiveFeed` |
| SDK, `packages/sdk/src` | none | write and read instructions, accounts, events | `SdkWire`, `EventLogs` |
| Owner's scripts, `scripts` | multisig index, proposals, program buffers | upgrade, rotate, initialise v2, repair, transfer | `OwnerOps` |

`PROJECT.json` lists every component with its status, the ones that are left
out or modelled in part with the reason.

### How they interact

A round starts on L1 (`start_game_vrf`): the bet goes into the vault, the worst
payout is added to `total_outstanding_max_payout`, and two accounts are made.
The claim stays on L1. The game is delegated (`delegate_vrf`) and from then on
written only on the ephemeral rollup, where each click asks the VRF oracle for
a random word (`reveal_request_vrf`) that arrives later in a transaction of the
oracle's (`reveal_callback_vrf`). The game returns when the player
(`settle_and_undelegate_vrf`) or the house (`force_undelegate_vrf`) schedules a
commit and the delegation program hands the account back
(`process_undelegation`). On L1 anybody settles a decided game (`settle_vrf`),
the player or the house refunds a stalled one (`refund_stalled_vrf`), and the
owner writes off an abandoned claim (`admin_release_vrf_claim`), leaving the
game where it is. Rounds and LPs share the vault's lamports, and through
`total_outstanding_max_payout` and the pending units they enter each other's
admission limits.

The browser holds the session key that plays on the rollup. The relay posts
the signatures it hears of to the server and calls the cron tick every minute;
the tick runs the passes, which close what players leave undone, complete LP
withdrawals, award points, and index what the relay's posts missed. Rows go
back through a Postgres trigger, the relay and a socket to the browsers. The
status page, the health pass and the app each judge the vault for themselves.

### What is hard

* Two accounts on two chains with no common transaction: the claim can be
  released while its game is on the rollup, and a later start takes over the
  game that was left behind (fix F6).
* An oracle answer that names an account but no request.
* Players who stop at any point, while the vault's reservation stays; keys that
  exist in one browser and transactions that land after they were given up.
* Saturating counters that no handler recomputes; fees that leave a vault whose
  lamports are reserved; withdrawals priced after a cooldown in which
  everything may move; integer division in every price.
* Ticks that overlap although a lock excludes them, passes that act on readings
  of two chains at different times, batches with a head that never succeeds.
* Deliveries that are duplicated, reordered, retried after they committed, or
  lost with a process that stops; rollups in several statements.
* Copies: the program's checks are repeated in the bet panel, the LP panel and
  three monitors, its layouts in the SDK; a copy that drifts fails far away.
* Concurrent requests for codes, visits and signups; two scripts at one
  multisig.

`PROJECT.json` lists each as a hazard, with the line where it bites and the
properties that catch it.

## 2. Modules

| Module | What it is |
|---|---|
| `KaboomMath` | the pure functions of `helpers.rs`, under their Rust names |
| `Totals` | the sum of a function over `1..n`, for "this counter is that sum" |
| `VrfRound` | the round protocol, its properties and its inductive invariant |
| `WagerBook` | what the vault promises players: accept a covered wager, close it once within its cap |
| `VaultLp` | units, withdrawals, the house's share and the operator's exit |
| `LegacyGame` | the commit-reveal sessions that remain, from PLAYING to their last settlement |
| `Referral` | who refers whom, volume tiers, earnings and their claims |
| `VaultAdmin` | the vault's keys: two-step ownership and the operator allowlist |
| `VrfCrank` | `VrfRound` with the pass that closes rounds and the settle route beside it |
| `LegacyCrank` | `LegacyGame` with the legacy pass, the stored sessions, the cleanup route and the banner |
| `CronTick` | overlapping ticks and the lock |
| `LpPass`, `LpPoints` | the completion of withdrawals and the hourly points |
| `IndexerPass` | which transactions the indexer reads, and how its cursor moves |
| `LpMirror` | how concurrent ingests apply one user's LP transactions, and the repair from the chain |
| `GameMirror` | rows of games, their settlements and points, the backfill and the nightly checks |
| `ReferralRollup` | a referrer's row, summed from its events in three statements |
| `ReferralLinks` | codes, visits, signups and what a browser keeps of a link |
| `Monitoring` | three readers that say how the vault is |
| `VrfClient` | the browser's side of rounds: keys, tabs, sweeps and recovery |
| `BetPanel`, `LpDesk` | what the panels offer, lock and report |
| `RoundVerifier` | the public verifier of rounds |
| `RpcProxy`, `RelayPush`, `LiveFeed` | the relay towards the upstream, the server and the viewers |
| `SdkWire`, `EventLogs` | the layouts both sides write by hand, and whose events a log holds |
| `OwnerOps` | the owner's scripts at the multisig |
| `MCVrfRound`, `MCVrfCrank`, `MCVaultLp`, `MCLegacyCrank`, `MCMachines`, `MCClients`, `MCLpMirror`, `MCVrfClient` | the modules TLC runs |
| `KaboomMathTheorems` | lemmas on sums, on integer division and on the operators of `KaboomMath` |
| `VrfRoundProofs`, `VrfPaymentProofs` | theorems on rounds: the protocol, and the money |
| `VaultLpProofs`, `LegacyGameProofs`, `ReferralProofs` | theorems, one module per component; further parts of `VaultLpProofs` are about `VaultAdmin`, `LpMirror` and `Monitoring`, of `ReferralProofs` about `ReferralLinks` and `ReferralRollup` |
| `OffChainProofs` | theorems on the cron tick, the indexer pass, the VRF crank, the browser's keys, the owner's scripts, the hourly points, the mirror of games and the completion of withdrawals |
| `ClientProofs` | theorems on the bet panel, the LP panel, the relay (its RPC proxy, its posts and its live feed) and the reader of event logs |

Definitions whose comment begins with "Mutant:" are wrong on purpose. Each is a
plausible bug in the definition that follows it and no specification uses it;
substituting it shows that a property can fail.

### VrfRound and the code

State: `assets` is `vault_assets` (lamports above rent), `outstanding` is
`total_outstanding_max_payout`, `claim[p]` and `game[p]` are the two accounts.
`game[p].at` says who owns the game: nobody, the program on L1, the delegation
program while the rollup plays it, or the delegation program after the commit
was scheduled. `requests[p]` are the oracle requests in flight and `rounds[p]`
numbers the rounds; `claim.round` and the round of a reveal are history
variables that only properties read. `mode` folds the pause switch, the VRF
switch and the validator pin into what admission sees.

Actions carry the names of the instructions. An instruction that returns an
error changes nothing, so its `require`s are the guard; checked arithmetic
that would abort is a guard too. Left out because they do not change these
variables: account validation (signers, seeds, owners), rents (they return to
the player with the account), player statistics and events.

Abstractions: slots are ages of claims, capped once past every threshold; the
session key is the player; referral tiers are a nondeterministic choice from
`ReferralCuts`; the oracle answers with any word of `Words`. Two environment
facts come from outside `src/`: the pinned oracle queue exists on the rollup
only (`consts.rs`, `VRF_ORACLE_QUEUE`), so a request succeeds only there, and
the rollup stops writing an account once its undelegation is scheduled.

### VaultLp and the code

`house` holds the house fields of `VaultV2State`, `position[u]` an
`LpPosition`; `wait` is the number of slots until a pending withdrawal unlocks,
negative afterwards, and stops where the claim window has lapsed. `games_move`
stands for all instructions of rounds: it sets `assets` and `outstanding` to
any values of two sets, so whatever holds here holds whatever the games do.
`set_paused` is the pause field of `update_vault`. The v2 configuration is
constant. Closing an empty position (`close_lp_position`) is not an action: a
closed position and an empty one are both `Nothing`.

### LegacyGame and the code

`start_game` always fails now, so `Init` is a set of fresh sessions with their
reservations, and the actions are the instructions that remain. A session
keeps its true layout as the preimage of its commitment; `known` says whether
the house holds it, since the player supplied the commitment. `reveal_tile`
takes the house's word, as the code does: only `settle_game` compares it with
the layout. `received[p]` is a history of what the vault paid. Ages are slots
since `start_slot`, as in `VrfRound`. The LP units a settlement reads for its
treasury cut are constants.

### Referral, VaultAdmin and the code

One referral account per key, its lamports counted above rent; the vault's
balance at a settlement is any member of `Available`, so the cut may be capped
to nothing. `set_referrer` takes any key, the zero key too, and initialises an
account whose stored key is zero: the zero key's own account therefore loses
its tier with each new referee, which is why `TierEarned` is about players'
accounts. `LeftCount` describes accounts that the first version of
`set_referrer` left without a key; `repair_referral` or the next referee gives
them one.

The allowlist of `VaultAdmin` is the array and its count, removal moves the
last entry into the gap. `approved` (added and not removed since) and
`proposer` are history variables the properties compare with the code's state.

### The cron: CronTick, VrfCrank, LegacyCrank, LpPass, LpPoints

`CronTick`: a tick holds the advisory lock through a session; when the session
dies the lock is free at once and the tick learns of it only when it asks. Each
send asks first, then sends with retries. `ticks[t].stale` counts sends made
after the lock was lost.

`VrfCrank` extends `VrfRound`. A pass is a record of what it read and how far
it is: claims and games of L1 at the start, the rollup's copies at the end,
sends one after another in between, while every action of `VrfRound` may
happen. A send names the claim it was decided for; whether it lands is decided
by the guards of the instruction at that moment. Signature listings may fail,
so an idle game may look busy. The settle route sends for the player beside the
pass, and both record the row that `vrf-settle.ts` derives from the settled
transaction.

`LegacyCrank` extends `LegacyGame` in the same way with the pass (scan, expiry
in batches, release, removal of stored rows), `row[p]` for the stored session
(none, this game's, another's), the offers of `POST /api/cleanup` and the
banner with its own countdown from `GET /api/session`.

`LpPass` keeps the order of the accounts and the `rotate` counter; `waited[p]`
counts the passes a due position was left out since one last joined the list. `LpPoints` keeps accruals and
awards per owner, the hour each process believes it has done, and transactions
that commit although they are reported as failed.

### The indexer and the database: IndexerPass, LpMirror, GameMirror, ReferralRollup

`IndexerPass` numbers transactions in the order in which they land; `cursor` is
the number of `last_signature`. `signatures` is what the paging loop collects,
from the number of transactions on chain and the `until` it starts with: pages
are anchored at the first one by `before`, so what lands during the run does
not enter it. Listing and indexing are two actions, since transactions land and
inline ingests run in between. A transaction whose `getTransaction` failed has
no logs, is skipped without being claimed, and is missing to this run; a failed
ingest that released its claim looks the same.

`LpMirror`: `Chain` is what one user did on chain, one LP event per
transaction, with its slot. `work[w]` is where an ingest stands between its
database calls, each of which is one step. A call that fails may have
committed: `query_timeout` gives up on the client's side. `row` is the user's
row of `lp_positions`, and `applied` is a history of the signatures whose
update found its row. `repair` is `scripts/repair-vault-mirror.ts`: it reads
the account and the history, then writes totals, units and the slot of the last
deposit or completion, beside ingests that are still under way.

`GameMirror`: legacy games write a row when they end and get their layout when
the settlement is ingested, which finds its row by account and slots; VRF games
are written once. Points follow in a call of their own. `runInvariants` is the
daily check, and `proof` what the public verifier shows of a row. `strays` and
`mishaps` are histories of settlements that met another row and of failures.

`ReferralRollup` runs `idx_apply_referral_accrued` as three steps that each see
what is committed, claims and tier changes as one, and delivers everything more
than once and in any order.

### Links, monitoring and the browser: ReferralLinks, Monitoring, VrfClient, BetPanel, LpDesk, RoundVerifier

`ReferralLinks` has requests for codes between their reads and inserts, one
browser with its storage (which may be closed to the page), visits with the
wallets they are attributed to, and the start that sets the referrer and then
confirms it.

`Monitoring` follows one reader at a time: the status route with its remembered
answer and a page that polls it, the health pass with its alerts, or the app.
Each reads the parts of the vault in calls between which the vault may change.
`quiet` counts how long it has stood still.

`VrfClient` runs tabs that share `key_slot` (the live key) and `sweepList`; a tab's
step goes from one await to the next. The chain is what the client can tell
apart: claim, where the game is, and the gas of each key. Starts may land late
or expire; one of several tabs may be reloaded at any point.

`BetPanel` keeps what the panel last read and what the user typed next to the
vault itself, so that properties compare the offer with the program's own
admission (`start_admitted`). `LpDesk` does so for the LP panel, its routes and the
confirmation loop; slot and block height advance separately.

`RoundVerifier` builds a history of transactions on one player's accounts, in
which a closing transaction may pay anything, and evaluates the verifier on
every set of unreadable transactions.

### The relay and the SDK: RpcProxy, RelayPush, LiveFeed, SdkWire, EventLogs

`RpcProxy` is one browser's connection with calls, answers and final
notifications in flight both ways. `RelayPush` is the log subscription with its
reconnects, replays and bounded memory, and the tick. `LiveFeed` has the
Postgres listener with the three events that may report its failure, the
viewers' sockets and the browser's merge with its polls.

`SdkWire` names a byte by the field and position it was written for, so that a
reader that is off by one shows what it took for what; it has one entry per
instruction, account and event of the SDK that the program reads or writes.
`EventLogs` has nested invocations and a log that is cut off.

### OwnerOps and the code

A shell runs a script as a sequence of transactions; each may be refused, fail
on chain, time out or land late, and the script is run again. `squads` is the
multisig (index, operations, approvals), `buffers` the builds being uploaded,
`owned` what the operations change.

### Integers

The program computes in checked u64/u128: an overflow aborts the instruction
and the supply of lamports is far below 2^64, so the model uses naturals. The
saturating operations of the code are kept as `saturating_sub`, and the
theorems show that the one in `release_outstanding` never saturates.

## 3. Properties and runs

| Run | Property | What it says |
|---|---|---|
| `vrf_two_players` | `OutstandingExact` | the counter is the sum of the live reservations |
| | `Covered` | the vault holds at least what it has reserved |
| | `ImplementsBook` | refinement of `WagerBook` |
| `vrf_one_player` | `OracleInStep` | the request in flight is the one the game waits for |
| | `DecidedSettles` | the replay accepts every decided game, within its reservation |
| | `ProgressIsPaid` | earned winnings are paid when the round closes |
| `vrf_crank` | `OneRowPerSettlement` | a settlement leaves one row, whoever sent it |
| | `EveryRoundCloses` | every round closes in the end, though its player stops |
| | `FundedKeyKept` | the browser forgets no session key that holds gas |
| | `RecoverCloses` | a player who wants out gets the round closed from the browser alone |
| `lp_units` | `UnitsExact` | both unit counters are the sums they stand for |
| | `NobodyIsDiluted` | others' trades never lower the value of one's units |
| | `HouseShareKept` | only the operator's exit takes the house below its floor |
| | `NoFalseAllClear` | an all-clear of page, pass or app that stays is right |
| `legacy_crank` | `CrankReleases` | what the house can release is released |
| | `ReturningGetsOut` | a player who comes back gets the account closed |
| `clients` | `LegacyExact` | each legacy reservation is released exactly once, by whoever comes first |
| | `ExpiryIsBest` | the crank gives the player the better of its own two exits |
| | `ReadsWhatWasWritten` | both sides of the wire agree on bytes, accounts and signatures |
| | `OursExactly` | the lines decoded as ours are the program's own |
| | `UpstreamWithinCap` | the upstream carries no more for a browser than its limit |
| | `RelayedOnce` | `ReplaysPostedOnce`: replays are not posted again; `HeardOnceInOrder`: a viewer hears of a change once and in order |
| | `EngageIsAdmitted` | the program accepts the bets the panel lets through |
| | `EngageHeard` | the lock of a click is released once its start is through |
| | `OfferedPasses` | the program accepts what the LP panel offers |
| | `ExpiredNeverLands` | what the LP panel calls expired was not executed |
| | `VerdictIsRight` | `VerifiedIsDue`: what is verified was due; `HonestIsVerified`: an honest settlement is verified |
| `machines` | `ReferralReady` | no settlement or claim is refused for the state of a referral account |
| | `ClaimsBacked` | an account holds what it owes; earned = owed + claimed |
| | `CursorSkipsNothing` | what is missing behind the cursor was listed, and is within the safety window |
| | `PositionsExact` | `ExactInOrder`: applied in order, the row is the position on chain; `RepairHolds`: a repaired row stays right while late deliveries arrive |
| | `OneStaleSend` | a tick without its lock sends at most once more |
| | `DueGetsItsTurn` | a due position is left out for at most n(n-1)/2 passes, whatever fails or leaves before it |
| | `PointsExact` | an hour is awarded once, across processes and retries |
| | `SettleFindsItsRow` | a settlement reaches its own row, and the daily check is quiet without faults |
| | `BackfillSkipsNothing` | a finished backfill leaves no game without points, none earns twice |
| | `ReplayNeverInflates` | replayed accruals and claims change nothing |
| | `LinksLead` | `AnswersAgree`: codes and shown links lead to their wallet; `PendingIsLast`: the referrer to be set is the last link's |
| | `AttributedOnce` | a visit stays with the wallet that signed up first |
| | `WholeProgramOnly` | the program is replaced by whole builds only |
| `indexer_quiet` | `EveryTxIndexed` | violated: see Findings |
| `lp_mirror_order` | `TotalsCommit` | violated: see Findings |
| `legacy_starved` | `CrankReleases` | violated: see Findings |
| `client_late_start` | `StartedKeyKept` | violated: see Findings |
| `verify_unread_start` | `StartStillStands` | violated: see Findings |

### Several machines in one run

`MCMachines` and `MCClients` each bring together machines that share no state,
and `MCVaultLp` and `MCVrfCrank` do so with two. Machines with theorems are
extended, so that run and theorem speak of one definition; their operators
carry the machine's name (`CronInit`, `IndexerNext`, `ClientSpec`). The others
are instances. A variable `machine`, chosen at the start, says which of them
a behaviour follows; the others keep one initial state. This is one instance of
each module, not a composition: it says nothing about them together, and the
state space is the sum of theirs, not the product. Real compositions are made
by extension: `VrfCrank` extends `VrfRound` and `LegacyCrank` extends
`LegacyGame`, with the chain's own actions in between.

In `MCVrfCrank` the fairness conditions of `VrfCrank` and of `VrfClient` are
repeated with `machine` in front, as a condition on one machine must not hinder
the behaviours of the other. `PositionsExact`, `LinksLead`, `RelayedOnce` and
`VerdictIsRight` join two properties that are about one promise.

`ReferralLinks` has several instances: for requests for codes, for two links at
one browser, and for two signups at once.

### Bounds

The rounds use a board of four tiles, so that a game has one to three
safe tiles, first-click mines, and a full board; basis points are the real
10000, bets and vault are a few hundred and a few thousand lamports, which the
real limits (10% bet, 50% payout, 10% health) turn into runs where a second
bet is sometimes refused. Two rounds per player are enough for a round to meet
what an earlier one left behind. `STALL_SLOTS` and `ABANDON_SLOTS` are 0 to 3:
only their order matters, because ages are compared with nothing else.
`vrf_two_players` keeps one mine count and two words, since what two
players share is the vault; `vrf_one_player` takes all mine counts, words and
two edges, since the fate of one game does not depend on the other player.
`vrf_crank` has one round, one transaction of each kind per pass and thresholds
of one to three slots, so that every age lies before and after a reading of the
pass; and one tab with two rounds, one fault and reloads.
`lp_units` uses basis points of 100 and 5 to 13 lamports, so that nearly every
division has a remainder and a unit is worth more or less than a lamport. The
readers find amounts of that size: the page, with two requests at once, a vault in
one of two conditions; the pass and the app one in any of seven. An answer arrives in
the tick it was given (`NET` is 0), before or after any other of that tick; for slower
answers there is the theorem `AllClearsAreTrue`.

The legacy instances use two sessions, and boards of three tiles (one or two
mines) in `legacy_crank` and of four (two or three mines) in `clients`: a board is
cleared by one or two reveals. In `clients` the vault is too
poor for both, so that payments are refused and refunds are partial, and the
house may reveal anything; in `legacy_crank` it can pay and a pass has two
transactions per phase, as many as there are sessions. The expiries are 1 and 0
slots: a session meets its own expiry before and after the one for unsettled
games.

`machines`: three players who may refer each other or the zero key, volumes
that cross both tiers (10 and 20, bound `MaxVolume` 20), and a vault that holds
nothing, one lamport or enough; four keys, interchangeable but for the
deployer, and three allowlist slots, which fill up, lose their first, middle
and last entry, and empty. The indexer uses pages of three signatures and runs
of two pages; up to a whole run's worth lands between two runs, which includes
new signatures that fill their pages exactly, with two faults among failed
fetches and unwritten cursors. A burst of one more than the cap breaks
`CursorSkipsNothing` (`MaxBurst` 7): the run reads a backlog from its newest
end and the cursor jumps to that end. `LpMirror` has five transactions (a
deposit, a request that is cancelled, another in the slot of the cancellation,
its completion with a gain), two ingests and two troubles, each a fault or a
run of the repair: enough for a commit whose call fails, a release that fails
or a process that stops in the retry, another delivery in between, and a repair
beside any of these. Two ticks with a pass that sends twice;
three positions of which one fails always and one is dust; two processes over
two hours; two legacy games of one account with signatures out of the order of
their slots, and a VRF game; five referral events delivered in any order; two
wallets with three requests for as many codes as wallets; two players at one
browser; two scripts with two late or lost transactions.

`clients`: one upstream subscription with two calls under way and three frames;
a memory of two signatures for three; three Postgres listeners, so that a
failure told twice could leave two at once; a vault that is free, heavily
reserved or paused, with a tenth of its units waiting to leave, before a panel
that chooses between one and two mines of four tiles; two pools, in one of which the larger deposit is one
lamport more than the house's share allows; a verifier that looks back three
transactions over two rounds. Where a bound is what the code itself limits
(`MAX_INSERT_RETRIES`, `ROUND_HISTORY`, `RECENT_SIG_CACHE`, `MAX_TX`), the
instance lets it be reached.

`Covered` and `ImplementsBook` hold for rounds alone. LP withdrawals, house
withdrawals and treasury withdrawals do not look at `outstanding`
(`pinocchio/spec/v2-lp.md`, `house.md`, `vault-admin.md` say so), so no such
property can hold of the composition. In the model of rounds the pending units
are constant and positive, so that the health factor and the treasury's cut
see them.

`machines`, `clients`, the crank runs and the violations disable the deadlock check:
each machine ends at its bounds, and nobody has to act.

### Fairness

`vrf_crank`, crank: ticks keep coming and the pass goes on (weak fairness: the
relay calls the tick every minute, `apps/realtime/src/index.ts`), the oracle
answers and the delegation program hands back (weak), and a transaction that is
sent again on every pass is at last accepted and lands (strong). Nothing is
assumed of idleness, the players, the settle route and the owner. The oracle's
fairness is needed: a game whose reveal is never answered stays on the rollup,
since `end_playing` refuses a pending game; then only the owner's release, which
is not fair, frees the reservation.

`vrf_crank`, client: the oracle answers, the game comes back, a start lands or
expires. The player wants out: the tab goes on, probes are answered, he plays
on or cashes out, presses Recover when it is offered again and again, reloads a
board that does not answer, and in the end reloads no other. Without the last
condition he could reload for ever before any button appears. Nothing is
assumed of the house's cron.

`legacy_crank`: the clock and the pass go on (weak), a transaction sent again
on every pass lands (strong), with `MAX_TX` no smaller than the number of
sessions; the returning player asks the cleanup route and signs, or presses the
banner's button whenever it is ready, and the banner keeps polling. Players
without a return owe nothing. The vault can pay, as `expire_game` pays in full
or fails, and the house reveals what it knows.

`indexer_quiet` assumes weak fairness of listing and of indexing (`TickSpec`).
Nothing is assumed of the chain, of inline ingests or of resets.

## 4. Proofs

`VrfRoundProofs` proves for every number of players, board, configuration and
number of rounds that `RoundInv` is an invariant of `Spec`:

    RoundInv == TypeOK /\ OutstandingExact /\ Strengthening
                /\ L1PlayingIsFresh /\ ClaimOwnsGame /\ OracleInStep

The conjuncts need each other. `ClaimOwnsGame` (reveals belong to the live
round) needs `OracleInStep`, because a callback records the round of the
request it answers. `OracleInStep` needs that a game in the program's hands on
L1 has nothing pending, else a start taking over an orphan would forget a
request in flight: `L1PlayingIsFresh`, with `Strengthening` (pending only on
the rollup and while PLAYING) for the games on the rollup.
`OutstandingExact` needs that a closed claim reserves nothing, and then shows
that the saturating subtraction is exact because one summand is at most the
sum (`TotalBounds`). One lemma per conjunct, one step per action. From
`RoundInv` follow the two action properties `VerdictIsFinal` and
`ProgressIsPaid` (a VOID game has `safe = 0`, and a PLAYING game on L1 has
none, so a refund never meets progress).

`VrfPaymentProofs` is about the money of a round. `DecidedSettles` says that
the replay in `settle_vrf` ends where the rollup ended. The replay is a fold
over the words, and no theorem here may use induction over data; so the module
works with the trace of the replay (`IsRun`: the verdict after each word), of
which it shows, by the least counterexample, that one exists, that it is
unique, and that one more word extends it (`RunExists`,
`RunAgree`, `ReplayAppends`). Then

    PaymentInv == RoundInv /\ GamesPlayed /\ ClaimsReserved

is inductive: `GamesPlayed` says that the game of a live claim stands where the
trace of its own words stands, and `ClaimsReserved` that a claim reserves the
worst case of its bet and mines. A reveal callback appends one word and moves
the game one step on the trace.

`Covered` is not inductive even with the exact counter: a settlement pays from
the reservation, but the treasury's fee and the referral cut leave the vault
beside it, at the edge of that moment, which the owner may have raised since
the bet. What carries it is

    Slack == outstanding <= assets
             /\ \A later \in Edges, cut \in ReferralCuts :
                    (cut + later) * Stakes <= (assets - outstanding) * BPS

with `Stakes` the sum of the live bets: what is not reserved covers the fees of
all live rounds at any edge they may meet. A start keeps it because the health
floor leaves a share of the new total reservation free, and the worst case of a
bet is a multiple of it; a settlement keeps it because its fees are computed
from its own bet. TLC checked `PaymentInv` and `Slack` before they were proved.
The step needs `FeeAssumption`: shares of at most one
(`vault_admin.rs:203-219`), an edge that leaves a full board worth the bet, and
fees of a round within the health floor's share of its worst case. The ranges
that `vault_admin.rs:59-61`, `v2_lp.rs:95-110` and `consts.rs:63-79` leave meet
it: an edge of at most 10% and the highest referral tier are less than 1% of a
worst case of at least 14 bets. With a higher edge or no floor the theorem
would be false.

From the two invariants, `RoundsImplementBook` is the refinement of `WagerBook`:
initial states map to initial states, and one lemma per kind of step
(`StartAccepts`, `EndCloses`, `StepIsBooked`). A start is an `accept`; a settlement, a refund and the owner's release are a `close`
within the cap (here `DecidedSettles` and `OutstandingExact` are used);
everything else leaves the book's variables alone.

`VaultLpProofs` proves `TypeOK /\ UnitsExact` inductive for every number of
users and every behaviour of the games, and `MaturedIsPayable` from it: the
pending units of one user are part of both counters (`SumsBound`), and a share
of the units is worth at most the assets (`ShareBound`). `HouseShareKept` and
`NobodyIsDiluted` follow as action properties, one lemma per instruction. A
deposit rounds the new units down and a completion the payment, and
`DepositKeepsPrice` and
`PaymentKeepsPrice` say that either rounding is in favour of those who stay.
`LpAssumption` asks for a house share of at most one, which
`v2_lp.rs:99-101` enforces.

Its second part proves `AdminTypeOK /\ AllowlistExact /\ ProposalIsOwners` of
`VaultAdmin` inductive for any list length. The distinctness of the used slots is part of
`AllowlistExact` because the swap in `allowlist_remove` would otherwise leave a
second copy of the removed address.

Its third part is about `LpMirror`. `MirrorInv` has three ideas besides types.
`ClaimsOK`: an ingest at work holds the claim of its signature, alone.
`RowInOrder`: as long as what was applied is `1..n`, the row is `onchain[n]`;
the next transaction can only be applied when the claims let it, and the clamps
do nothing because the program itself allowed it (`ChainAssumption`). A
transaction that commits although its call failed, and is delivered again, is
dropped by the slot guard. `RowRepaired`: a row a complete repair wrote has
the chain's totals and a slot at or above every deposit and completion, so that
what is late and would change the totals is dropped. `onchain` is a recursive
function and `total_of` a sum; that the two agree on every prefix
(`TotalsOnchain`) is shown by the least prefix on which they do not.

Its fourth part is about `Monitoring`. `MonitorInv` says, besides types, how old
what is wrong can be. A probe begun after the vault last moved has read it as it
is (`ProbesRight`). So a memo that is wrongly clear was filled by an older probe
(`MemoRight`), a wrong answer comes from such a probe or such a memo
(`AnswersRight`), and a wrong page either polled when wrong answers were still given
or a later poll is being answered (`PageCorrected`), which is over after `STALE`.
That needs the memo's answer to go to the last poll only: an answer on its way when
the next poll starts, or when the memo is given up, could overtake a newer one. The
pass and the app compute the health with less than the vault has, and
`HealthWithMore` says that a health far enough above a floor stays above it with
more assets, the rounded value of pending units included.

`LegacyGameProofs` proves `TypeOK /\ PlayingUnsettled /\ LegacyExact /\
PaidOnce` inductive for any number of sessions. `PlayingUnsettled` (only a
decided session is settled) is needed by `cash_out` and `reveal_tile`: a session
that became WON or LOST while marked settled would never release again.
`ExpiryIsBest` is an action property of that invariant: a session that is still
PLAYING has received nothing, so what the expiry appends is all it gets.

`ReferralProofs` proves `TypeOK /\ Untouched /\ ReferralReady /\ ClaimsBacked
/\ RefereesCounted /\ TierEarned` inductive. `Untouched` says that a player
without a referrer has no credited bets, so that naming one moves no volume,
and that an account without its key is as it was found, so that keying it
resets a tier that is zero anyway.

Its second part is about `ReferralLinks`. `LinksInv` says that a code names one
wallet, that a request stays with its wallet and answers with that wallet's
code (`Asks`), and that the page waits for a request of the wallet it shows
(`Shows`): a browser that changes hands, or a request that loses the race for
its insert, may find another code in the table but not hand it out. Since a
code once given is never changed, an answer stays right. `AttributedOnce` is an
action property: the update of a signup that read the visit as free looks at
the row again.

Its third part is about `ReferralRollup`. The row is a sum over a set of
events, so lemmas on such sums come first: one exists, it does not depend on
the order (`AnyOrder`), and it grows with the set (`AmountsGrow`). `RollupInv`
says that what a call has read of the log is still in it (`ReadIsLogged`: the
log only grows, so a late write shows too little and never too much), that a
claim's slot is behind the row's (`ClaimsSeen`: the slot guard then drops its
replay), and that while no calls overlap the one that rolls up read what the
row still says (`OneRolls`).

`OffChainProofs` has one section per machine.

* Cron tick: `CronInv` says of each tick that it has sent at most one
  transaction without the lock, and none while its session lives or a send is
  being prepared: the send that goes stale is the one whose question was
  answered before the session ended. `TicksExclude` needs that the lock's
  holder is the tick past the lock (`LockKept`).
* Indexer pass: `IndexerInv` relates the cursor, what is known to be on chain
  and what a run has listed. Between two runs the chain grows by at most a
  burst, so a run that starts at the cursor reaches back to it; the second part
  of `CursorSkipsNothing` counts how far the cursor moves between a fault and
  the next listing. `IndexerAssumption` states what is asked of the sizes; the
  code's 100, 100 and 300 (`indexer-pass.ts`) meet it.
* VRF crank: `CrankKeepsTheRounds` is a refinement by forgetting: every step of
  the crank is a step of `VrfRound` or leaves the rounds alone. So the
  invariants of the rounds hold under the crank, and with them `OneRowEach`
  needs only that rows stay behind the rounds and differ.
* Browser keys: `FundedKeyKept` is not inductive, because a start that lands
  funds a key that nobody need have stored by then; `KeysKept` adds that a key
  whose start may still land is stored too.
* Owner's scripts: `ScriptsInv` says that an upgrade has written as many pieces
  of its buffer as it has steps behind it, that no two writers share a buffer,
  be they running or late (`Apart`), and so that what is handed to the multisig
  is complete and stays so. The other writes may interleave as they like.
* Hourly points: `PointsInv` ties awards to accruals (`Accrued`: the sum of an
  owner's ledger is the whole points of what accrued, and no hour after the last
  one counted has an award), and stops to hours (`Stamps`: a run that found an
  owner's withdrawal pending has put its hour behind him, has him still to
  stamp, or knows that it failed and runs again). A call that threw may have
  committed; the hour it left behind makes the retry void.
* Mirror of games: `GamesInv` has four parts. `OwnLayouts` needs that the
  settlement of a game whose row is there finds that row and no other (`OwnRow`),
  which is where the order of slots enters; `WrittenOnce` (while nothing failed
  a row is written by one ingest, once) is what keeps the nightly check quiet;
  `NothingSkipped` says of every game the backfill has not reached that it is
  beyond the cursor, or on the page, or after a page that was full: the cursor
  is a signature that was awarded or failed, not an offset, so rows that get
  their points meanwhile shift nothing.
* Completion of withdrawals: `waited` alone is bounded by nothing inductive.
  `PassInv` bounds `owed`: twice what a position has waited, twice its distance
  from where the next pass starts (`gap`), and `(m - 1)(m - 2)` for the `m`
  positions that are due. A pass that leaves the list alone gets at least one
  position closer (`UntriedIsAhead`, `NextIsCloser`); one in which positions
  leave may send another back by a whole round of what remains, which the last
  term pays for (`ShorterIsWithin`). The proof corrected the property: it used
  to count only the positions that are not dust, and the first attempt showed
  that dust that leaves the list shifts it as well.

`ClientProofs` has five sections.

* Bet panel: `PanelInv` is the types of the panel with `EngageHeard`, and what a
  start under way says of the board: before it is sent the board is that of no
  round or an ended one, afterwards it is "starting", and nothing closes
  meanwhile. `EngageIsAdmitted` is then about the two
  copies of the admission checks. The panel divides the vault's cap by the
  multiplier of a full board and the program multiplies the bet by it, and both
  round down; the panel counts with less than the vault has, and
  `HealthGrows` and `CapGrows` say that a smaller amount has the smaller cap. The
  value of the units that wait to leave is rounded down too, and can make the
  smaller amount the healthier one by a basis point: `rounds_alike` excludes
  that (see the observations).
* LP panel: `DeskInv` is about the confirmation loop. A transaction that is not
  confirmed was valid until the current block, and the last look comes only
  after that height, so what is not executed by then has expired for good.
  `Books` is about the position: its units are among the vault's, its pending
  ones among the pending ones, through every landing, completion and move of
  others. `OfferedPasses` then takes the three limits of a deposit one by one.
  The house's share: `MintedWithin` turns the inverse that the panel computes
  back into a count of units. The position: the route prices what is held before
  the deposit and the program everything after it, and `PositionGrows` says that
  a deposit makes a position no dearer than what was held and the deposit
  together, rounding included. The cap: it grows with assets and health
  (`FloorGrows`, `HealthMonotone`). The premises `priced` and `owed_alike` leave
  out deposits that buy no unit and those that a rounding of what is owed puts
  over the cap (see the observations).
* RPC proxy: a subscription counts from its request on and until upstream says
  that it is gone, so at any moment the account must be matched with what is
  in flight. `AccountInv` says that a call with an id that waits or was
  answered is remembered (`WaitingKnown`, `AnswersMatch`), that what is carried
  is on the account or in an answer on its way (`LiveKnown`), and that what a
  message takes off the account is not carried, now or later
  (`EndedStaysEnded`: subscriptions get fresh numbers). The limit follows by
  counting (`InvWithinCap`): subscriptions on the account, told by an answer
  and still asked for are told apart by their numbers and the ids of their
  calls. A failed unsubscribe must take nothing off, and a call's id must not be
  used twice; the closes need that a code `ws` cannot send is replaced.
* Event log: the reader's walk over the lines is a recursive function of the
  log; `LogInv` says that a walk exists whose stack is the runtime's as long as
  the log is whole and whose result is what the program wrote, and one more
  line extends it. After the cut nothing is written, so nothing can be
  misread.
* Relay: `Window` says that the signatures remembered are the last ones posted,
  without doubles; when one is forgotten, as many others were posted since. For
  the live feed, `FeedInv` says that one Postgres client at most is not dead,
  and none while a timer runs that will make the next (`PoolOk`): the reports
  of one failure, in any number and however late, find it dead. Then changes
  that wait with the client are newer than those sent to a socket, and these
  newer than what the viewer heard (`SocketsOk`, `ViewOk`).

Assumptions: the named ASSUMEs on constants (`GridAssumption`,
`BpsAssumption`, `RoundAssumption`, `FeeAssumption`, `LpAssumption`,
`LegacyAssumption`, `ReferralAssumption`, `AdminAssumption`, `CronAssumption`,
`IndexerAssumption`, `DeskAssumption`, `OwnerAssumption`, `PointsAssumption`,
`SettlementsAssumption`, `PageAssumption`, `LinksAssumption`, `PanelAssumption`,
`ProxyAssumption`, `ChainAssumption`, `TroublesAssumption`, `HappenedAssumption`,
`CacheAssumption`, `SlotsAssumption`, `LimitsAssumption`, `PassAssumption`), and
`ReadersAssumption`, a hypothesis of its theorem only, so that the other
theorems of `VaultLpProofs` do not rest on it (`MCVaultLp` has TLC evaluate it). They
say that amounts and slots are naturals,
shares and edges at most one, fees below the health floor's share, tiles on the
board, tier thresholds positive, that a run of the indexer has room for a page
and a window, and that the markers for "no referrer", "no key" and "no holder"
are none. `SettlementsAssumption` is about the chain: signatures name
transactions, and an account holds one game at a time, so that the rows and the
settlements of an account come in the order of its games. `LinksAssumption`
asks that the codes found at the start name one wallet each, which the table's
primary key sees to. `ChainAssumption` is about the chain again: what one user
did is a history that the program allows (one request at a time, of units the
position holds, cancelled or completed as a whole, `v2_lp.rs:217-268`), in the
order of its slots. `PassAssumption` asks for a cap and a cooldown of at least
one; they are 20 (`lp-pass.ts:30`) and at least 150 slots (`consts.rs:74`). `PanelAssumption` asks for an edge
below one and for rounds that are armed (`vrf_max_payout_bps` above zero).
`ReadersAssumption` asks that an answer takes less time than the route's memo is
kept and than the page waits between polls: a probe gives up after 6 seconds
(`status/route.ts:41`), the memo is kept for 10 (`:381`) and the page polls every 15
(`status-client.tsx:72`). With answers as slow as either TLC finds a page that keeps
showing a trouble as gone. It also asks that the rent the readers assume is not
below the real one, and that their thresholds of 50% and 30%
(`vault-health-pass.ts:27`, `useContracts.tsx:199`) are far enough above the
program's floor for one lamport of rounding. For the pass they are, as it alerts
below one SOL anyway; for the app a vault must hold five lamports above the assumed
rent, at the default floor of 10% (`consts.rs:82`). An owner who sets the floor above a threshold leaves that reader
without a basis.
`CursorNeverSkips` has the hypothesis that no burst is larger than a
run: with a larger one the property fails, as the bounds in section 3 say.

Proved, and in no run: the type invariants of the proved modules,
`L1PlayingIsFresh`, `ClaimOwnsGame`, `VerdictIsFinal`, `MaturedIsPayable`,
`PaidOnce`, `RefereesCounted`, `TierEarned`, `AllowlistExact`,
`ProposalIsOwners`, `TicksExclude`, `StoppedEarnsNothing`, `OneIngestPerSignature`
and `ChecksNeverFire`. A proof for every instance makes a run
on one of them superfluous.

Checked by TLC only: the liveness properties, since this prover has neither
fairness nor ENABLED; and two invariants that compare two copies of a layout or
a computation (`ReadsWhatWasWritten`, `VerdictIsRight`), whose modules enumerate
tables.

## 5. Findings

`cron/indexer-pass.ts:18` says that "every cron run also re-fetches the last N
sigs". A run that finds no new signature ends at line 62 before it reads the
window, and so does one whose new signatures fill their pages exactly. Run
`indexer_quiet`: a transaction listed once and not fetched stays out while
nothing else lands.

`db/migrations/20260530000001_lp_rpc_clamp.sql:20` says that the cumulative
totals "always commit", and `indexer.ts:100` that every handler is
"commutative". The slot guard drops an event that arrives after a newer one,
and an update before the first deposit finds no row. Run `lp_mirror_order`: a
withdrawal is in the action log and not in the total, without any fault. (Two
events of one user in one slot have the same effect, which
`20260521000001_lp_rpc_slot_guards.sql:23` accepts.)

`cron/legacy-passes.ts:22` says of its passes that "they exist so a stray
legacy game can never freeze the vault". `releaseStuckObligations` (line 132)
takes the first `MAX_TX` decided sessions of a scan whose order does not
change, and counts those it cannot settle. Run `legacy_starved`: as many
sessions without a stored row keep every later reservation.

`use-vrf-game.ts:418` says that a key "is persisted via the callback BEFORE
anything is sent, so a send that throws on a transaction that actually landed
cannot lose it". Run `client_late_start`: a page that is opened while the start
is in flight reads no claim and retires the key (line 822); when the start
lands, the board has no key to play with. The wallet can still recover the
round, and the gas is swept.

`verify-vrf.ts:182` says of an unreadable transaction that "the start's bet and
mine count still stand". Run `verify_unread_start`: when it is the round's own
start that cannot be read, the walk (line 188) goes on to the start before and
takes its bet; where that fits the payment, the verdict is "verified".

### Observations without a run of their own

These were met while modelling. The properties name them as exceptions or the
model follows the code; none is a run.

Program and crank. `kaboom-p/consts.rs:92` says of `VRF_VOID` "Only
force_undelegate_vrf writes it."; since round 2 of F3
`settle_and_undelegate_vrf` ends a PLAYING game the same way (`ix/vrf.rs:521`),
as `pinocchio/spec/vrf.md` describes. `inline-ingest.ts:16` says "Cron will catch
up if this call fails.", which a burst above the cap of a run defeats.

Mirrors. A replayed `GameWon` or `GameLost` resets layout and mine count of its
row but keeps the settlement (`indexer.ts:428-446`, against the comment at
99-101), so that both nightly checks report the row; `repairGames` beside a late
ingest has the same effect. A row settled at an edge that is neither the first
nor the live one is reported by the daily check for ever.
`repair-vault-mirror.ts` records the slot of deposits and completions only,
skips transactions it cannot read and stops at 1000 signatures.

Client. A stale poll overwrites a row that was pushed (`use-global-games.ts:99`).
The bet panel's copy of the admission checks has no health floor
(`kaboom-p/ix/vrf.rs:181` against `BetControls.tsx:414`, "MAX must never produce
a bet the program will reject"). It counts with the vault less the gap between
`VAULT_RENT_LAMPORTS_FLOOR` and the real rent; what LPs are owed of the smaller
amount may round down further, and the panel's health can come out a basis
point above the program's: with 1 of 3 units pending and a gap of 1, half of
21 lamports is a cap of 6 to the program and of 7 to the panel. While `vrf_max_payout_bps`
is zero (rounds not armed) the panel offers bets by the vault's own cap
(`vault-capacity.ts:86`), which `vrf.rs:114` refuses. A click over the board
of an ended round whose claim is still open leaves Engage locked
(`BetControls.tsx:327-350`). Inputs can be edited while a draw is awaited
(378-385, 404, 440, 502), against the comment at 127-131; the comment at 259-263
speaks of a visual release that `engageLocked` does not give. The LP panel looks
at neither the pause nor the health floor, and its verdict "timeout" after polls
that failed can follow a transaction that landed. It offers a deposit of
`min_lp_deposit` even when that buys no unit (`vault-math.ts:100` against
`v2_lp.rs:152`). A deposit at the position cap can be refused although panel and
route allow it: what is owed to LPs who leave is rounded down, and may come to
a larger share of the vault after the deposit, which lowers the health factor
and the cap with it (with 100 basis points to one and a cap of 40: 8 lamports,
22 units of which 8 are pending, 3 reserved, and a holder of 1 unit who adds 1).

Verifier. A change of the house edge between start and verification makes an
honest settlement unverifiable, since the edge is read from the vault of today.
The address check of a legacy proof cannot tell games of one player apart: they
have the same address.

Referral links. The signup route is not idempotent for pings that run at once.
A confirmation marks the wallet's latest visit, whatever its code, and is lost
when a start times out and lands. `setReferrer` of the hook is not used and
would clear the storage only.

Legacy recovery. The session route calls a game refundable one slot early. A
banner that shows a stale "playing, none revealed" with its own countdown sends
`refund_expired` for a game that went on, and the cleanup route offers it for
any PLAYING game: the program then pays back the bet, whatever was won. The
cleanup route offers a cash-out also below the bet. No route reveals legacy tiles any
more. A stored legacy session hides an open VRF round from the banner.

Monitoring. At zero assets the health pass computes the full factor and the
status route none. The detector of stuck capital asks for legacy accounts only.
`msPerSlot` runs outside the `timed` probe of the database, against the comment
at line 43. The page is "operational" while one probe is unknown. Parts of the
vault read at different moments can give an all-clear that lasts until the next
reading; of two requests at once the slower one overwrites the remembered
answer. The page says that nothing is cached longer than ten seconds, beside a
remembered answer, a CDN age and `stale-while-revalidate=30`. `min_health_bps`
may be set above the thresholds of pass and app, which then say nothing.

Scripts. The multisig's index is read once, and `confirmTransaction` does not
throw for a transaction that failed on chain, so of two scripts at once one may
execute the other's operation and print its own success; the upgrade and the
repair do not read back what they did. A script that stops after the approvals
leaves an operation anybody may execute. `rotate-to-squads-mainnet` adds its
allowlist entry unconditionally, so it fails after `rotate-treasury`.
`recoverReferrerFromHistory` takes the newest of the transactions of the
earliest slot.

## 6. Not modelled

* Player statistics: counters written at settlement which no handler reads but
  for the referrer. Their mirror, vault events and the history of unit values
  are written and read back as they are.
* The clean-up of accounts of the first rollup version
  (`admin_close_orphaned_game_v2`), which no instruction creates any more.
* Account plumbing: signers, seeds, owners, rents, dispatch, error codes. Which
  accounts an instruction is given is `SdkWire`'s.
* The limits and keys of `update_vault` and `update_v2_config` as state;
  `close_lp_position`; the destination allowlist of treasury withdrawals.
* Request limits and admin authentication of the API, routes that only read
  rows or build one transaction, the wallet's connection, and pages that
  present what they read.
* Initialisation, audit and devnet scripts, differential tests, the retired
  Anchor program and database project, vendored crates. What the Anchor program
  got wrong (F1-F6) appears among the mutants.
* The rollup, the delegation program and the oracle are third-party programs,
  modelled from how the code uses them.

## 7. Plan

1. Proofs: `VerdictIsRight`.
2. `Casino`: rounds and LPs on one vault; what a winner can lose to withdrawals
   made during the round, and that refused settlements recover.
3. The limits of `update_vault` and the v2 configuration as state.
4. A run of the multiplier ladder on the real board of 16 tiles against a
   reference definition.
