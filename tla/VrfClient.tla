------------------------------ MODULE VrfClient ------------------------------
(***************************************************************************)
(* The browser's side of a VRF round (apps/web/src/hooks/use-vrf-game.ts   *)
(* and apps/web/src/lib/vrf/client.ts), for one player.                    *)
(*                                                                         *)
(* A round is opened by one transaction that also moves gas to a new       *)
(* session key.  The key exists only in this browser: in localStorage, in  *)
(* a slot for the live round and on a list of keys whose gas still has to  *)
(* be swept back.  All tabs share the storage, every tab acts on its own,  *)
(* and tabs are reloaded at any moment.  Meanwhile the oracle answers, the *)
(* house closes idle rounds and its cron settles and refunds them.  A tab  *)
(* runs without interruption between two awaits.                           *)
(*                                                                         *)
(* The chain is abstracted to what the client can tell apart; VrfRound has *)
(* its detail.                                                             *)
(***************************************************************************)
EXTENDS Integers, FiniteSets

CONSTANTS
    Tabs,            \* tabs of the browser
    MaxKeys,         \* bound: session keys made
    SafeTiles,       \* safe tiles of a board
    MaxFaults        \* bound: failed or declined calls

NoKey == 0
Keys == 1..MaxKeys

VARIABLES
    chain,           \* the player's claim and game
    starts,          \* start transactions that may still land, by their session key
    gas,             \* lamports of each session key: "none", "funded", "swept"
    key_slot,        \* localStorage kaboom:vrf-session
    sweepList,       \* localStorage kaboom:vrf-sweep
    sweeping,        \* keys whose sweep is running
    tab,             \* what each tab shows and does
    made,            \* session keys made so far
    faults,          \* failures so far
    early            \* history: keys swept while their start could still land

clientVars == <<chain, starts, gas, key_slot, sweepList, sweeping, tab, made, faults, early>>
keyStore == <<key_slot, sweepList, sweeping>>

no_round == [claim |-> FALSE, key |-> NoKey, at |-> "none", status |-> "Playing", safe |-> 0, pending |-> FALSE]

new_page == [at |-> "mount", status |-> "idle", key |-> NoKey, probe |-> "none", banner |-> FALSE]

ClientInit ==
    /\ chain = no_round
    /\ starts = {} /\ gas = [k \in Keys |-> "none"]
    /\ key_slot = NoKey /\ sweepList = {} /\ sweeping = {}
    /\ tab = [t \in Tabs |-> new_page]
    /\ made = 0 /\ faults = 0 /\ early = {}

-----------------------------------------------------------------------------
(* The chains, the oracle and the house *)

on_chain(c) ==
    /\ chain' = c
    /\ UNCHANGED <<key_slot, sweepList, sweeping, tab, made, faults, early>>

\* The start is atomic: claim, game on the rollup and gas, or nothing.
start_lands(k) ==
    /\ k \in starts /\ ~chain.claim /\ chain.at # "ER"
    /\ on_chain([no_round EXCEPT !.claim = TRUE, !.key = k, !.at = "ER"])
    /\ gas' = [gas EXCEPT ![k] = "funded"]
    /\ starts' = starts \ {k}

start_expires(k) ==
    /\ k \in starts
    /\ starts' = starts \ {k}
    /\ UNCHANGED <<chain, gas, key_slot, sweepList, sweeping, tab, made, faults, early>>

drawn(safe) == IF safe = SafeTiles THEN "Won" ELSE "Playing"

oracle_answers ==
    /\ chain.at = "ER" /\ chain.pending
    /\ \/ on_chain([chain EXCEPT !.pending = FALSE, !.status = "Lost"])
       \/ on_chain([chain EXCEPT !.pending = FALSE, !.safe = @ + 1, !.status = drawn(chain.safe + 1)])
    /\ UNCHANGED <<gas, starts>>

closed(c) == IF c.status # "Playing" THEN c.status ELSE IF c.safe > 0 THEN "Won" ELSE "Void"
undelegable(c) == c.at = "ER" /\ ~(c.status = "Playing" /\ c.pending)
undelegated(c) == [c EXCEPT !.status = closed(c), !.at = "returning"]

house_forces ==
    /\ undelegable(chain)
    /\ on_chain(undelegated(chain)) /\ UNCHANGED <<gas, starts>>

game_returns ==
    /\ chain.at = "returning"
    /\ on_chain([chain EXCEPT !.at = "L1"]) /\ UNCHANGED <<gas, starts>>

settleable(c) == c.claim /\ c.at = "L1" /\ c.status \in {"Won", "Lost"}
refundable_round(c) == c.claim /\ c.at = "L1" /\ (c.status = "Void" \/ (c.status = "Playing" /\ c.safe = 0))

cron_closes ==
    /\ settleable(chain) \/ refundable_round(chain)
    /\ on_chain(no_round) /\ UNCHANGED <<gas, starts>>

House == house_forces \/ cron_closes

-----------------------------------------------------------------------------
(* The session keys *)

fault == faults < MaxFaults /\ faults' = faults + 1

add_all(ks) == sweepList' = sweepList \cup ks

\* retireSession: on the sweep list first, out of the slot, then swept.
retire(k) ==
    /\ add_all({k})
    /\ key_slot' = IF key_slot = k THEN NoKey ELSE key_slot
    /\ sweeping' = sweeping \cup sweepList \cup {k}

retire_or_sweep(k) == IF k # NoKey THEN retire(k)
                      ELSE sweeping' = sweeping \cup sweepList /\ UNCHANGED <<key_slot, sweepList>>

\* Mutant: the key in the slot is overwritten.
parked_none(k) == {}

\* parkReplacedSession.
parked(k) == {key_slot} \ {NoKey, k}

\* rememberSession with a new key.
remember(k) == add_all(parked(k)) /\ key_slot' = k /\ UNCHANGED sweeping

kept_after_failure(k) == {k}

\* sweepSession and what sweepPendingSessions does with its answer: a key is
\* forgotten once it is empty.  An empty key is forgotten unswept.
sweep_ends(k) ==
    /\ k \in sweeping /\ sweeping' = sweeping \ {k}
    /\ \/ /\ gas' = [gas EXCEPT ![k] = IF @ = "funded" THEN "swept" ELSE @]
          /\ sweepList' = sweepList \ {k}
          /\ early' = IF k \in starts THEN early \cup {k} ELSE early
          /\ UNCHANGED faults
       \/ /\ gas[k] = "funded" /\ fault
          /\ sweepList' = (sweepList \ {k}) \cup kept_after_failure(k)
          /\ UNCHANGED <<gas, early>>
    /\ UNCHANGED <<chain, starts, key_slot, tab, made>>

-----------------------------------------------------------------------------
(* startGame and startVrfGame *)

shows(t, at, status) == tab' = [tab EXCEPT ![t].at = at, ![t].status = status]

\* Nothing happens but in the tab.
only_tab == UNCHANGED <<chain, starts, gas, key_slot, sweepList, sweeping, made, early>>

\* The preflight: an open claim is an error, no claim makes the slot's key a
\* finished round's, and a failed read decides nothing.
press_engage(t) ==
    /\ tab[t].at = "ready" /\ tab[t].status \in {"idle", "won", "lost"}
    /\ made < MaxKeys
    /\ \/ /\ chain.claim /\ shows(t, "ready", "idle")
          /\ UNCHANGED <<keyStore, faults>>
       \/ /\ ~chain.claim /\ shows(t, "start", "starting")
          /\ retire_or_sweep(key_slot) /\ UNCHANGED faults
       \/ /\ fault /\ shows(t, "start", "starting")
          /\ retire_or_sweep(NoKey)
    /\ UNCHANGED <<chain, starts, gas, made, early>>

\* The key is stored before anything is sent; the wallet may decline.
send_start(t) ==
    LET k == made + 1
    IN  /\ tab[t].at = "start" /\ made < MaxKeys
        /\ made' = k
        /\ remember(k)
        /\ \/ starts' = starts \cup {k} /\ UNCHANGED faults
           \/ fault /\ UNCHANGED starts
        /\ tab' = [tab EXCEPT ![t].at = "confirm", ![t].key = k]
        /\ UNCHANGED <<chain, gas, early>>

\* The confirmation, or after a timeout or an error one look at the chain: a game
\* on the rollup with a claim is this start's.
start_returns(t) ==
    /\ tab[t].at = "confirm"
    /\ \/ /\ chain.claim /\ chain.at = "ER" /\ UNCHANGED faults
          /\ shows(t, "ready", "playing")
       \/ /\ ~(chain.claim /\ chain.at = "ER") /\ UNCHANGED faults
          /\ shows(t, "ready", "idle")
       \/ fault /\ shows(t, "ready", "idle")
    /\ only_tab

-----------------------------------------------------------------------------
(* revealTile and cashOut *)

accepts(k) == chain.at = "ER" /\ chain.status = "Playing" /\ ~chain.pending /\ chain.key = k

\* Where a failed reveal or cash-out leaves the board: a round that is no longer
\* being played is closed out by the recovery.
after_refusal(t) ==
    IF chain.status # "Playing" \/ ~chain.claim
    THEN tab' = [tab EXCEPT ![t].at = "recover", ![t].status = "playing", ![t].key = key_slot]
    ELSE shows(t, "ready", "playing")

board_signs(t) == tab[t].at = "ready" /\ tab[t].status = "playing" /\ key_slot # NoKey

reveal(t) ==
    /\ board_signs(t)
    /\ \/ /\ accepts(key_slot)
          /\ chain' = [chain EXCEPT !.pending = TRUE]
          /\ tab' = [tab EXCEPT ![t].at = "draw", ![t].status = "revealing", ![t].key = key_slot]
       \/ /\ ~accepts(key_slot)
          /\ after_refusal(t) /\ UNCHANGED chain
    /\ UNCHANGED <<starts, gas, keyStore, made, faults, early>>

\* The poll ends: on the answer, or without one.
draw_polled(t) ==
    /\ tab[t].at = "draw"
    /\ CASE chain.key # tab[t].key \/ chain.pending \/ chain.at = "none" -> shows(t, "ready", "playing")
         [] chain.status = "Lost" -> shows(t, "undelegate", "lost")
         [] chain.status = "Won"  -> shows(t, "undelegate", "won")
         [] OTHER -> shows(t, "ready", "playing")
    /\ only_tab /\ UNCHANGED faults

cash_out(t) ==
    /\ board_signs(t)
    /\ \/ /\ accepts(key_slot) /\ chain.safe > 0
          /\ chain' = [chain EXCEPT !.status = "Won"]
          /\ tab' = [tab EXCEPT ![t].at = "undelegate", ![t].status = "cashing", ![t].key = key_slot]
       \/ /\ ~accepts(key_slot)
          /\ after_refusal(t) /\ UNCHANGED chain
    /\ UNCHANGED <<starts, gas, keyStore, made, faults, early>>

\* settleFlow: undelegate.  A failure leaves the result that is shown; a round whose
\* claim is gone is closed out by the recovery.
flow_undelegates(t) ==
    /\ tab[t].at = "undelegate"
    /\ \/ /\ undelegable(chain) /\ chain.key = tab[t].key
          /\ chain' = undelegated(chain)
          /\ tab' = [tab EXCEPT ![t].at = "settle"]
          /\ UNCHANGED faults
       \/ /\ \/ ~(undelegable(chain) /\ chain.key = tab[t].key) /\ UNCHANGED faults
             \/ fault
          /\ shows(t, IF chain.claim THEN "ready" ELSE "recover",
                   IF tab[t].status = "cashing" THEN "playing" ELSE tab[t].status)
          /\ UNCHANGED chain
    /\ UNCHANGED <<starts, gas, keyStore, made, early>>

\* Then wait, ask the house to settle, and retire the key whatever it said.
flow_settles(t) ==
    /\ tab[t].at = "settle"
    /\ \/ /\ settleable(chain) /\ chain.key = tab[t].key
          /\ chain' = no_round
          /\ shows(t, "ready", IF chain.status = "Won" THEN "won" ELSE tab[t].status)
       \/ /\ UNCHANGED chain
          /\ shows(t, "ready", tab[t].status)
    /\ retire(tab[t].key)
    /\ UNCHANGED <<starts, gas, made, faults, early>>

-----------------------------------------------------------------------------
(* cleanupStuck *)

\* The recovery banner is hidden over a board that is played.
press_recover(t) ==
    /\ tab[t].at = "ready" /\ tab[t].banner /\ tab[t].status \in {"idle", "won", "lost"}
    /\ tab' = [tab EXCEPT ![t].at = "recover", ![t].key = key_slot]
    /\ only_tab /\ UNCHANGED faults

\* No claim: the round is resolved.  A failed read counts as an open claim.
recover_begins(t) ==
    /\ tab[t].at = "recover"
    /\ IF chain.claim
       THEN /\ shows(t, IF chain.at \in {"ER", "returning"} THEN "recover_er" ELSE "recover_l1", tab[t].status)
            /\ UNCHANGED keyStore
       ELSE /\ shows(t, "ready", "idle")
            /\ retire_or_sweep(tab[t].key)
    /\ UNCHANGED <<chain, starts, gas, made, faults, early>>

\* Mutant: the stored key signs, whichever game it belongs to.
stored_or_wallet_stored(k) == k = NoKey \/ chain.key = k

\* The stored key signs if it is this game's, else the player's wallet.
stored_or_wallet(k) == TRUE

\* On the rollup: lock in what was earned before anything irreversible, and leave a
\* round that is still drawing where it is.
recover_cashes_out(t) ==
    /\ tab[t].at = "recover_er"
    /\ \/ /\ chain.at = "ER" /\ chain.status = "Playing" /\ chain.pending
          /\ shows(t, "ready", tab[t].status) /\ UNCHANGED <<chain, faults>>
       \/ /\ chain.at = "ER" /\ chain.status = "Playing" /\ ~chain.pending /\ chain.safe > 0
          /\ \/ /\ stored_or_wallet(tab[t].key)
                /\ chain' = [chain EXCEPT !.status = "Won"]
                /\ shows(t, "recover_und", tab[t].status) /\ UNCHANGED faults
             \/ /\ ~stored_or_wallet(tab[t].key) /\ UNCHANGED faults
                /\ shows(t, "ready", tab[t].status) /\ UNCHANGED chain
             \/ fault /\ shows(t, "ready", tab[t].status) /\ UNCHANGED chain
       \/ /\ ~(chain.at = "ER" /\ chain.status = "Playing" /\ (chain.pending \/ chain.safe > 0))
          /\ shows(t, "recover_und", tab[t].status) /\ UNCHANGED <<chain, faults>>
    /\ UNCHANGED <<starts, gas, keyStore, made, early>>

\* A refused undelegation may have been the house's; the wait below tells.
recover_undelegates(t) ==
    /\ tab[t].at = "recover_und"
    /\ \/ /\ undelegable(chain) /\ stored_or_wallet(tab[t].key)
          /\ chain' = undelegated(chain) /\ UNCHANGED faults
       \/ ~(undelegable(chain) /\ stored_or_wallet(tab[t].key)) /\ UNCHANGED <<chain, faults>>
       \/ fault /\ UNCHANGED chain
    /\ shows(t, "recover_wait", tab[t].status)
    /\ UNCHANGED <<starts, gas, keyStore, made, early>>

\* Back on L1, or the wait is over and neither route will close the round.
recover_waits(t) ==
    /\ tab[t].at = "recover_wait"
    /\ shows(t, IF chain.at \in {"L1", "none"} THEN "recover_l1" ELSE "ready", tab[t].status)
    /\ only_tab /\ UNCHANGED faults

\* "STATUS decides, not ownership."
refund_only(c) == c.status = "Void" \/ (c.status = "Playing" /\ c.safe = 0)

closable(c) == (~refund_only(c) /\ settleable(c)) \/ refundable_round(c)

recover_closes(t) ==
    /\ tab[t].at = "recover_l1"
    /\ \/ /\ closable(chain)
          /\ chain' = no_round
          /\ retire_or_sweep(tab[t].key)
          /\ shows(t, "ready", "idle") /\ UNCHANGED faults
       \/ /\ \/ ~closable(chain) /\ UNCHANGED faults
             \/ fault
          /\ shows(t, "ready", tab[t].status) /\ UNCHANGED <<chain, keyStore>>
    /\ UNCHANGED <<starts, gas, made, early>>

-----------------------------------------------------------------------------
(* The page *)

\* Closed or reloaded: what the tab knew is gone, and sweeps may stop.
reload(t) ==
    /\ tab[t].at # "mount"
    /\ tab' = [tab EXCEPT ![t] = new_page]
    /\ UNCHANGED <<chain, starts, gas, key_slot, sweepList, made, faults, early>>
    /\ sweeping' \in {sweeping, {}}

\* The key is read before the claim.
mount_reads_key(t) ==
    /\ tab[t].at = "mount"
    /\ tab' = [tab EXCEPT ![t].at = "mounting", ![t].key = key_slot]
    /\ sweeping' = sweeping \cup sweepList
    /\ UNCHANGED <<chain, starts, gas, key_slot, sweepList, made, faults, early>>

resumable(k) == accepts(k)

\* A claim: resume the round if it can be played with the stored key, else recover
\* it.  No claim: the key is a finished round's.  A failed read, and an effect that
\* is cancelled because the store has changed, decide nothing.
mount_reads_claim(t) ==
    /\ tab[t].at = "mounting"
    /\ \/ /\ chain.claim /\ resumable(key_slot)
          /\ shows(t, "ready", "playing") /\ UNCHANGED <<keyStore, faults>>
       \/ /\ chain.claim /\ ~resumable(key_slot)
          /\ tab' = [tab EXCEPT ![t].at = "recover", ![t].key = key_slot] /\ UNCHANGED <<keyStore, faults>>
       \/ /\ ~chain.claim
          /\ shows(t, "ready", "idle") /\ retire_or_sweep(tab[t].key) /\ UNCHANGED faults
       \/ shows(t, "ready", "idle") /\ UNCHANGED <<keyStore, faults>>
    /\ UNCHANGED <<chain, starts, gas, made, early>>

\* useGameResume asks the server whether a round is open: the server reads the
\* chain, and its answer comes later.
probe_reads(t) ==
    /\ tab[t].probe = "none"
    /\ tab' = [tab EXCEPT ![t].probe = IF chain.claim THEN "open" ELSE "closed"]
    /\ only_tab /\ UNCHANGED faults

\* "Closed" makes the board idle, whatever it shows by now.
probe_answers(t) ==
    /\ tab[t].probe # "none"
    /\ tab' = [tab EXCEPT ![t].probe = "none", ![t].banner = tab[t].probe = "open",
                          ![t].status = IF tab[t].probe = "closed" THEN "idle" ELSE @]
    /\ only_tab /\ UNCHANGED faults

Works(t) ==
    \/ send_start(t) \/ start_returns(t) \/ draw_polled(t)
    \/ flow_undelegates(t) \/ flow_settles(t)
    \/ recover_begins(t) \/ recover_cashes_out(t) \/ recover_undelegates(t)
    \/ recover_waits(t) \/ recover_closes(t) \/ mount_reads_key(t) \/ mount_reads_claim(t)

ClientNext ==
    \/ \E k \in Keys : start_lands(k) \/ start_expires(k) \/ sweep_ends(k)
    \/ oracle_answers \/ game_returns \/ House
    \/ \E t \in Tabs : press_engage(t) \/ reveal(t) \/ cash_out(t) \/ press_recover(t)
                       \/ reload(t) \/ probe_reads(t) \/ probe_answers(t) \/ Works(t)

ClientSpec == ClientInit /\ [][ClientNext]_clientVars

\* The board cannot be played with the key in the slot.
dead_board(t) ==
    \/ tab[t].status = "playing" /\ tab[t].at = "ready" /\ ~accepts(key_slot)
    \/ tab[t].status = "cashing" /\ tab[t].at = "ready"

\* A player who wants out, without any help from the house's cron: he plays on or
\* cashes out, in the end reloads only a board that does not answer, and presses
\* Recover.
WantsOut(t) ==
    /\ WF_clientVars(Works(t))
    /\ WF_clientVars(probe_reads(t)) /\ WF_clientVars(probe_answers(t))
    /\ SF_clientVars(press_recover(t))
    /\ WF_clientVars(reveal(t) \/ cash_out(t))
    /\ WF_clientVars(dead_board(t) /\ reload(t))

FairClientSpec ==
    /\ ClientSpec
    /\ WF_clientVars(oracle_answers) /\ WF_clientVars(game_returns)
    /\ WF_clientVars(\E k \in Keys : start_lands(k) \/ start_expires(k))
    /\ \A t \in Tabs : WantsOut(t) /\ <>[][reload(t) => dead_board(t)]_clientVars

-----------------------------------------------------------------------------
(* Properties *)

stored == {key_slot} \cup sweepList

\* No session key that holds gas is ever forgotten, whatever fails, whichever
\* tab is reloaded and however rounds overlap; except for a key that was swept,
\* found empty and dropped while its start could still land.
FundedKeyKept == \A k \in Keys \ early : gas[k] = "funded" => k \in stored

\* "Persisted BEFORE anything is sent, so a send that throws on a transaction
\* that actually landed cannot lose it": the round that is being played has its
\* key in this browser.
StartedKeyKept ==
    (chain.claim /\ chain.at = "ER" /\ gas[chain.key] = "funded") => chain.key \in stored

\* Every round can be brought to its end from the browser alone.
RecoverCloses == chain.claim ~> ~chain.claim

=============================================================================
