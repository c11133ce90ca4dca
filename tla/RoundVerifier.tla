---------------------------- MODULE RoundVerifier ----------------------------
(***************************************************************************)
(* The public verifier of VRF rounds (apps/web/src/server/verify-vrf.ts):  *)
(* from a closing transaction it walks back through the transactions that  *)
(* name the player's game account to the start of the round, replays the   *)
(* states the rollup committed on the way, and compares what was paid with *)
(* what the rules give.                                                    *)
(*                                                                         *)
(* One player plays round after round on the same two accounts, so the     *)
(* history holds the rounds before this one.  A transaction may be out of  *)
(* reach of the reader; a commit may keep its data elsewhere; the house    *)
(* edge is the vault's, at the start of a round and when a verdict is      *)
(* given.  The verifier trusts nobody: here a closing transaction may pay  *)
(* anything.                                                               *)
(***************************************************************************)
EXTENDS KaboomMath, FiniteSets, FiniteSetsExt, SequencesExt

CONSTANTS
    Bets, MineCounts, Edges,
    WrongPayments,      \* payments that no rule gives
    ROUND_HISTORY,      \* transactions the verifier looks back
    MaxTxs              \* bound: transactions that name the game account

VARIABLES
    claim,      \* the player's round: whether its claim is open, its bet, mines and edge
    place,      \* where the game is: "L1" or "ER"
    committed,  \* the game's copy on L1
    live,       \* the game where it is played
    history     \* transactions that name the game account, oldest first

verifierVars == <<claim, place, committed, live, history>>

no_claim == [open |-> FALSE, bet |-> 0, mines |-> 0, edge |-> 0]
fresh == [status |-> "playing", safe |-> 0, mult |-> BPS]

Init ==
    /\ claim = no_claim /\ place = "L1"
    /\ committed = fresh /\ live = fresh /\ history = <<>>

-----------------------------------------------------------------------------
(* The rounds *)

records(tx) == Len(history) < MaxTxs /\ history' = Append(history, tx)

start_tx(ok, bet, mines) == [kind |-> "start", ok |-> ok, bet |-> bet, mines |-> mines]

start_game_vrf ==
    \E bet \in Bets, mines \in MineCounts, edge \in Edges :
        /\ ~claim.open /\ place = "L1"
        /\ claim' = [open |-> TRUE, bet |-> bet, mines |-> mines, edge |-> edge]
        /\ committed' = fresh /\ live' = fresh
        /\ records(start_tx(TRUE, bet, mines))
        /\ UNCHANGED place

\* A start that fails, and anything else that names the account.
start_refused ==
    /\ \E bet \in Bets : records(start_tx(FALSE, bet, 1))
    /\ UNCHANGED <<claim, place, committed, live>>

delegate_vrf ==
    /\ place = "L1" /\ committed.status = "playing" /\ claim.open
    /\ place' = "ER" /\ UNCHANGED <<claim, committed, live, history>>

reveal_callback_vrf ==
    /\ place = "ER" /\ live.status = "playing"
    /\ \/ live' = [live EXCEPT !.status = "lost"]
       \/ /\ live.safe < GRID_SIZE - claim.mines
          /\ live' = [status |-> IF live.safe + 1 = GRID_SIZE - claim.mines THEN "won" ELSE "playing",
                      safe |-> live.safe + 1, mult |-> calc_multiplier(live.safe + 1, claim.mines, claim.edge)]
    /\ UNCHANGED <<claim, place, committed, history>>

cash_out_vrf ==
    /\ place = "ER" /\ live.status = "playing" /\ live.safe > 0
    /\ live' = [live EXCEPT !.status = "won"]
    /\ UNCHANGED <<claim, place, committed, history>>

\* What a commit transaction carries: the state, what differs from the copy on L1,
\* or the name of a buffer account.
carried(form, state) ==
    CASE form = "state" -> state
      [] form = "diff" -> [f \in {g \in DOMAIN state : state[g] # committed[g]} |-> state[f]]
      [] form = "buffer" -> <<>>

commits(state) ==
    /\ committed' = state /\ live' = state
    /\ \E form \in {"state", "diff", "buffer"} :
           records([kind |-> "commit", ok |-> TRUE, form |-> form, data |-> carried(form, state)])

\* The rollup commits now and then, and when the game leaves it.
commit_state == place = "ER" /\ live # committed /\ commits(live) /\ UNCHANGED <<claim, place>>

ended(state) ==
    IF state.status # "playing" THEN state
    ELSE [state EXCEPT !.status = IF state.safe > 0 THEN "won" ELSE "void"]

undelegate == place = "ER" /\ place' = "L1" /\ commits(ended(live)) /\ UNCHANGED claim

due(round, state, e) ==
    CASE state.status = "won" -> (round.bet * calc_multiplier(state.safe, round.mines, e)) \div BPS
      [] state.status = "lost" -> 0
      [] OTHER -> round.bet

\* settle_vrf of a decided game, refund_stalled_vrf of one that is not.
close_round ==
    \E paid \in {due(claim, committed, claim.edge)} \cup WrongPayments, alone \in BOOLEAN :
        /\ claim.open /\ place = "L1"
        /\ claim' = [claim EXCEPT !.open = FALSE]
        /\ records([kind |-> "close", ok |-> TRUE, refund |-> committed.status \in {"playing", "void"},
                    alone |-> alone, paid |-> paid, round |-> claim, state |-> committed])
        /\ UNCHANGED <<place, committed, live>>

\* It does not name the game account.
admin_release_vrf_claim ==
    /\ claim.open /\ claim' = [claim EXCEPT !.open = FALSE]
    /\ UNCHANGED <<place, committed, live, history>>

Next ==
    \/ start_game_vrf \/ start_refused \/ delegate_vrf \/ reveal_callback_vrf \/ cash_out_vrf
    \/ commit_state \/ undelegate \/ close_round \/ admin_release_vrf_claim

Spec == Init /\ [][Next]_verifierVars

-----------------------------------------------------------------------------
(* The verifier: the verdict on the k-th transaction, with the vault's edge *)
(* of that moment, when the transactions of `unread' cannot be read         *)

\* NoState when a commit is not in its transaction.
NoState == [status |-> "unknown", safe |-> 0, mult |-> 0]

\* Oldest first, as they were applied.
replayCommits(cs) ==
    IF \E i \in DOMAIN cs : cs[i].form = "buffer" THEN NoState
    ELSE FoldLeft(LAMBDA s, c : c.data @@ s, fresh, cs)

\* Mutant: a start that failed is a start.
readable_or_failed(k, unread) == {j \in (k - ROUND_HISTORY)..(k - 1) : j >= 1 /\ j \notin unread}

\* The transactions of the window that could be read and succeeded.
readable(k, unread) ==
    {j \in (k - ROUND_HISTORY)..(k - 1) : j >= 1 /\ j \notin unread /\ history[j].ok}

starts(k, unread) == {j \in readable(k, unread) : history[j].kind = "start"}

commits_after(j, k, unread) ==
    LET is == SetToSortSeq({i \in readable(k, unread) : i > j /\ history[i].kind = "commit"}, <)
    IN  [i \in DOMAIN is |-> history[is[i]]]

\* One that could not be read may be a commit.
gap(j, k, unread) == \E i \in (j + 1)..(k - 1) : i \in unread /\ history[i].ok

vrfRound(k, unread) ==
    LET j == Max(starts(k, unread))
    IN  [bet |-> history[j].bet, mines |-> history[j].mines,
         state |-> IF gap(j, k, unread) THEN NoState
                   ELSE replayCommits(commits_after(j, k, unread))]

unverified == [verified |-> FALSE, outcome |-> "unknown", bet |-> 0, mines |-> 0]

payout(bet, reveals, mines, edge) == (bet * calc_multiplier(reveals, mines, edge)) \div BPS

\* Without the state, any number of safe reveals that gives the payment will do.
reveals_of(r, paid, edge) ==
    IF r.state # NoState THEN {r.state.safe}
    ELSE {n \in 1..(GRID_SIZE - r.mines) : payout(r.bet, n, r.mines, edge) = paid}

judged(r, paid, edge) ==
    LET won == paid > 0
    IN  /\ r.state = NoState \/ r.state.status = (IF won THEN "won" ELSE "lost")
        /\ won => \E n \in reveals_of(r, paid, edge) :
                      /\ payout(r.bet, n, r.mines, edge) = paid
                      /\ r.state = NoState \/ r.state.mult = calc_multiplier(n, r.mines, edge)

\* A closing instruction and nothing else, so that the lamports moved are its own.
settleVrfAccounts(tx) == tx.kind = "close" /\ tx.alone

verifyVrfSettle(k, unread, edge) ==
    LET tx == history[k]
        r  == vrfRound(k, unread)
    IN  IF ~settleVrfAccounts(tx) \/ starts(k, unread) = {} THEN unverified
        ELSE [verified |-> IF tx.refund THEN tx.paid = r.bet ELSE judged(r, tx.paid, edge),
              outcome |-> CASE tx.refund -> "expired"
                            [] ~judged(r, tx.paid, edge) -> "unknown"
                            [] OTHER -> IF tx.paid > 0 THEN "won" ELSE "lost",
              bet |-> r.bet, mines |-> r.mines]

\* GET /api/verify has a row for what is verified only.
shown(k, unread, edge) ==
    LET v == verifyVrfSettle(k, unread, edge) IN IF v.verified THEN v ELSE unverified

-----------------------------------------------------------------------------
(* Properties *)

closings == {k \in DOMAIN history : history[k].kind = "close"}

\* The start of the round that the k-th transaction closed.
start_of(k) == Max({j \in 1..(k - 1) : history[j].kind = "start" /\ history[j].ok})

\* A transaction of the round that cannot be read, or keeps its data elsewhere.
incomplete(k, unread) ==
    \E j \in start_of(k)..(k - 1) : j \in unread \/ (history[j].kind = "commit" /\ history[j].form = "buffer")

outcome_of(tx) == IF tx.refund THEN "expired" ELSE tx.state.status

\* "The money matched the rules": what is called verified names the bet and mines
\* of the round it closed, and paid what the committed game earned; if part of the
\* round is out of reach, at least what some game of these mines could earn.
VerifiedIsDue ==
    \A k \in closings : \A unread \in SUBSET (1..(k - 1)), edge \in Edges :
        LET tx == history[k]
            v  == shown(k, unread, edge)
        IN  (start_of(k) \notin unread /\ v.verified) =>
                /\ tx.alone /\ v.bet = tx.round.bet /\ v.mines = tx.round.mines
                /\ ~incomplete(k, unread) => tx.paid = due(tx.round, tx.state, edge) /\ v.outcome = outcome_of(tx)

\* An honest settlement or refund is verified while the edge is the round's and its
\* start can be read, whatever else cannot.
HonestIsVerified ==
    \A k \in closings : \A unread \in SUBSET (1..(k - 1)), edge \in Edges :
        LET tx == history[k]
        IN  (/\ tx.alone /\ tx.round.edge = edge
             /\ tx.paid = due(tx.round, tx.state, edge)
             /\ start_of(k) \notin unread /\ start_of(k) >= k - ROUND_HISTORY) =>
                LET v == shown(k, unread, edge)
                IN  v.verified /\ v.outcome = outcome_of(tx)

\* Both ways: the verdict a page shows is the right one.
VerdictIsRight == VerifiedIsDue /\ HonestIsVerified

\* verify-vrf.ts, "the replay is then unknown, but the start's bet and mine count
\* still stand": also when it is the start that cannot be read.
StartStillStands ==
    \A k \in closings : \A unread \in SUBSET (1..(k - 1)), edge \in Edges :
        LET v == shown(k, unread, edge)
        IN  v.verified => v.bet = history[k].round.bet /\ v.mines = history[k].round.mines

=============================================================================
