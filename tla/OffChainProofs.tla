--------------------------- MODULE OffChainProofs ---------------------------
(***************************************************************************)
(* Theorems about the machines off the chain, for every value of their     *)
(* constants: the cron tick and its lock (CronTick), the indexer pass      *)
(* (IndexerPass), the crank over VRF rounds (VrfCrank), the browser's      *)
(* session keys (VrfClient), the owner's scripts (OwnerOps), the hourly    *)
(* points of LPs (LpPoints), the mirror of settled games (GameMirror) and  *)
(* the pass that completes matured withdrawals (LpPass).                   *)
(***************************************************************************)
EXTENDS VrfCrank, VrfRoundProofs, CronTick, IndexerPass, VrfClient, OwnerOps, LpPoints, GameMirror, LpPass,
        FiniteSetTheorems

-----------------------------------------------------------------------------
(* CronTick *)

\* What a tick is, whatever the passes are.
TickState == [at : {"idle", "locking", "next", "running", "sending"}, now : Nat, pass : Nat,
              alive : BOOLEAN, lost : BOOLEAN, sends : Nat, tries : Nat, stale : Nat]

\* A tick whose session is alive has sent nothing without the lock, and one that
\* is about to send has asked for the lock since its last send.
Asked(k) ==
    /\ k.stale <= 1
    /\ k.alive \/ k.at = "sending" => k.stale = 0

CronInv == /\ clock \in Nat
           /\ ticks \in [Ticks -> TickState]
           /\ \A t \in Ticks : Asked(ticks[t])

LEMMA CronInitInv == CronInit => CronInv
BY DEF CronInit, absent, CronInv, TickState, Asked

\* A step of one tick that keeps what it must know keeps the invariant.
LEMMA CronLocal ==
    ASSUME CronInv, NEW t \in Ticks, NEW k \in TickState, Asked(k),
           ticks' = [ticks EXCEPT ![t] = k], clock' = clock
    PROVE  CronInv'
BY DEF CronInv

LEMMA CronNextInv == CronInv /\ [CronNext]_cronVars => CronInv'
<1> SUFFICES ASSUME CronInv, [CronNext]_cronVars PROVE CronInv' OBVIOUS
<1> USE DEF cronVars
<1>1. CASE UNCHANGED cronVars BY <1>1 DEF CronInv
<1>2. CASE minute_passes BY <1>2 DEF minute_passes, CronInv
<1>3. ASSUME NEW t \in Ticks, arrive(t) PROVE CronInv'
  <2> DEFINE k == [absent EXCEPT !.at = "locking", !.now = clock, !.alive = TRUE]
  <2>1. clock \in Nat BY DEF CronInv
  <2>2. k \in TickState BY <2>1 DEF absent, TickState
  <2>3. k.stale = 0 BY DEF absent
  <2>4. Asked(k) BY <2>3 DEF Asked
  <2>5. ticks' = [ticks EXCEPT ![t] = k] BY <1>3 DEF arrive
  <2> QED BY <1>3, <2>2, <2>4, <2>5, CronLocal DEF arrive
<1>4. ASSUME NEW t \in Ticks, session_ends(t) PROVE CronInv'
  <2>1. PICK noticed \in BOOLEAN : ticks' = [ticks EXCEPT ![t].alive = FALSE, ![t].lost = noticed]
    BY <1>4 DEF session_ends
  <2> DEFINE k == [ticks[t] EXCEPT !.alive = FALSE, !.lost = noticed]
  <2>2. k \in TickState /\ Asked(k) BY DEF CronInv, TickState, Asked
  <2>3. ticks' = [ticks EXCEPT ![t] = k] BY <2>1 DEF CronInv
  <2> QED BY <1>4, <2>2, <2>3, CronLocal DEF session_ends
<1>5. ASSUME NEW t \in Ticks, try_lock(t) PROVE CronInv'
  <2>1. CASE ticks' = [ticks EXCEPT ![t].at = "next", ![t].pass = 1]
    BY <1>5, <2>1 DEF try_lock, CronInv, TickState, Asked
  <2>2. CASE ticks' = [ticks EXCEPT ![t] = absent]
    BY <1>5, <2>2 DEF try_lock, absent, CronInv, TickState, Asked
  <2> QED BY <1>5, <2>1, <2>2 DEF try_lock
<1>6. ASSUME NEW t \in Ticks, advisory_unlock(t) PROVE CronInv'
  BY <1>6 DEF advisory_unlock, absent, CronInv, TickState, Asked
<1>7. ASSUME NEW t \in Ticks, begin_pass(t) PROVE CronInv'
  <2>1. CASE ticks' = [ticks EXCEPT ![t].at = "running"]
    BY <1>7, <2>1 DEF begin_pass, CronInv, TickState, Asked
  <2>2. CASE to_next(t)
    BY <1>7, <2>2 DEF begin_pass, to_next, CronInv, TickState, Asked
  <2>3. CASE ticks' = [ticks EXCEPT ![t].lost = TRUE, ![t].pass = @ + 1]
    BY <1>7, <2>3 DEF begin_pass, CronInv, TickState, Asked
  <2> QED BY <1>7, <2>1, <2>2, <2>3 DEF begin_pass
<1>8. ASSUME NEW t \in Ticks, pass_succeeds(t) \/ pass_fails(t) PROVE CronInv'
  BY <1>8 DEF pass_succeeds, pass_fails, to_next, CronInv, TickState, Asked
<1>9. ASSUME NEW t \in Ticks, begin_send(t) PROVE CronInv'
  <2> DEFINE lost == ticks[t].lost \/ ~ticks[t].alive
             asks == IF ~ticks[t].lost /\ ticks[t].alive THEN "sending" ELSE ticks[t].at
             k == [ticks[t] EXCEPT !.sends = @ + 1, !.at = asks, !.lost = lost, !.tries = 0]
  <2>1. ticks' = [ticks EXCEPT ![t] = k]
    BY <1>9 DEF begin_send, may_send, assertTickLockHeld, CronInv
  <2>2. ticks[t] \in TickState /\ Asked(ticks[t]) BY DEF CronInv
  <2>3. asks = "sending" => ticks[t].stale = 0 BY <1>9, <2>2 DEF begin_send, Asked
  <2>4. lost \in BOOLEAN /\ asks \in {"sending", ticks[t].at} OBVIOUS
  <2> HIDE DEF lost, asks
  <2>5. k \in TickState
    <3>1. asks \in {"idle", "locking", "next", "running", "sending"} BY <2>2, <2>4 DEF TickState
    <3>2. ticks[t].sends + 1 \in Nat BY <2>2 DEF TickState
    <3> QED BY <2>2, <2>4, <3>1, <3>2 DEF TickState
  <2>6. k.at = asks /\ k.stale = ticks[t].stale /\ k.alive = ticks[t].alive BY <2>2 DEF TickState
  <2>7. Asked(k) BY <2>2, <2>3, <2>6 DEF Asked
  <2> QED BY <1>9, <2>1, <2>5, <2>7, CronLocal DEF begin_send
<1>10. ASSUME NEW t \in Ticks, submit(t) PROVE CronInv'
  <2> DEFINE stale == IF ticks[t].alive THEN ticks[t].stale ELSE ticks[t].stale + 1
             k == [ticks[t] EXCEPT !.at = "running", !.stale = stale]
  <2>1. ticks' = [ticks EXCEPT ![t] = k] BY <1>10 DEF submit, CronInv
  <2>2. ticks[t] \in TickState /\ Asked(ticks[t]) BY DEF CronInv
  <2>3. stale \in Nat /\ stale <= 1 /\ (ticks[t].alive => stale = 0)
    BY <1>10, <2>2 DEF submit, TickState, Asked
  <2> HIDE DEF stale
  <2>4. k \in TickState BY <2>2, <2>3 DEF TickState
  <2>5. k.at = "running" /\ k.stale = stale /\ k.alive = ticks[t].alive BY <2>2 DEF TickState
  <2>6. Asked(k) BY <2>3, <2>5 DEF Asked
  <2> QED BY <1>10, <2>1, <2>4, <2>6, CronLocal DEF submit
<1>11. ASSUME NEW t \in Ticks, preflight_fails(t) PROVE CronInv'
  BY <1>11 DEF preflight_fails, CronInv, TickState, Asked
<1> QED BY <1>1, <1>2, <1>3, <1>4, <1>5, <1>6, <1>7, <1>8, <1>9, <1>10, <1>11
        DEF CronNext, Work

\* However many ticks overlap and whenever their sessions end, a tick that lost
\* its lock sends at most the one transaction it had asked the lock for before
\* (tick.ts, assertTickLockHeld; solana.ts, sendHouseTx), with any number of
\* attempts, passes and sends.
THEOREM OneStaleSendEver == CronSpec => []OneStaleSend
<1>1. CronInv => OneStaleSend BY DEF CronInv, Asked, OneStaleSend
<1> QED BY <1>1, CronInitInv, CronNextInv, PTL DEF CronSpec

-----------------------------------------------------------------------------
\* The lock belongs to the session of a tick that is alive and past it.
LockKept == \A t \in Ticks : holds(t) /\ ticks[t].alive => holder = t

LEMMA LockInit == CronInit => LockKept
BY DEF CronInit, absent, LockKept, holds

LEMMA LockNext ==
    CronInv /\ LockKept /\ [CronNext]_cronVars => LockKept'
<1> SUFFICES ASSUME CronInv, LockKept, [CronNext]_cronVars PROVE LockKept' OBVIOUS
<1> USE CronAssumption
<1> USE DEF cronVars, CronInv, TickState, LockKept, holds
<1>1. CASE UNCHANGED cronVars BY <1>1
<1>2. CASE minute_passes BY <1>2 DEF minute_passes
<1>3. ASSUME NEW t \in Ticks, arrive(t) PROVE LockKept'
  BY <1>3 DEF arrive, absent
<1>4. ASSUME NEW t \in Ticks, session_ends(t) PROVE LockKept'
  BY <1>4 DEF session_ends
<1>5. ASSUME NEW t \in Ticks, try_lock(t) PROVE LockKept'
  BY <1>5 DEF try_lock, absent, may_take_lock
<1>6. ASSUME NEW t \in Ticks, advisory_unlock(t) PROVE LockKept'
  BY <1>6 DEF advisory_unlock, absent
<1>7. ASSUME NEW t \in Ticks, begin_pass(t) PROVE LockKept'
  <2>1. CASE ticks' = [ticks EXCEPT ![t].at = "running"] BY <1>7, <2>1 DEF begin_pass
  <2>2. CASE to_next(t) BY <1>7, <2>2 DEF begin_pass, to_next
  <2>3. CASE ticks' = [ticks EXCEPT ![t].lost = TRUE, ![t].pass = @ + 1] BY <1>7, <2>3 DEF begin_pass
  <2> QED BY <1>7, <2>1, <2>2, <2>3 DEF begin_pass
<1>8. ASSUME NEW t \in Ticks, pass_succeeds(t) \/ pass_fails(t) PROVE LockKept'
  BY <1>8 DEF pass_succeeds, pass_fails, to_next
<1>9. ASSUME NEW t \in Ticks, begin_send(t) PROVE LockKept'
  BY <1>9 DEF begin_send, may_send, assertTickLockHeld
<1>10. ASSUME NEW t \in Ticks, submit(t) \/ preflight_fails(t) PROVE LockKept'
  BY <1>10 DEF submit, preflight_fails
<1> QED BY <1>1, <1>2, <1>3, <1>4, <1>5, <1>6, <1>7, <1>8, <1>9, <1>10
        DEF CronNext, Work

\* Two ticks whose sessions are alive are never past the lock at the same time
\* (tick.ts, withAdvisoryLock), though a session may end at any moment and the
\* next tick take the lock at once.
THEOREM LiveTicksExclude == CronSpec => []TicksExclude
<1>1. LockKept => TicksExclude BY DEF LockKept, TicksExclude
<1>2. CronInv /\ LockKept /\ [CronNext]_cronVars => LockKept' BY LockNext
<1> QED BY <1>1, <1>2, CronInitInv, CronNextInv, LockInit, PTL DEF CronSpec

-----------------------------------------------------------------------------
(* IndexerPass *)

\* What the theorem asks of the constants: the sizes of indexer-pass.ts, and no
\* burst larger than a run.
IndexerBounds ==
    /\ {MAX_SIGNATURES_PER_RUN, SAFETY_WINDOW_SIGNATURES, PAGE_SIZE, MaxBurst, MaxTx, MaxRunFaults} \subseteq Nat
    /\ PAGE_SIZE > 0
    /\ MaxBurst <= MAX_SIGNATURES_PER_RUN
    /\ PAGE_SIZE <= SAFETY_WINDOW_SIGNATURES + 1
    /\ PAGE_SIZE + SAFETY_WINDOW_SIGNATURES <= MAX_SIGNATURES_PER_RUN + 1

ahead == horizon

Overdue == (1..landed) \ (processed \cup missed \cup listed)

\* The running pass has listed up to where it will leave the cursor.
ListedUpTo == /\ cursor <= ahead /\ ahead \in 0..landed
              /\ listed # {} => ahead \in listed
              /\ \A s \in listed : s <= ahead

\* What no pass has listed is ahead of the cursor and within a burst of the head.
OverdueIsAhead == \A s \in Overdue : s > ahead /\ s > landed - MaxBurst

\* While at most one thing failed and passes were narrow: what failed is within
\* a window of the cursor, and in what the running pass has listed.
WithinWindow ==
    /\ missed # {} => run_faults >= 1
    /\ narrow /\ listed # {} => ahead - cursor < PAGE_SIZE
    /\ narrow /\ run_faults <= 1 => \A s \in missed \ processed :
          s <= cursor /\ cursor - s < SAFETY_WINDOW_SIGNATURES /\ (listed # {} => s \in listed)

\* What the cursor has passed was ingested, or listed and not fetched.
PassedWasListed == 1..cursor \subseteq processed \cup missed

IndexerInv == IndexerTypeOK /\ ListedUpTo /\ OverdueIsAhead /\ WithinWindow /\ PassedWasListed

\* The newest of a set that holds its bound.
LEMMA NewestIs ==
    ASSUME NEW n \in Nat, NEW S \in SUBSET (1..n), n \in S
    PROVE  newest(S) = n
<1>1. \A t \in S : t <= n OBVIOUS
<1>2. \A s \in S : (\A t \in S : t <= s) => s = n OBVIOUS
<1> QED BY <1>1, <1>2 DEF newest

\* A run that lists anything lists the newest transaction.
LEMMA SignaturesReachHead ==
    ASSUME IndexerBounds, NEW n \in Nat, NEW until \in 0..n
    PROVE  /\ signatures(n, until) \in SUBSET (1..n)
           /\ signatures(n, until) # {} => n \in signatures(n, until)
<1> DEFINE first == IF n - until >= MAX_SIGNATURES_PER_RUN THEN n - MAX_SIGNATURES_PER_RUN + 1
                    ELSE IF (n - until) % PAGE_SIZE = 0 THEN until + 1
                    ELSE until - SAFETY_WINDOW_SIGNATURES + 1
<1>1. signatures(n, until) = {s \in 1..n : s >= first} BY DEF signatures
<1>2. first \in Int BY DEF IndexerBounds
<1> HIDE DEF first
<1> QED BY <1>1, <1>2

\* It lists what is after `until` or, of more than it may list, the newest.
LEMMA SignaturesListNew ==
    ASSUME IndexerBounds, NEW n \in Nat, NEW until \in 0..n, NEW s \in 1..n, s > until,
           s > n - MaxBurst
    PROVE  s \in signatures(n, until)
BY DEF signatures, IndexerBounds

LEMMA SmallRemainder ==
    ASSUME NEW a \in Nat, NEW b \in Nat, a < b, a % b = 0
    PROVE  a = 0
OBVIOUS

\* A run that finds less than a page lists the window before the cursor again,
\* a reset too.
LEMMA SignaturesListWindow ==
    ASSUME IndexerBounds, NEW n \in Nat, NEW till \in 0..n, n - till < PAGE_SIZE,
           NEW until \in {0, till}, NEW s \in 1..till, till - s < SAFETY_WINDOW_SIGNATURES,
           signatures(n, until) # {}
    PROVE  s \in signatures(n, until)
<1>1. n - until < PAGE_SIZE /\ (n - until) % PAGE_SIZE = 0 => n - until = 0
  <2> DEFINE new == n - until
  <2>1. new \in Nat /\ PAGE_SIZE \in Nat BY DEF IndexerBounds
  <2> QED BY <2>1, SmallRemainder
<1>2. until = till => n - until # 0
  BY DEF signatures, IndexerBounds
<1>3. CASE until = till
  BY <1>1, <1>2, <1>3 DEF signatures, IndexerBounds
<1>4. CASE until = 0
  BY <1>4 DEF signatures, IndexerBounds
<1> QED BY <1>3, <1>4

LEMMA IndexerInitInv == IndexerBounds => (IndexerInit => IndexerInv)
BY DEF IndexerBounds, IndexerInit, IndexerTypeOK, IndexerInv, ListedUpTo, OverdueIsAhead, Overdue,
       WithinWindow, PassedWasListed, ahead, horizon

LEMMA LandKeeps ==
    ASSUME IndexerBounds, IndexerInv, land
    PROVE  IndexerInv'
<1> USE DEF IndexerBounds, land, IndexerInv, IndexerTypeOK
<1>1. ahead' = ahead BY DEF ahead, horizon
<1>2. IndexerTypeOK' OBVIOUS
<1>3. ListedUpTo' BY <1>1 DEF ListedUpTo
<1>4. landed - ahead < MaxBurst BY DEF ahead
<1>5. OverdueIsAhead'
  <2> SUFFICES ASSUME NEW s \in Overdue' PROVE s > ahead /\ s > landed + 1 - MaxBurst
    BY <1>1 DEF OverdueIsAhead
  <2>1. s \in Overdue \/ s = landed + 1 BY DEF Overdue
  <2>2. s > ahead BY <2>1 DEF OverdueIsAhead, ListedUpTo, Overdue
  <2>3. s \in Int BY DEF Overdue
  <2> QED BY <1>4, <2>2, <2>3 DEF ListedUpTo
<1>6. WithinWindow' BY <1>1 DEF WithinWindow
<1>7. PassedWasListed' BY DEF PassedWasListed
<1> QED BY <1>2, <1>3, <1>5, <1>6, <1>7

LEMMA InlineKeeps ==
    ASSUME IndexerBounds, IndexerInv, NEW s, inline_ingest(s)
    PROVE  IndexerInv'
<1> USE DEF IndexerBounds, inline_ingest, IndexerInv, IndexerTypeOK
<1>1. ahead' = ahead BY DEF ahead, horizon
<1>2. IndexerTypeOK' OBVIOUS
<1>3. ListedUpTo' BY <1>1 DEF ListedUpTo
<1>4. OverdueIsAhead' BY <1>1 DEF OverdueIsAhead, Overdue
<1>5. WithinWindow' BY <1>1 DEF WithinWindow
<1>6. PassedWasListed' BY DEF PassedWasListed
<1> QED BY <1>2, <1>3, <1>4, <1>5, <1>6

LEMMA ListKeeps ==
    ASSUME IndexerBounds, IndexerInv, NEW until \in {0, cursor}, list_signatures(until)
    PROVE  IndexerInv'
<1> USE DEF IndexerBounds, IndexerInv, IndexerTypeOK
<1>1. /\ listed = {} /\ listed' = signatures(landed, until)
      /\ narrow' = (narrow /\ landed - cursor < PAGE_SIZE)
      /\ UNCHANGED <<landed, processed, cursor, missed, run_faults>>
  BY DEF list_signatures
<1>2. landed \in Nat /\ cursor \in 0..landed /\ until \in 0..landed OBVIOUS
<1>3. listed' \in SUBSET (1..landed) /\ (listed' # {} => landed \in listed')
  BY <1>1, <1>2, SignaturesReachHead
<1>4. ahead = cursor BY <1>1 DEF ahead, horizon
<1>5. listed' # {} => ahead' = landed
  BY <1>1, <1>2, <1>3, NewestIs DEF ahead, horizon
<1>6. listed' = {} => ahead' = cursor BY <1>1 DEF ahead, horizon
<1>7. narrow' \in BOOLEAN BY <1>1
<1>8. IndexerTypeOK' BY <1>1, <1>3, <1>7
<1>9. ListedUpTo' BY <1>1, <1>2, <1>3, <1>5, <1>6 DEF ListedUpTo
<1>10. OverdueIsAhead'
  <2>1. CASE listed' = {} BY <1>1, <1>4, <1>6, <2>1 DEF OverdueIsAhead, Overdue
  <2>2. CASE listed' # {}
    <3> SUFFICES ASSUME NEW s \in Overdue' PROVE FALSE BY DEF OverdueIsAhead
    <3>1. s \in Overdue /\ s \in 1..landed /\ s \notin listed' BY <1>1 DEF Overdue
    <3>2. s > cursor /\ s > landed - MaxBurst BY <1>4, <3>1 DEF OverdueIsAhead
    <3>3. s > until BY <1>2, <3>1, <3>2
    <3> QED BY <1>1, <1>2, <3>1, <3>2, <3>3, SignaturesListNew
  <2> QED BY <2>1, <2>2
<1>11. WithinWindow'
  <2>1. (missed # {} => run_faults >= 1)' BY <1>1 DEF WithinWindow
  <2>2. (narrow /\ listed # {} => ahead - cursor < PAGE_SIZE)' BY <1>1, <1>5
  <2>3. ASSUME narrow', run_faults' <= 1, NEW s \in (missed \ processed)'
        PROVE  (s <= cursor /\ cursor - s < SAFETY_WINDOW_SIGNATURES /\ (listed # {} => s \in listed))'
    <3>1. narrow /\ landed - cursor < PAGE_SIZE BY <1>1, <2>3
    <3>2. s <= cursor /\ cursor - s < SAFETY_WINDOW_SIGNATURES BY <1>1, <2>3, <3>1 DEF WithinWindow
    <3>3. s \in 1..cursor BY <1>1, <1>2, <2>3, <3>2
    <3>4. listed' # {} => s \in listed'
      BY <1>1, <1>2, <3>1, <3>2, <3>3, SignaturesListWindow
    <3> QED BY <1>1, <3>2, <3>4
  <2> QED BY <2>1, <2>2, <2>3 DEF WithinWindow
<1>12. PassedWasListed' BY <1>1 DEF PassedWasListed
<1> QED BY <1>8, <1>9, <1>10, <1>11, <1>12

\* What a pass did not get, of what it listed.
LEMMA IndexKeeps ==
    ASSUME IndexerBounds, IndexerInv, index_listed
    PROVE  IndexerInv'
<1>1. PICK lost \in SUBSET (listed \ processed), written \in BOOLEAN :
        /\ run_faults' = run_faults + Cardinality(lost) + (IF written THEN 0 ELSE 1)
        /\ run_faults' <= MaxRunFaults
        /\ processed' = processed \cup (listed \ lost)
        /\ missed' = missed \cup lost
        /\ cursor' = IF written THEN next_cursor ELSE cursor
  BY DEF index_listed
<1>2. listed # {} /\ listed' = {} /\ UNCHANGED <<landed, narrow>> BY DEF index_listed
<1> USE DEF IndexerBounds, IndexerInv, IndexerTypeOK
<1>3. ahead = newest(listed) BY <1>2 DEF ahead, horizon
<1>4. cursor' = IF written THEN ahead ELSE cursor BY <1>1, <1>3 DEF next_cursor
<1>5. ahead' = cursor' BY <1>2 DEF ahead, horizon
<1>6. cursor <= ahead /\ ahead \in listed /\ ahead \in 0..landed BY <1>2 DEF ListedUpTo
<1>7. cursor' <= ahead /\ cursor' \in 0..landed BY <1>4, <1>6
<1>8. IsFiniteSet(lost) /\ Cardinality(lost) \in Nat /\ (Cardinality(lost) = 0 <=> lost = {})
  <2>1. IsFiniteSet(1..landed) BY FS_Interval
  <2>2. IsFiniteSet(lost) BY <2>1, FS_Subset
  <2> QED BY <2>2, FS_CardinalityType, FS_EmptySet
<1>9. IndexerTypeOK'
  <2>1. run_faults' \in 0..MaxRunFaults BY <1>1, <1>8
  <2> QED BY <1>1, <1>2, <1>7, <2>1
<1>10. ListedUpTo' BY <1>2, <1>5, <1>7 DEF ListedUpTo
<1>11. Overdue' = Overdue BY <1>1, <1>2 DEF Overdue
<1>12. OverdueIsAhead'
  <2> SUFFICES ASSUME NEW s \in Overdue PROVE s > ahead' /\ s > landed - MaxBurst
    BY <1>2, <1>11 DEF OverdueIsAhead
  <2>1. s > ahead /\ s > landed - MaxBurst /\ s \in Int BY DEF OverdueIsAhead, Overdue
  <2> QED BY <1>5, <1>6, <1>7, <2>1
<1>13. WithinWindow'
  <2>1. (missed # {} => run_faults >= 1)'
    <3>1. CASE missed # {} BY <1>1, <1>8, <3>1 DEF WithinWindow
    <3>2. CASE missed = {} BY <1>1, <1>8, <3>2
    <3> QED BY <3>1, <3>2
  <2>2. ASSUME narrow', run_faults' <= 1, NEW s \in (missed \ processed)'
        PROVE  s <= cursor' /\ cursor' - s < SAFETY_WINDOW_SIGNATURES
    <3>1. narrow /\ run_faults <= 1 BY <1>1, <1>2, <1>8, <2>2
    <3>2. CASE missed # {}
      <4>1. run_faults = 1 /\ lost = {} BY <1>1, <1>8, <2>2, <3>2 DEF WithinWindow
      <4>2. s \in missed \ processed /\ s \notin listed BY <1>1, <2>2, <4>1
      <4> QED BY <1>2, <3>1, <4>2 DEF WithinWindow
    <3>3. CASE missed = {}
      <4>1. s \in lost /\ s \notin processed /\ s \in listed BY <1>1, <2>2, <3>3
      <4>2. written BY <1>1, <1>8, <2>2, <4>1
      <4>3. s <= ahead BY <4>1 DEF ListedUpTo
      <4>4. s > cursor
        <5> SUFFICES ASSUME s <= cursor PROVE FALSE BY <4>1
        <5>1. s \in 1..cursor BY <4>1
        <5> QED BY <3>3, <4>1, <5>1 DEF PassedWasListed
      <4>5. ahead - cursor < PAGE_SIZE BY <1>2, <3>1 DEF WithinWindow
      <4> QED BY <1>4, <1>6, <4>1, <4>2, <4>3, <4>4, <4>5
    <3> QED BY <3>2, <3>3
  <2> QED BY <1>2, <2>1, <2>2 DEF WithinWindow
<1>14. PassedWasListed'
  <2> SUFFICES ASSUME NEW s \in 1..(cursor') PROVE s \in processed' \cup missed' BY DEF PassedWasListed
  <2>1. s \in 1..landed /\ s <= ahead BY <1>6, <1>7
  <2>2. s \notin Overdue BY <1>6, <2>1 DEF OverdueIsAhead
  <2>3. s \in processed \cup missed \cup listed BY <2>1, <2>2 DEF Overdue
  <2> QED BY <1>1, <2>3
<1> QED BY <1>9, <1>10, <1>12, <1>13, <1>14

LEMMA IndexerNextInv == IndexerBounds => (IndexerInv /\ [IndexerNext]_indexerVars => IndexerInv')
<1> SUFFICES ASSUME IndexerBounds, IndexerInv, [IndexerNext]_indexerVars PROVE IndexerInv' OBVIOUS
<1>1. CASE UNCHANGED indexerVars
  BY <1>1 DEF indexerVars, IndexerInv, IndexerTypeOK, ListedUpTo, OverdueIsAhead, Overdue, WithinWindow,
              PassedWasListed, ahead, horizon, newest
<1>2. CASE IndexerNext
  BY <1>2, LandKeeps, InlineKeeps, ListKeeps, IndexKeeps DEF IndexerNext
<1> QED BY <1>1, <1>2

\* However bursts, resets, run_faults and inline ingests fall together, the cursor
\* passes no transaction that was not listed, as long as no burst is larger than
\* a run; and the safety window holds what it is there for (indexer-pass.ts,
\* SAFETY_WINDOW_SIGNATURES), for any number of transactions, when a run's cap
\* has room for a page and a window.
THEOREM CursorNeverSkips ==
    MaxBurst <= MAX_SIGNATURES_PER_RUN => (IndexerSpec => []CursorSkipsNothing)
<1> SUFFICES ASSUME IndexerBounds PROVE IndexerSpec => []CursorSkipsNothing BY IndexerAssumption DEF IndexerBounds
<1>1. IndexerInit => IndexerInv BY IndexerInitInv
<1>2. IndexerInv /\ [IndexerNext]_indexerVars => IndexerInv' BY IndexerNextInv
<1>3. IndexerInv => CursorSkipsNothing
  BY DEF IndexerInv, PassedWasListed, WithinWindow, CursorSkipsNothing
<1> QED BY <1>1, <1>2, <1>3, PTL DEF IndexerSpec

-----------------------------------------------------------------------------
(* VrfCrank *)

\* A step of the crank is a step of the rounds, or leaves them alone.
LEMMA CrankStepIsRoundStep == [CrankNext]_<<vars, crankVars>> => [Next]_vars
<1> SUFFICES ASSUME [CrankNext]_<<vars, crankVars>> PROVE [Next]_vars OBVIOUS
<1>1. CASE UNCHANGED <<vars, crankVars>> BY <1>1
<1>2. CASE ChainStep BY <1>2 DEF ChainStep, Next, CrankStep
<1>3. CASE PassStep
  BY <1>3 DEF PassStep, start_pass, read_rollup, end_pass, send_fails, look_at
<1>4. ASSUME NEW p \in Players, CrankSends(p) \/ api_read(p) \/ api_send(p) PROVE [Next]_vars
  BY <1>4 DEF CrankSends, send_settle, send_refund, send_force, api_read, api_send, Next, CrankStep
<1>5. ASSUME NEW p \in Players, NEW s \in Senders, lands(p, s) \/ never_confirmed(p, s) PROVE [Next]_vars
  BY <1>5 DEF lands, never_confirmed, Next, CrankStep
<1> QED BY <1>1, <1>2, <1>3, <1>4, <1>5 DEF CrankNext

\* What is proved of the rounds holds under the crank, whatever it read and
\* whenever what it sent lands: the composed specification implements the
\* round protocol (vrf-passes.ts over kaboom-p).
THEOREM CrankKeepsTheRounds == CrankSpec => Spec
<1>1. CrankInit => Init BY DEF CrankInit
<1> QED BY <1>1, CrankStepIsRoundStep, PTL DEF CrankSpec, Spec

\* A round number only grows, and a claim is live only from its start on.
RoundMoves(p) ==
    \/ rounds'[p] = rounds[p] /\ (claim'[p].live => claim[p].live)
    \/ rounds'[p] = rounds[p] + 1

LEMMA RoundsMove ==
    ASSUME TypeOK, [Next]_vars, NEW p \in Players
    PROVE  RoundMoves(p)
<1> USE DEF TypeOK, RoundMoves
<1>1. CASE UNCHANGED vars BY <1>1 DEF vars
<1>2. CASE tick
  <2>1. claim'[p].live => claim[p].live
    <3>1. claim[p] \in ClaimType OBVIOUS
    <3> QED BY <1>2, <3>1 DEF tick, ClaimType
  <2> QED BY <1>2, <2>1 DEF tick
<1>3. ASSUME NEW edge \in Edges, update_vault(edge) PROVE RoundMoves(p) BY <1>3 DEF update_vault
<1>4. ASSUME NEW m \in {"open", "closed", "unpinned"}, set_mode(m) PROVE RoundMoves(p) BY <1>4 DEF set_mode
<1>5. ASSUME NEW q \in Players, NEW mines \in MineCounts, NEW bet \in Bets, start_game_vrf(q, mines, bet)
      PROVE  RoundMoves(p)
  BY <1>5 DEF start_game_vrf
<1>6. ASSUME NEW q \in Players,
             \/ delegate_vrf(q)
             \/ \E tile \in Tiles : reveal_request_vrf(q, tile)
             \/ \E rand \in Words : reveal_callback_vrf(q, rand)
             \/ cash_out_vrf(q)
             \/ schedule_undelegate(q)
             \/ process_undelegation(q)
      PROVE  RoundMoves(p)
  BY <1>6 DEF delegate_vrf, reveal_request_vrf, reveal_callback_vrf, cash_out_vrf, schedule_undelegate,
              process_undelegation
<1>7. ASSUME NEW q \in Players, RoundEnds(q) PROVE RoundMoves(p)
  BY <1>7, RoundEndsShape DEF NoClaim
<1> QED BY <1>1, <1>2, <1>3, <1>4, <1>5, <1>6, <1>7, NextCases DEF RoundEnds

\* Every row is of a round that has started, and of one that is over: the claim
\* that is live now has no row yet.  Rows of a player are of different rounds.
RowsBehind ==
    /\ \A p \in Players : claim[p].live => rounds[p] > 0
    /\ \A i \in DOMAIN mirrored :
         /\ mirrored[i].player \in Players
         /\ mirrored[i].settled.round \in 1..rounds[mirrored[i].player]
         /\ claim[mirrored[i].player].live => mirrored[i].settled.round < rounds[mirrored[i].player]

RowsDiffer ==
    \A i, j \in DOMAIN mirrored :
        mirrored[i].player = mirrored[j].player /\ mirrored[i].settled.round = mirrored[j].settled.round => i = j

RowsInSequence == \E rows : mirrored \in Seq(rows)

CrankInv == RowsBehind /\ RowsDiffer /\ RowsInSequence

LEMMA CrankInitInv == CrankInit => CrankInv
<1> SUFFICES ASSUME CrankInit PROVE CrankInv OBVIOUS
<1>1. mirrored = <<>> /\ \A p \in Players : ~claim[p].live BY DEF CrankInit, Init, NoClaim
<1>2. mirrored \in Seq({}) BY <1>1
<1> QED BY <1>1, <1>2 DEF CrankInv, RowsBehind, RowsDiffer, RowsInSequence

LEMMA NoRowStep ==
    ASSUME TypeOK, CrankInv, [Next]_vars, UNCHANGED mirrored
    PROVE  CrankInv'
<1>1. \A p \in Players : RoundMoves(p) BY RoundsMove
<1>2. \A p \in Players : rounds[p] \in Nat BY DEF TypeOK
<1>3. RowsBehind' BY <1>1, <1>2 DEF CrankInv, RowsBehind, RoundMoves
<1>4. RowsDiffer' BY DEF CrankInv, RowsDiffer
<1>5. RowsInSequence' BY DEF CrankInv, RowsInSequence
<1> QED BY <1>3, <1>4, <1>5 DEF CrankInv

LEMMA RowStep ==
    ASSUME TypeOK, ClaimOwnsGame, CrankInv, NEW p \in Players, NEW s \in Senders, settle_vrf(p),
           mirrored' = Append(mirrored, row(p, flight[p][s]))
    PROVE  CrankInv'
<1> DEFINE new == row(p, flight[p][s])
           n == Len(mirrored)
<1>1. new.player = p /\ new.settled.round = claim[p].round BY DEF row, verdict
<1>2. /\ claim[p].live /\ claim' = [claim EXCEPT ![p] = NoClaim] /\ rounds' = rounds
  BY DEF settle_vrf, close_claim
<1>3. claim[p].round = rounds[p] /\ rounds[p] > 0 BY <1>2 DEF ClaimOwnsGame, CrankInv, RowsBehind
<1>4. \A q \in Players : rounds[q] \in Nat /\ (claim'[q].live => claim[q].live /\ q # p)
  BY <1>2 DEF TypeOK, NoClaim
<1> HIDE DEF new
<1>5. PICK rows : mirrored \in Seq(rows) BY DEF CrankInv, RowsInSequence
<1>6. mirrored \in Seq(rows \cup {new}) BY <1>5
<1>7. /\ mirrored' \in Seq(rows \cup {new})
      /\ n \in Nat /\ DOMAIN mirrored = 1..n /\ DOMAIN mirrored' = 1..(n + 1)
      /\ mirrored'[n + 1] = new /\ \A i \in 1..n : mirrored'[i] = mirrored[i]
  BY <1>6 DEF new
<1> HIDE DEF n
<1>8. RowsBehind'
  <2>1. ASSUME NEW i \in DOMAIN mirrored'
        PROVE  /\ mirrored'[i].player \in Players
               /\ mirrored'[i].settled.round \in 1..rounds'[mirrored'[i].player]
               /\ claim'[mirrored'[i].player].live => mirrored'[i].settled.round < rounds'[mirrored'[i].player]
    <3>1. CASE i = n + 1 BY <1>1, <1>2, <1>3, <1>4, <1>7, <3>1
    <3>2. CASE i \in 1..n BY <1>2, <1>4, <1>7, <3>2 DEF CrankInv, RowsBehind
    <3> QED BY <1>7, <3>1, <3>2
  <2>2. \A q \in Players : claim'[q].live => rounds'[q] > 0 BY <1>2, <1>4 DEF CrankInv, RowsBehind
  <2> QED BY <2>1, <2>2 DEF RowsBehind
<1>9. RowsDiffer'
  <2>1. \A i \in 1..n : ~(mirrored[i].player = p /\ mirrored[i].settled.round = rounds[p])
    BY <1>2, <1>4, <1>7 DEF CrankInv, RowsBehind
  <2>2. ASSUME NEW i \in 1..(n + 1), NEW j \in 1..(n + 1), mirrored'[i].player = mirrored'[j].player,
               mirrored'[i].settled.round = mirrored'[j].settled.round
        PROVE  i = j
    <3>1. CASE i \in 1..n /\ j \in 1..n BY <1>7, <2>2, <3>1 DEF CrankInv, RowsDiffer
    <3>2. CASE i = n + 1 /\ j \in 1..n BY <1>1, <1>3, <1>7, <2>1, <2>2, <3>2
    <3>3. CASE i \in 1..n /\ j = n + 1 BY <1>1, <1>3, <1>7, <2>1, <2>2, <3>3
    <3> QED BY <1>7, <3>1, <3>2, <3>3
  <2> QED BY <1>7, <2>2 DEF RowsDiffer
<1>10. RowsInSequence' BY <1>7 DEF RowsInSequence
<1> QED BY <1>8, <1>9, <1>10 DEF CrankInv

LEMMA CrankNextInv == RoundInv /\ CrankInv /\ [CrankNext]_<<vars, crankVars>> => CrankInv'
<1> SUFFICES ASSUME RoundInv, CrankInv, [CrankNext]_<<vars, crankVars>> PROVE CrankInv' OBVIOUS
<1>1. TypeOK /\ ClaimOwnsGame BY DEF RoundInv
<1>2. [Next]_vars BY CrankStepIsRoundStep
<1>3. CASE UNCHANGED mirrored BY <1>1, <1>2, <1>3, NoRowStep
<1>4. ASSUME NEW p \in Players, NEW s \in Senders, lands(p, s) PROVE CrankInv'
  BY <1>1, <1>3, <1>4, RowStep DEF lands
<1>5. UNCHANGED mirrored \/ \E p \in Players, s \in Senders : lands(p, s)
  BY DEF CrankNext, crankVars, ChainStep, PassStep, start_pass, read_rollup, end_pass, send_fails, look_at,
         CrankSends, send_settle, send_refund, send_force, api_read, api_send, never_confirmed, unconfirmed_row
<1> QED BY <1>3, <1>4, <1>5

\* Whatever the pass and the settle route send twice, drop or see land late, no
\* settlement gets two rows and every row has its settlement
\* (vrf-settle.ts, mirrorVrfSettle), for any number of players and rounds.
THEOREM OneRowEach == CrankSpec => []OneRowPerSettlement
<1>1. CrankInv => OneRowPerSettlement
  <2> SUFFICES ASSUME CrankInv PROVE OneRowPerSettlement OBVIOUS
  <2>1. ASSUME NEW i \in DOMAIN mirrored PROVE mirrored[i].settled.round > 0
    BY DEF CrankInv, RowsBehind
  <2> QED BY <2>1 DEF CrankInv, RowsDiffer, OneRowPerSettlement
<1> QED BY <1>1, CrankInitInv, CrankNextInv, CrankKeepsTheRounds, RoundInvariant, PTL DEF CrankSpec

-----------------------------------------------------------------------------
(* VrfClient *)

\* A key that holds gas, or may still get it, is stored; except for a key swept
\* while its start could still land.
KeysKept ==
    /\ gas \in [Keys -> {"none", "funded", "swept"}]
    /\ \A k \in Keys \ early : gas[k] = "funded" \/ k \in starts => k \in stored

LEMMA ClientInitKept == ClientInit => KeysKept
BY DEF ClientInit, KeysKept

\* Keys may be added to the list, and the slot given up once its key is on it.
LEMMA StoreGrows ==
    ASSUME KeysKept, UNCHANGED <<gas, starts, early>>,
           \A k \in Keys : k \in stored => k \in stored'
    PROVE  KeysKept'
BY DEF KeysKept

LEMMA RetireGrows ==
    ASSUME NEW k, retire(k)
    PROVE  stored \subseteq stored' \cup {NoKey}
BY DEF retire, add_all, stored

LEMMA ZeroIsNoKey == NoKey \notin Keys
BY DEF NoKey, Keys

\* Steps that only retire or sweep.
LEMMA RetireKeeps ==
    ASSUME KeysKept, UNCHANGED <<gas, starts, early>>, NEW k,
           retire(k) \/ retire_or_sweep(k) \/ UNCHANGED keyStore
    PROVE  KeysKept'
<1>1. CASE retire(k) BY <1>1, RetireGrows, ZeroIsNoKey, StoreGrows
<1>2. CASE retire_or_sweep(k) BY <1>2, RetireGrows, ZeroIsNoKey, StoreGrows DEF retire_or_sweep, stored
<1>3. CASE UNCHANGED keyStore BY <1>3, StoreGrows DEF keyStore, stored
<1> QED BY <1>1, <1>2, <1>3

LEMMA SendStartKeeps ==
    ASSUME KeysKept, NEW t \in Tabs, send_start(t)
    PROVE  KeysKept'
<1>1. /\ starts' \in {starts, starts \cup {made + 1}} /\ UNCHANGED <<gas, early>>
      /\ remember(made + 1)
  BY DEF send_start
<1>2. key_slot' = made + 1 /\ sweepList' = sweepList \cup ({key_slot} \ {NoKey, made + 1})
  BY <1>1 DEF remember, add_all, parked
<1>3. ASSUME NEW k \in Keys, k \in stored \/ k = made + 1 PROVE k \in stored'
  BY <1>2, <1>3, ZeroIsNoKey DEF stored
<1> QED BY <1>1, <1>3 DEF KeysKept

LEMMA SweepKeeps ==
    ASSUME KeysKept, NEW k \in Keys, sweep_ends(k)
    PROVE  KeysKept'
<1>1. starts' = starts /\ key_slot' = key_slot BY DEF sweep_ends
<1>2. CASE /\ gas' = [gas EXCEPT ![k] = IF @ = "funded" THEN "swept" ELSE @]
           /\ sweepList' = sweepList \ {k}
           /\ early' = IF k \in starts THEN early \cup {k} ELSE early
  <2>1. gas' \in [Keys -> {"none", "funded", "swept"}] /\ gas'[k] # "funded"
        /\ \A j \in Keys \ {k} : gas'[j] = gas[j]
    BY <1>2 DEF KeysKept
  <2>2. ASSUME NEW j \in Keys \ early', gas'[j] = "funded" \/ j \in starts
        PROVE  j \in stored'
    <3>1. j # k BY <1>2, <2>1, <2>2
    <3>2. j \in stored BY <1>2, <2>1, <2>2, <3>1 DEF KeysKept
    <3> QED BY <1>1, <1>2, <3>1, <3>2 DEF stored
  <2> QED BY <1>1, <2>1, <2>2 DEF KeysKept
<1>3. CASE sweepList' = (sweepList \ {k}) \cup {k} /\ UNCHANGED <<gas, early>>
  BY <1>1, <1>3, StoreGrows DEF stored
<1> QED BY <1>2, <1>3 DEF sweep_ends, kept_after_failure

LEMMA ClientNextKept == KeysKept /\ [ClientNext]_clientVars => KeysKept'
<1> SUFFICES ASSUME KeysKept, [ClientNext]_clientVars PROVE KeysKept' OBVIOUS
<1>1. CASE UNCHANGED clientVars BY <1>1 DEF clientVars, KeysKept, stored
<1>2. ASSUME NEW k \in Keys, start_lands(k) PROVE KeysKept'
  BY <1>2 DEF start_lands, on_chain, KeysKept, stored
<1>3. ASSUME NEW k \in Keys, start_expires(k) PROVE KeysKept'
  BY <1>3 DEF start_expires, KeysKept, stored
<1>4. ASSUME NEW k \in Keys, sweep_ends(k) PROVE KeysKept' BY <1>4, SweepKeeps
<1>5. CASE oracle_answers \/ game_returns \/ House
  BY <1>5 DEF oracle_answers, game_returns, House, house_forces, cron_closes,
              on_chain, KeysKept, stored
<1>6. ASSUME NEW t \in Tabs, press_engage(t) PROVE KeysKept'
  BY <1>6, RetireKeeps DEF press_engage
<1>7. ASSUME NEW t \in Tabs, reveal(t) \/ cash_out(t) PROVE KeysKept'
  BY <1>7, RetireKeeps DEF reveal, cash_out
<1>8. ASSUME NEW t \in Tabs,
             \/ press_recover(t) \/ probe_reads(t) \/ probe_answers(t) \/ start_returns(t)
             \/ draw_polled(t) \/ recover_waits(t)
      PROVE  KeysKept'
  BY <1>8 DEF press_recover, probe_reads, probe_answers, start_returns,
              draw_polled, recover_waits, only_tab, KeysKept, stored
<1>9. ASSUME NEW t \in Tabs, reload(t) \/ mount_reads_key(t) PROVE KeysKept'
  BY <1>9 DEF reload, mount_reads_key, KeysKept, stored
<1>10. ASSUME NEW t \in Tabs, send_start(t) PROVE KeysKept' BY <1>10, SendStartKeeps
<1>11. ASSUME NEW t \in Tabs,
              \/ flow_undelegates(t) \/ recover_cashes_out(t) \/ recover_undelegates(t)
       PROVE  KeysKept'
  BY <1>11, RetireKeeps DEF flow_undelegates, recover_cashes_out, recover_undelegates
<1>12. ASSUME NEW t \in Tabs, flow_settles(t) PROVE KeysKept'
  BY <1>12, RetireKeeps DEF flow_settles
<1>13. ASSUME NEW t \in Tabs, recover_begins(t) \/ recover_closes(t) \/ mount_reads_claim(t)
       PROVE  KeysKept'
  BY <1>13, RetireKeeps DEF recover_begins, recover_closes, mount_reads_claim
<1> QED BY <1>1, <1>2, <1>3, <1>4, <1>5, <1>6, <1>7, <1>8, <1>9, <1>10, <1>11, <1>12, <1>13
        DEF ClientNext, Works

\* No session key that holds gas is ever forgotten, with any number of tabs and
\* rounds and whatever fails, except for a key swept while its start could still
\* land (lib/vrf/client.ts, parkReplacedSession and retireSession).
THEOREM FundedKeysAreKept == ClientSpec => []FundedKeyKept
<1>1. KeysKept => FundedKeyKept BY DEF KeysKept, FundedKeyKept
<1> QED BY <1>1, ClientInitKept, ClientNextKept, PTL DEF ClientSpec

-----------------------------------------------------------------------------
(* OwnerOps *)

\* Scripts, as sequences over the steps they may have.
Writing == {"write", "set_buffer_authority"}
SquadsSteps == {"read_index", "vaultTransactionCreate", "proposalCreate", "approve1", "approve2", "execute"}
LoneSteps == {"propose_owner", "update_allow_propose", "update_allow", "update", "allow",
              "set_upgrade_authority", "verify"}
StepsOf(kind) == IF kind \in {"rotate", "initialize_v2", "repair"} THEN LoneSteps \cup SquadsSteps ELSE LoneSteps

ScriptState == [kind : ScriptKinds \cup {"none"},
                steps : Seq({"create_buffer"} \cup Writing \cup SquadsSteps \cup LoneSteps),
                index : Nat, buffer : Nat, sent : BOOLEAN]
BufferState == [written : Nat, authority : {"member", "squads"}, consumed : BOOLEAN]
Operation == [kind : {"upgrade", "rotate", "initialize_v2", "repair"}, buffer : Nat]

\* An operation that upgrades names a buffer that was created.
HasBuffer(op) == op.kind = "upgrade" => op.buffer \in DOMAIN buffers

\* A buffer is handed to the multisig when it is complete, and is complete ever after.
BuffersWhole == \A b \in DOMAIN buffers : buffers[b].authority = "squads" => buffers[b].written = Chunks

ChainType ==
    /\ DOMAIN squads = {"last", "ops", "votes", "state"}
    /\ squads.ops \in Seq(Operation) /\ squads.last = Len(squads.ops)
    /\ buffers \in Seq(BufferState)
    /\ "program" \in DOMAIN owned

ChainInv ==
    /\ ChainType /\ WholeProgramOnly /\ BuffersWhole
    /\ \A i \in DOMAIN squads.ops : HasBuffer(squads.ops[i])

\* What may be sent, or be late: it writes to a buffer that exists, hands over a
\* complete one, and proposes an operation of the four kinds.
TxFits(trx) ==
    /\ trx.act \in Writing => trx.buffer \in DOMAIN buffers
    /\ trx.act = "set_buffer_authority" => buffers[trx.buffer].written = Chunks
    /\ trx.act = "vaultTransactionCreate" => trx.op \in Operation /\ HasBuffer(trx.op)

\* How many steps of an upgrade are behind it.
done(s) == Chunks + 8 - Len(script[s].steps)

\* An upgrade that is still writing has written as many pieces as steps.
UpgradeFits(s) ==
    LET b == script[s].buffer IN
    /\ done(s) \in 0..(Chunks + 7)
    /\ \A i \in DOMAIN script[s].steps : script[s].steps[i] = upgrade_steps[done(s) + i]
    /\ IF done(s) = 0 THEN b = 0 ELSE b \in DOMAIN buffers
    /\ done(s) \in 1..(Chunks + 1) => buffers[b].authority = "member" /\ buffers[b].written = done(s) - 1

OtherFits(s) == script[s].buffer = 0 /\ script[s].steps \in Seq(StepsOf(script[s].kind))

ScriptFits(s) == IF script[s].kind = "upgrade" THEN UpgradeFits(s) ELSE OtherFits(s)

\* Nobody writes to the buffer of a script that runs but itself, and at most one
\* transaction to a buffer is late.
Apart ==
    /\ \A s, t \in Shells : script[s].buffer = script[t].buffer /\ script[s].buffer # 0 => s = t
    /\ \A trx \in adrift : trx.act \in Writing =>
         /\ \A s \in Shells : script[s].buffer # trx.buffer
         /\ \A ty \in adrift : ty.act \in Writing /\ ty.buffer = trx.buffer => ty = trx

ScriptsInv ==
    /\ script \in [Shells -> ScriptState]
    /\ ChainInv
    /\ \A s \in Shells : ScriptFits(s)
    /\ \A trx \in adrift : TxFits(trx)
    /\ Apart

\* Two sequences, one after the other.
LEMMA Joined ==
    ASSUME NEW S, NEW p \in Seq(S), NEW q \in Seq(S)
    PROVE  /\ p \o q \in Seq(S) /\ Len(p \o q) = Len(p) + Len(q)
           /\ \A i \in 1..Len(p) : (p \o q)[i] = p[i]
           /\ \A i \in 1..Len(q) : (p \o q)[Len(p) + i] = q[i]
<1>1. p \o q \in Seq(S) /\ Len(p \o q) = Len(p) + Len(q) OBVIOUS
<1>2. \A i \in 1..Len(p) : (p \o q)[i] = p[i] OBVIOUS
<1>3. \A i \in 1..Len(q) : (p \o q)[Len(p) + i] = q[i] OBVIOUS
<1> QED BY <1>1, <1>2, <1>3

\* The steps of an upgrade.
LEMMA UpgradeSteps ==
    /\ upgrade_steps \in Seq({"create_buffer"} \cup Writing \cup SquadsSteps) /\ Len(upgrade_steps) = Chunks + 8
    /\ \A i \in 1..(Chunks + 8) :
         /\ i = 1 => upgrade_steps[i] = "create_buffer"
         /\ i \in 2..(Chunks + 1) => upgrade_steps[i] = "write"
         /\ i = Chunks + 2 => upgrade_steps[i] = "set_buffer_authority"
         /\ i > Chunks + 2 => upgrade_steps[i] \in SquadsSteps
<1> DEFINE S == {"create_buffer"} \cup Writing \cup SquadsSteps
           a == <<"create_buffer">>
           w == [i \in 1..Chunks |-> "write"]
           c == <<"set_buffer_authority">>
<1>1. a \in Seq(S) /\ Len(a) = 1 /\ a[1] = "create_buffer" OBVIOUS
<1>2. w \in Seq(S) /\ Len(w) = Chunks /\ \A i \in 1..Chunks : w[i] = "write" BY OwnerAssumption DEF Writing
<1>3. c \in Seq(S) /\ Len(c) = 1 /\ c[1] = "set_buffer_authority" BY DEF Writing
<1>4. /\ squads_steps \in Seq(S) /\ Len(squads_steps) = 6
      /\ \A i \in 1..6 : squads_steps[i] \in SquadsSteps
  BY DEF squads_steps, SquadsSteps
<1>5. upgrade_steps = ((a \o w) \o c) \o squads_steps BY DEF upgrade_steps
<1> HIDE DEF a, w, c, S
<1> DEFINE aw == a \o w
<1>6. /\ aw \in Seq(S) /\ Len(aw) = 1 + Chunks
      /\ \A i \in 1..1 : aw[i] = a[i]
      /\ \A i \in 1..Chunks : aw[1 + i] = w[i]
  <2>1. /\ aw \in Seq(S) /\ Len(aw) = Len(a) + Len(w)
        /\ \A i \in 1..Len(a) : aw[i] = a[i]
        /\ \A i \in 1..Len(w) : aw[Len(a) + i] = w[i]
    <3>1. a \in Seq(S) /\ w \in Seq(S) BY <1>1, <1>2
    <3> QED BY <3>1, Joined
  <2> HIDE DEF aw
  <2> QED BY <1>1, <1>2, <2>1
<1> HIDE DEF aw
<1> DEFINE awc == aw \o c
<1>7. /\ awc \in Seq(S) /\ Len(awc) = (1 + Chunks) + 1
      /\ \A i \in 1..(1 + Chunks) : awc[i] = aw[i]
      /\ \A i \in 1..1 : awc[(1 + Chunks) + i] = c[i]
  <2>1. /\ awc \in Seq(S) /\ Len(awc) = Len(aw) + Len(c)
        /\ \A i \in 1..Len(aw) : awc[i] = aw[i]
        /\ \A i \in 1..Len(c) : awc[Len(aw) + i] = c[i]
    <3>1. aw \in Seq(S) /\ c \in Seq(S) BY <1>3, <1>6
    <3> QED BY <3>1, Joined
  <2> HIDE DEF awc
  <2> QED BY <1>3, <1>6, <2>1
<1> HIDE DEF awc
<1>8. /\ upgrade_steps \in Seq(S) /\ Len(upgrade_steps) = ((1 + Chunks) + 1) + 6
      /\ \A i \in 1..((1 + Chunks) + 1) : upgrade_steps[i] = awc[i]
      /\ \A i \in 1..6 : upgrade_steps[((1 + Chunks) + 1) + i] = squads_steps[i]
  <2>1. upgrade_steps = awc \o squads_steps BY <1>5 DEF awc, aw
  <2>2. /\ upgrade_steps \in Seq(S) /\ Len(upgrade_steps) = Len(awc) + Len(squads_steps)
        /\ \A i \in 1..Len(awc) : upgrade_steps[i] = awc[i]
        /\ \A i \in 1..Len(squads_steps) : upgrade_steps[Len(awc) + i] = squads_steps[i]
    <3>1. awc \in Seq(S) /\ squads_steps \in Seq(S) BY <1>4, <1>7
    <3> QED BY <2>1, <3>1, Joined
  <2> QED BY <1>4, <1>7, <2>2
<1>9. Len(upgrade_steps) = Chunks + 8 BY <1>8, OwnerAssumption
<1>10. upgrade_steps[1] = "create_buffer"
  <2>1. 1 \in 1..((1 + Chunks) + 1) /\ 1 \in 1..(1 + Chunks) /\ 1 \in 1..1 BY OwnerAssumption
  <2> QED BY <1>1, <1>6, <1>7, <1>8, <2>1
<1>11. ASSUME NEW i \in 2..(Chunks + 1) PROVE upgrade_steps[i] = "write"
  <2>1. i \in 1..((1 + Chunks) + 1) /\ i \in 1..(1 + Chunks) BY OwnerAssumption
  <2>2. i - 1 \in 1..Chunks /\ 1 + (i - 1) = i BY OwnerAssumption
  <2>3. aw[i] = w[i - 1] BY <1>6, <2>2
  <2>4. w[i - 1] = "write" BY <1>2, <2>2
  <2> QED BY <1>7, <1>8, <2>1, <2>3, <2>4
<1>12. upgrade_steps[Chunks + 2] = "set_buffer_authority"
  <2>1. Chunks + 2 \in 1..((1 + Chunks) + 1) /\ (1 + Chunks) + 1 = Chunks + 2 /\ 1 \in 1..1 BY OwnerAssumption
  <2>2. awc[(1 + Chunks) + 1] = c[1] BY <1>7, <2>1
  <2> QED BY <1>3, <1>8, <2>1, <2>2
<1>13. ASSUME NEW i \in 1..(Chunks + 8), i > Chunks + 2 PROVE upgrade_steps[i] \in SquadsSteps
  <2>1. i - (Chunks + 2) \in 1..6 /\ ((1 + Chunks) + 1) + (i - (Chunks + 2)) = i BY <1>13, OwnerAssumption
  <2>2. upgrade_steps[i] = squads_steps[i - (Chunks + 2)] BY <1>8, <2>1
  <2> QED BY <1>4, <2>1, <2>2
<1> QED BY <1>8, <1>9, <1>10, <1>11, <1>12, <1>13 DEF S

\* A script's first step is one of its own, and so are those after it.
LEMMA StepsAhead ==
    ASSUME NEW S, NEW q \in Seq(S), q # <<>>
    PROVE  /\ Head(q) \in S /\ Head(q) = q[1] /\ Tail(q) \in Seq(S)
           /\ Len(q) \in Nat \ {0} /\ Len(Tail(q)) = Len(q) - 1 /\ DOMAIN Tail(q) = 1..(Len(q) - 1)
           /\ \A i \in 1..(Len(q) - 1) : Tail(q)[i] = q[i + 1]
OBVIOUS

\* The buffers a transaction leaves alone.
BufferKept(b) == buffers'[b].written = buffers[b].written /\ buffers'[b].authority = buffers[b].authority

Grown == Len(buffers) <= Len(buffers') /\ DOMAIN buffers \subseteq DOMAIN buffers'

LEMMA CreateKeeps ==
    ASSUME ChainInv, NEW trx, buildInitializeBufferIx(trx), UNCHANGED squads
    PROVE  /\ ChainInv' /\ Grown /\ \A b \in DOMAIN buffers : BufferKept(b)
           /\ Len(buffers) + 1 \in DOMAIN buffers'
           /\ buffers'[Len(buffers) + 1].written = 0 /\ buffers'[Len(buffers) + 1].authority = "member"
<1> DEFINE fresh == [written |-> 0, authority |-> "member", consumed |-> FALSE]
           n == Len(buffers)
<1>1. fresh \in BufferState /\ fresh.written = 0 /\ fresh.authority = "member" BY DEF BufferState
<1>2. buffers' = Append(buffers, fresh) /\ UNCHANGED <<owned, squads>> BY DEF buildInitializeBufferIx
<1>3. buffers \in Seq(BufferState) BY DEF ChainInv, ChainType
<1> HIDE DEF fresh
<1>4. /\ buffers' \in Seq(BufferState) /\ n \in Nat /\ DOMAIN buffers = 1..n /\ DOMAIN buffers' = 1..(n + 1)
      /\ Len(buffers') = n + 1
      /\ buffers'[n + 1] = fresh /\ \A b \in 1..n : buffers'[b] = buffers[b]
  BY <1>1, <1>2, <1>3
<1>5. Grown BY <1>4 DEF Grown
<1>6. ChainType' BY <1>2, <1>4 DEF ChainInv, ChainType
<1>7. BuffersWhole' BY <1>1, <1>4 DEF ChainInv, BuffersWhole
<1>8. ChainInv' BY <1>2, <1>5, <1>6, <1>7 DEF ChainInv, WholeProgramOnly, HasBuffer, Grown
<1> QED BY <1>1, <1>4, <1>5, <1>8 DEF BufferKept

\* A buffer that is changed, and others that are not.
LEMMA OneBufferKeeps ==
    ASSUME ChainInv, UNCHANGED squads, NEW b \in DOMAIN buffers, NEW new \in BufferState,
           buffers' = [buffers EXCEPT ![b] = new], new.authority = "squads" => new.written = Chunks,
           "program" \in DOMAIN owned', owned'.program = "whole"
    PROVE  ChainInv' /\ Grown /\ buffers'[b] = new /\ \A c \in DOMAIN buffers \ {b} : BufferKept(c)
<1>1. buffers \in Seq(BufferState) BY DEF ChainInv, ChainType
<1>2. /\ buffers' \in Seq(BufferState) /\ DOMAIN buffers' = DOMAIN buffers /\ Len(buffers') = Len(buffers)
      /\ Len(buffers) \in Nat
      /\ buffers'[b] = new /\ \A c \in DOMAIN buffers \ {b} : buffers'[c] = buffers[c]
  BY <1>1
<1>3. ChainType' BY <1>2 DEF ChainInv, ChainType
<1>4. BuffersWhole' BY <1>2 DEF ChainInv, BuffersWhole
<1>5. ChainInv' BY <1>2, <1>3, <1>4 DEF ChainInv, WholeProgramOnly, HasBuffer
<1> QED BY <1>2, <1>5 DEF Grown, BufferKept

LEMMA BufferFields ==
    ASSUME NEW r \in BufferState, NEW w \in Nat, NEW a \in {"member", "squads"}
    PROVE  /\ r.written \in Nat /\ r.authority \in {"member", "squads"}
           /\ [r EXCEPT !.written = w] \in BufferState /\ [r EXCEPT !.written = w].written = w
           /\ [r EXCEPT !.written = w].authority = r.authority
           /\ [r EXCEPT !.authority = a] \in BufferState /\ [r EXCEPT !.authority = a].authority = a
           /\ [r EXCEPT !.authority = a].written = r.written
           /\ [r EXCEPT !.consumed = TRUE] \in BufferState
           /\ [r EXCEPT !.consumed = TRUE].written = r.written
           /\ [r EXCEPT !.consumed = TRUE].authority = r.authority
BY DEF BufferState

LEMMA WriteKeeps ==
    ASSUME ChainInv, NEW trx, TxFits(trx), buildWriteIx(trx), buffers[trx.buffer].authority = "member", UNCHANGED squads
    PROVE  /\ ChainInv' /\ Grown /\ \A b \in DOMAIN buffers \ {trx.buffer} : BufferKept(b)
           /\ buffers'[trx.buffer].written = buffers[trx.buffer].written + 1
           /\ buffers'[trx.buffer].authority = "member"
<1> DEFINE b == trx.buffer
           w == buffers[b].written
           new == [buffers[b] EXCEPT !.written = w + 1]
<1>1. b \in DOMAIN buffers BY DEF TxFits, buildWriteIx, Writing
<1>2. buffers[b] \in BufferState BY <1>1 DEF ChainInv, ChainType
<1>3. w \in Nat BY <1>2, BufferFields
<1>4. new \in BufferState /\ new.written = w + 1 /\ new.authority = "member"
  <2>1. w + 1 \in Nat BY <1>3
  <2>2. PICK v \in Nat : v = w + 1 BY <2>1
  <2>3. PICK r \in BufferState : r = buffers[b] BY <1>2
  <2>4. [r EXCEPT !.written = v] \in BufferState /\ [r EXCEPT !.written = v].written = v
        /\ [r EXCEPT !.written = v].authority = r.authority
    BY <2>2, <2>3 DEF BufferState
  <2>5. new = [r EXCEPT !.written = v] /\ r.authority = "member" /\ v = w + 1 BY <2>2, <2>3
  <2> HIDE DEF new, w
  <2> QED BY <2>4, <2>5
<1>5. buffers' = [buffers EXCEPT ![b] = new] /\ UNCHANGED owned BY <1>1 DEF buildWriteIx
<1>6. "program" \in DOMAIN owned' /\ owned'.program = "whole" BY <1>5 DEF ChainInv, ChainType, WholeProgramOnly
<1> HIDE DEF new, w, b
<1> QED BY <1>1, <1>4, <1>5, <1>6, OneBufferKeeps DEF b, w

LEMMA HandOverKeeps ==
    ASSUME ChainInv, NEW trx, TxFits(trx), buildSetBufferAuthorityIx(trx), UNCHANGED squads
    PROVE  ChainInv' /\ Grown /\ \A b \in DOMAIN buffers \ {trx.buffer} : BufferKept(b)
<1> DEFINE b == trx.buffer
           new == [buffers[b] EXCEPT !.authority = "squads"]
<1>1. b \in DOMAIN buffers /\ buffers[b].written = Chunks BY DEF TxFits, buildSetBufferAuthorityIx, Writing
<1>2. buffers[b] \in BufferState BY <1>1 DEF ChainInv, ChainType
<1>3. 0 \in Nat OBVIOUS
<1>4. new \in BufferState /\ new.written = Chunks BY <1>1, <1>2, <1>3, BufferFields
<1>5. buffers' = [buffers EXCEPT ![b] = new] /\ UNCHANGED owned BY <1>1 DEF buildSetBufferAuthorityIx
<1>6. "program" \in DOMAIN owned' /\ owned'.program = "whole" BY <1>5 DEF ChainInv, ChainType, WholeProgramOnly
<1> HIDE DEF new, b
<1> QED BY <1>1, <1>4, <1>5, <1>6, OneBufferKeeps DEF b

\* Instructions that touch neither a buffer nor the program.
LEMMA AsideKeeps ==
    ASSUME ChainInv, UNCHANGED buffers,
           "program" \in DOMAIN owned', owned'.program = owned.program,
           DOMAIN squads' = DOMAIN squads, squads'.ops \in Seq(Operation), squads'.last = Len(squads'.ops),
           \A i \in DOMAIN squads'.ops : HasBuffer(squads'.ops[i])
    PROVE  ChainInv' /\ Grown /\ \A b \in DOMAIN buffers : BufferKept(b)
<1>1. buffers \in Seq(BufferState) BY DEF ChainInv, ChainType
<1>2. Len(buffers) \in Nat BY <1>1
<1>3. ChainType' BY DEF ChainInv, ChainType
<1>4. \A i \in DOMAIN squads'.ops : HasBuffer(squads.ops[i])' BY DEF HasBuffer
<1> QED BY <1>2, <1>3, <1>4 DEF ChainInv, WholeProgramOnly, BuffersWhole, Grown, BufferKept

LEMMA LoneKeeps ==
    ASSUME ChainInv, NEW trx, vault_instructions(trx) \/ buildSetUpgradeAuthorityIx(trx), UNCHANGED squads
    PROVE  ChainInv' /\ Grown /\ \A b \in DOMAIN buffers : BufferKept(b)
<1>1. UNCHANGED buffers BY DEF vault_instructions, buildSetUpgradeAuthorityIx
<1>2. "program" \in DOMAIN owned BY DEF ChainInv, ChainType
<1>3. "program" \in DOMAIN owned' /\ owned'.program = owned.program
  BY <1>2 DEF vault_instructions, buildSetUpgradeAuthorityIx
<1> QED BY <1>1, <1>3, AsideKeeps DEF ChainInv, ChainType

LEMMA CreateOperationKeeps ==
    ASSUME ChainInv, NEW trx, TxFits(trx), trx.act = "vaultTransactionCreate", trx.index = squads.last + 1,
           changes_squads(trx)
    PROVE  ChainInv' /\ Grown /\ \A b \in DOMAIN buffers : BufferKept(b)
<1>1. trx.op \in Operation /\ HasBuffer(trx.op) BY DEF TxFits
<1>2. /\ squads' = [last |-> trx.index, ops |-> Append(squads.ops, trx.op),
                    votes |-> Append(squads.votes, {}), state |-> Append(squads.state, "none")]
      /\ UNCHANGED <<buffers, owned>>
  BY DEF changes_squads
<1>3. squads.ops \in Seq(Operation) /\ squads.last = Len(squads.ops) /\ DOMAIN squads = {"last", "ops", "votes", "state"}
  BY DEF ChainInv, ChainType
<1>4. DOMAIN squads' = DOMAIN squads /\ squads'.ops = Append(squads.ops, trx.op) /\ squads'.last = squads.last + 1
  BY <1>2, <1>3
<1>5. /\ squads'.ops \in Seq(Operation) /\ squads'.last = Len(squads'.ops)
      /\ \A i \in DOMAIN squads'.ops : squads'.ops[i] = trx.op \/ (i \in DOMAIN squads.ops /\ squads'.ops[i] = squads.ops[i])
  BY <1>1, <1>3, <1>4
<1>6. \A i \in DOMAIN squads'.ops : HasBuffer(squads'.ops[i]) BY <1>1, <1>5 DEF ChainInv
<1>7. "program" \in DOMAIN owned' /\ owned'.program = owned.program BY <1>2 DEF ChainInv, ChainType
<1> QED BY <1>2, <1>4, <1>5, <1>6, <1>7, AsideKeeps

LEMMA VoteKeeps ==
    ASSUME ChainInv, NEW trx, trx.act \in {"proposalCreate", "approve1", "approve2"}, changes_squads(trx)
    PROVE  ChainInv' /\ Grown /\ \A b \in DOMAIN buffers : BufferKept(b)
<1>1. DOMAIN squads = {"last", "ops", "votes", "state"} /\ "program" \in DOMAIN owned BY DEF ChainInv, ChainType
<1>2. UNCHANGED <<buffers, owned>> BY DEF changes_squads
<1>3. DOMAIN squads' = DOMAIN squads /\ squads'.ops = squads.ops /\ squads'.last = squads.last
  BY <1>1 DEF changes_squads
<1> QED BY <1>1, <1>2, <1>3, AsideKeeps DEF ChainInv, ChainType

\* An operation that is executed upgrades to a complete build, or does not upgrade.
LEMMA ExecuteKeeps ==
    ASSUME ChainInv, NEW trx, trx.act = "execute", chain_accepts(trx), changes_squads(trx)
    PROVE  ChainInv' /\ Grown /\ \A b \in DOMAIN buffers : BufferKept(b)
<1> DEFINE op == squads.ops[trx.index]
<1>1. trx.index \in 1..squads.last /\ may_execute(op) BY DEF chain_accepts, instructions
<1>2. squads.ops \in Seq(Operation) /\ squads.last = Len(squads.ops) /\ DOMAIN squads = {"last", "ops", "votes", "state"}
      /\ "program" \in DOMAIN owned /\ owned.program = "whole" /\ buffers \in Seq(BufferState)
  BY DEF ChainInv, ChainType, WholeProgramOnly
<1>3. op \in Operation /\ HasBuffer(op) BY <1>1, <1>2 DEF ChainInv
<1>4. /\ squads' = [squads EXCEPT !.state[trx.index] = "executed"]
      /\ owned' = carried_out(op)
      /\ buffers' = IF op.kind = "upgrade" THEN [buffers EXCEPT ![op.buffer].consumed = TRUE] ELSE buffers
  BY DEF changes_squads
<1>5. DOMAIN squads' = DOMAIN squads /\ squads'.ops = squads.ops /\ squads'.last = squads.last
  BY <1>2, <1>4
<1> HIDE DEF op
<1>6. CASE op.kind = "upgrade"
  <2> DEFINE b == op.buffer
             new == [buffers[b] EXCEPT !.consumed = TRUE]
  <2>1. b \in DOMAIN buffers /\ buffers[b].authority = "squads" BY <1>1, <1>3, <1>6 DEF HasBuffer, may_execute
  <2>2. buffers[b] \in BufferState /\ buffers[b].written = Chunks BY <1>2, <2>1 DEF ChainInv, BuffersWhole
  <2>3. new \in BufferState /\ new.written = Chunks /\ new.authority = "squads"
    <3>1. 0 \in Nat OBVIOUS
    <3> QED BY <2>1, <2>2, <3>1, BufferFields
  <2>4. buffers' = [buffers EXCEPT ![b] = new] BY <1>4, <1>6, <2>1
  <2>5. owned' = [owned EXCEPT !.program = "whole"] BY <1>4, <1>6, <2>2 DEF carried_out, buildUpgradeIx
  <2>6. "program" \in DOMAIN owned' /\ owned'.program = "whole" BY <1>2, <2>5
  <2> HIDE DEF new, b
  <2>7. /\ buffers' \in Seq(BufferState) /\ DOMAIN buffers' = DOMAIN buffers /\ Len(buffers') = Len(buffers)
        /\ Len(buffers) \in Nat
        /\ buffers'[b] = new /\ \A c \in DOMAIN buffers \ {b} : buffers'[c] = buffers[c]
    BY <1>2, <2>1, <2>3, <2>4
  <2>8. ChainType' BY <1>2, <1>5, <2>6, <2>7 DEF ChainType
  <2>9. BuffersWhole' BY <2>3, <2>7 DEF ChainInv, BuffersWhole
  <2>10. \A c \in DOMAIN buffers : BufferKept(c) BY <2>1, <2>2, <2>3, <2>7 DEF BufferKept, b
  <2>11. ChainInv' BY <1>5, <2>6, <2>7, <2>8, <2>9 DEF ChainInv, WholeProgramOnly, HasBuffer
  <2> QED BY <2>7, <2>10, <2>11 DEF Grown
<1>7. CASE op.kind \in {"rotate", "initialize_v2", "repair"}
  <2>1. UNCHANGED buffers BY <1>4, <1>7
  <2>2. "program" \in DOMAIN owned' /\ owned'.program = owned.program
    BY <1>2, <1>4, <1>7 DEF carried_out, buildAcceptOwnership, buildInitializeV2Ix, buildRepairReferral
  <2> QED BY <1>2, <1>5, <2>1, <2>2, AsideKeeps DEF ChainInv
<1> QED BY <1>3, <1>6, <1>7 DEF Operation

\* What a transaction that is accepted does to the chain.
LEMMA EffectKeeps ==
    ASSUME ChainInv, NEW trx, TxFits(trx), chain_accepts(trx), takes_effect(trx)
    PROVE  /\ ChainInv' /\ Grown
           /\ \A b \in DOMAIN buffers : BufferKept(b) \/ (trx.act \in Writing /\ b = trx.buffer)
           /\ trx.act = "create_buffer" =>
                /\ Len(buffers) + 1 \in DOMAIN buffers'
                /\ buffers'[Len(buffers) + 1].written = 0 /\ buffers'[Len(buffers) + 1].authority = "member"
           /\ trx.act = "write" => /\ buffers'[trx.buffer].written = buffers[trx.buffer].written + 1
                                  /\ buffers'[trx.buffer].authority = "member"
<1>1. CASE changes_squads(trx) /\ trx.act = "vaultTransactionCreate"
  <2>1. trx.index = squads.last + 1 BY <1>1 DEF chain_accepts, instructions
  <2> QED BY <1>1, <2>1, CreateOperationKeeps
<1>2. CASE changes_squads(trx) /\ trx.act \in {"proposalCreate", "approve1", "approve2"} BY <1>2, VoteKeeps
<1>3. CASE changes_squads(trx) /\ trx.act = "execute" BY <1>3, ExecuteKeeps
<1>4. CASE UNCHANGED squads /\ buildInitializeBufferIx(trx)
  BY <1>4, CreateKeeps DEF buildInitializeBufferIx
<1>5. CASE UNCHANGED squads /\ buildWriteIx(trx)
  <2>1. trx.act = "write" /\ buffers[trx.buffer].authority = "member"
    BY <1>5 DEF buildWriteIx, chain_accepts, instructions
  <2> QED BY <1>5, <2>1, WriteKeeps DEF Writing
<1>6. CASE UNCHANGED squads /\ buildSetBufferAuthorityIx(trx)
  <2>1. trx.act = "set_buffer_authority" BY <1>6 DEF buildSetBufferAuthorityIx
  <2>2. ChainInv' /\ Grown /\ \A b \in DOMAIN buffers \ {trx.buffer} : BufferKept(b) BY <1>6, HandOverKeeps
  <2>3. trx.act \in Writing BY <2>1 DEF Writing
  <2>4. \A b \in DOMAIN buffers : BufferKept(b) \/ (trx.act \in Writing /\ b = trx.buffer) BY <2>2, <2>3
  <2> QED BY <2>1, <2>2, <2>4
<1>7. CASE UNCHANGED squads /\ (vault_instructions(trx) \/ buildSetUpgradeAuthorityIx(trx))
  <2>1. trx.act \notin {"create_buffer", "write"}
    BY <1>7 DEF vault_instructions, instructions, buildSetUpgradeAuthorityIx
  <2>2. ChainInv' /\ Grown /\ \A b \in DOMAIN buffers : BufferKept(b) BY <1>7, LoneKeeps
  <2>3. trx.act # "create_buffer" /\ trx.act # "write" BY <2>1
  <2>4. \A b \in DOMAIN buffers : BufferKept(b) \/ (trx.act \in Writing /\ b = trx.buffer) BY <2>2
  <2> QED BY <2>2, <2>3, <2>4
<1> QED BY <1>1, <1>2, <1>3, <1>4, <1>5, <1>6, <1>7 DEF takes_effect, changes_squads, changes_own

\* What a buffer that is named stays.
LEMMA TxStays ==
    ASSUME ChainInv, NEW trx, TxFits(trx), Grown, trx.act = "set_buffer_authority" => BufferKept(trx.buffer)
    PROVE  TxFits(trx)'
<1>1. trx.act \in Writing => trx.buffer \in DOMAIN buffers' BY DEF TxFits, Grown
<1>2. trx.act = "set_buffer_authority" => buffers'[trx.buffer].written = Chunks BY DEF TxFits, BufferKept
<1>3. trx.act = "vaultTransactionCreate" => trx.op \in Operation /\ HasBuffer(trx.op)'
  BY DEF TxFits, HasBuffer, Grown
<1> QED BY <1>1, <1>2, <1>3 DEF TxFits

LEMMA ScriptStays ==
    ASSUME NEW t \in Shells, ScriptFits(t), Grown,
           script'[t].kind = script[t].kind, script'[t].steps = script[t].steps, script'[t].buffer = script[t].buffer,
           script[t].buffer \in DOMAIN buffers => BufferKept(script[t].buffer)
    PROVE  ScriptFits(t)'
<1>1. CASE script[t].kind = "upgrade"
  <2>1. UpgradeFits(t) BY <1>1 DEF ScriptFits
  <2>2. done(t)' = done(t) BY DEF done
  <2>3. done(t)' \in 0..(Chunks + 7) /\ \A i \in DOMAIN script'[t].steps : script'[t].steps[i] = upgrade_steps[done(t)' + i]
    BY <2>1, <2>2 DEF UpgradeFits
  <2>4. IF done(t)' = 0 THEN script'[t].buffer = 0 ELSE script'[t].buffer \in DOMAIN buffers'
    BY <2>1, <2>2 DEF UpgradeFits, Grown
  <2>5. done(t)' \in 1..(Chunks + 1) =>
          buffers'[script'[t].buffer].authority = "member" /\ buffers'[script'[t].buffer].written = done(t)' - 1
    <3>1. SUFFICES ASSUME done(t) \in 1..(Chunks + 1)
                   PROVE buffers'[script[t].buffer].authority = "member" /\ buffers'[script[t].buffer].written = done(t) - 1
      BY <2>2
    <3>2. script[t].buffer \in DOMAIN buffers BY <2>1, <3>1, OwnerAssumption DEF UpgradeFits
    <3> QED BY <2>1, <3>1, <3>2 DEF UpgradeFits, BufferKept
  <2>6. UpgradeFits(t)' BY <2>3, <2>4, <2>5 DEF UpgradeFits, done, upgrade_steps, squads_steps
  <2> QED BY <1>1, <2>6 DEF ScriptFits
<1>2. CASE script[t].kind # "upgrade" BY <1>2 DEF ScriptFits, OtherFits, StepsOf
<1> QED BY <1>1, <1>2

LEMMA NoScriptFits ==
    ASSUME NEW s \in Shells, script'[s] = no_script
    PROVE  ScriptFits(s)'
<1>1. script'[s].kind = "none" /\ script'[s].buffer = 0 /\ script'[s].steps = <<>> BY DEF no_script
<1>2. script'[s].steps \in Seq(StepsOf("none")) BY <1>1
<1> QED BY <1>1, <1>2 DEF ScriptFits, OtherFits

LEMMA NoScriptState == no_script \in ScriptState
BY DEF no_script, ScriptState

\* The step that is next.
LEMMA StepAhead ==
    ASSUME NEW s \in Shells, script[s] \in ScriptState, ScriptFits(s), under_way(s)
    PROVE  /\ script[s].kind # "upgrade" => step(s) \in StepsOf(script[s].kind)
           /\ script[s].kind = "upgrade" =>
                /\ done(s) = 0 => step(s) = "create_buffer"
                /\ done(s) \in 1..Chunks => step(s) = "write"
                /\ done(s) = Chunks + 1 => step(s) = "set_buffer_authority"
                /\ done(s) > Chunks + 1 => step(s) \in SquadsSteps
<1> DEFINE q == script[s].steps
<1>1. q \in Seq({"create_buffer"} \cup Writing \cup SquadsSteps \cup LoneSteps) /\ q # <<>>
  BY DEF ScriptState, under_way
<1>2. CASE script[s].kind # "upgrade"
  <2>1. q \in Seq(StepsOf(script[s].kind)) BY <1>2 DEF ScriptFits, OtherFits
  <2> HIDE DEF q
  <2>2. Head(q) \in StepsOf(script[s].kind) BY <1>1, <2>1, StepsAhead
  <2> QED BY <1>2, <2>2 DEF step, q
<1>3. CASE script[s].kind = "upgrade"
  <2>1. UpgradeFits(s) BY <1>3 DEF ScriptFits
  <2>2. done(s) \in 0..(Chunks + 7) /\ \A i \in DOMAIN q : q[i] = upgrade_steps[done(s) + i] BY <2>1 DEF UpgradeFits
  <2> HIDE DEF q
  <2>3. Head(q) = q[1] /\ 1 \in DOMAIN q BY <1>1
  <2>4. Head(q) = upgrade_steps[done(s) + 1] BY <2>2, <2>3
  <2>5. done(s) + 1 \in 1..(Chunks + 8) /\ done(s) \in Nat BY <2>2, OwnerAssumption
  <2> HIDE DEF done
  <2>6. /\ done(s) + 1 = 1 => Head(q) = "create_buffer"
        /\ done(s) + 1 \in 2..(Chunks + 1) => Head(q) = "write"
        /\ done(s) + 1 = Chunks + 2 => Head(q) = "set_buffer_authority"
        /\ done(s) + 1 > Chunks + 2 => Head(q) \in SquadsSteps
    BY <2>4, <2>5, UpgradeSteps
  <2> QED BY <1>3, <2>5, <2>6, OwnerAssumption DEF step, q
<1> QED BY <1>2, <1>3

\* A script that goes on.
LEMMA AdvanceFits ==
    ASSUME NEW s \in Shells, script[s] \in ScriptState, ScriptFits(s), under_way(s), Len(script[s].steps) # 1,
           script'[s].kind = script[s].kind, script'[s].steps = Tail(script[s].steps),
           script[s].kind = "upgrade" =>
              /\ script'[s].buffer \in DOMAIN buffers'
              /\ done(s) \in 0..Chunks =>
                   buffers'[script'[s].buffer].authority = "member" /\ buffers'[script'[s].buffer].written = done(s),
           script[s].kind # "upgrade" => script'[s].buffer = 0
    PROVE  ScriptFits(s)'
<1> DEFINE q == script[s].steps
<1>1. q \in Seq({"create_buffer"} \cup Writing \cup SquadsSteps \cup LoneSteps) /\ q # <<>>
  BY DEF ScriptState, under_way
<1>2. CASE script[s].kind # "upgrade"
  <2>1. q \in Seq(StepsOf(script[s].kind)) BY <1>2 DEF ScriptFits, OtherFits
  <2> HIDE DEF q
  <2>2. Tail(q) \in Seq(StepsOf(script[s].kind)) BY <1>1, <2>1, StepsAhead
  <2> QED BY <1>2, <2>2 DEF ScriptFits, OtherFits, StepsOf, q
<1>3. CASE script[s].kind = "upgrade"
  <2> DEFINE d == done(s)
  <2>1. UpgradeFits(s) BY <1>3 DEF ScriptFits
  <2>2. d \in 0..(Chunks + 7) /\ \A i \in DOMAIN q : q[i] = upgrade_steps[d + i] BY <2>1 DEF UpgradeFits
  <2>3. d = Chunks + 8 - Len(q) /\ done(s)' = Chunks + 8 - Len(Tail(q)) BY DEF done
  <2>4. Len(q) # 1 OBVIOUS
  <2> HIDE DEF q, d
  <2>a. /\ Len(q) \in Nat \ {0} /\ Len(Tail(q)) = Len(q) - 1 /\ DOMAIN Tail(q) = 1..(Len(q) - 1)
        /\ \A i \in 1..(Len(q) - 1) : Tail(q)[i] = q[i + 1]
    BY <1>1, StepsAhead
  <2>b. DOMAIN q = 1..Len(q) BY <1>1
  <2>5. Len(q) \in Nat /\ Len(q) > 1 BY <2>a, <2>4
  <2>6. d \in Nat /\ done(s)' = d + 1 /\ d + 1 \in 1..(Chunks + 7) BY <2>2, <2>3, <2>5, <2>a, OwnerAssumption
  <2>7. \A i \in DOMAIN Tail(q) : Tail(q)[i] = upgrade_steps[(d + 1) + i]
    <3>1. TAKE i \in DOMAIN Tail(q)
    <3>2. i + 1 \in DOMAIN q /\ Tail(q)[i] = q[i + 1] /\ i \in Nat BY <2>5, <2>a, <2>b
    <3>3. d + (i + 1) = (d + 1) + i BY <2>6, <3>2
    <3> QED BY <2>2, <3>2, <3>3
  <2>8. d + 1 \in 1..(Chunks + 1) => d \in 0..Chunks /\ d + 1 - 1 = d BY <2>6, OwnerAssumption
  <2>9. script'[s].buffer \in DOMAIN buffers' BY <1>3
  <2>10. d \in 0..Chunks => buffers'[script'[s].buffer].authority = "member" /\ buffers'[script'[s].buffer].written = d
    BY <1>3 DEF d
  <2>11. script'[s].steps = Tail(q) BY DEF q
  <2>12. d + 1 # 0 BY <2>6
  <2>13. done(s)' \in 0..(Chunks + 7) /\ done(s)' # 0 BY <2>6
  <2>14. \A i \in DOMAIN script'[s].steps : script'[s].steps[i] = upgrade_steps[done(s)' + i] BY <2>6, <2>7, <2>11
  <2>15. done(s)' \in 1..(Chunks + 1) =>
           buffers'[script'[s].buffer].authority = "member" /\ buffers'[script'[s].buffer].written = done(s)' - 1
    BY <2>6, <2>8, <2>10
  <2>16. upgrade_steps' = upgrade_steps BY DEF upgrade_steps, squads_steps
  <2>17. UpgradeFits(s)'
    <3>1. UpgradeFits(s)' <=>
            /\ done(s)' \in 0..(Chunks + 7)
            /\ \A i \in DOMAIN script'[s].steps : script'[s].steps[i] = upgrade_steps'[done(s)' + i]
            /\ IF done(s)' = 0 THEN script'[s].buffer = 0 ELSE script'[s].buffer \in DOMAIN buffers'
            /\ done(s)' \in 1..(Chunks + 1) =>
                 buffers'[script'[s].buffer].authority = "member" /\ buffers'[script'[s].buffer].written = done(s)' - 1
      BY DEF UpgradeFits
    <3> QED BY <2>9, <2>13, <2>14, <2>15, <2>16, <3>1
  <2> QED BY <1>3, <2>17 DEF ScriptFits
<1> QED BY <1>2, <1>3

\* What a script sends fits, and is a step it has reached.
LEMMA SendFits ==
    ASSUME NEW s \in Shells, script[s] \in ScriptState, ScriptFits(s), under_way(s),
           NEW trx, trx = transaction(script[s])
    PROVE  /\ TxFits(trx) /\ trx.act = step(s) /\ trx.buffer = script[s].buffer
           /\ trx.act \in Writing \cup {"create_buffer"} => script[s].kind = "upgrade"
           /\ trx.act \in Writing => trx.buffer \in DOMAIN buffers
           /\ script[s].kind = "upgrade" => done(s) \in Nat
           /\ script[s].kind = "upgrade" /\ done(s) # 0 => script[s].buffer \in DOMAIN buffers
           /\ script[s].kind = "upgrade" /\ done(s) \in 1..Chunks =>
                buffers[trx.buffer].authority = "member" /\ buffers[trx.buffer].written = done(s) - 1
<1>1. /\ trx.act = step(s) /\ trx.buffer = script[s].buffer
      /\ trx.op = [kind |-> script[s].kind, buffer |-> script[s].buffer]
  BY DEF transaction, operation, step
<1>2. script[s].buffer \in Nat BY DEF ScriptState
<1>3. CASE script[s].kind # "upgrade"
  <2>1. step(s) \in StepsOf(script[s].kind) BY <1>3, StepAhead
  <2>2. step(s) \notin Writing /\ step(s) # "create_buffer"
    BY <2>1 DEF StepsOf, LoneSteps, SquadsSteps, Writing
  <2>3. step(s) = "vaultTransactionCreate" => script[s].kind \in {"rotate", "initialize_v2", "repair"}
    BY <2>1 DEF StepsOf, LoneSteps
  <2>4. trx.act \notin Writing /\ trx.act # "set_buffer_authority" BY <1>1, <2>2 DEF Writing
  <2>5. trx.act = "vaultTransactionCreate" => trx.op \in Operation BY <1>1, <1>2, <2>3 DEF Operation
  <2>6. trx.op.kind # "upgrade" BY <1>1, <1>3
  <2>7. TxFits(trx) BY <2>4, <2>5, <2>6 DEF TxFits, HasBuffer
  <2> QED BY <1>1, <1>3, <2>2, <2>7
<1>4. CASE script[s].kind = "upgrade"
  <2>1. UpgradeFits(s) BY <1>4 DEF ScriptFits
  <2>2. done(s) \in Nat /\ done(s) \in 0..(Chunks + 7) BY <2>1, OwnerAssumption DEF UpgradeFits
  <2>3. done(s) # 0 => script[s].buffer \in DOMAIN buffers BY <2>1 DEF UpgradeFits
  <2>4. done(s) \in 1..(Chunks + 1) =>
          buffers[script[s].buffer].authority = "member" /\ buffers[script[s].buffer].written = done(s) - 1
    BY <2>1 DEF UpgradeFits
  <2>5. /\ done(s) = 0 => step(s) = "create_buffer"
        /\ done(s) \in 1..Chunks => step(s) = "write"
        /\ done(s) = Chunks + 1 => step(s) = "set_buffer_authority"
        /\ done(s) > Chunks + 1 => step(s) \in SquadsSteps
    BY <1>4, StepAhead
  <2> HIDE DEF done
  <2>6. step(s) # "create_buffer" => done(s) # 0 BY <2>5
  <2>7. step(s) = "set_buffer_authority" => done(s) = Chunks + 1
    BY <2>2, <2>5, OwnerAssumption DEF SquadsSteps
  <2>8. step(s) = "set_buffer_authority" => buffers[trx.buffer].written = Chunks
    <3>1. SUFFICES ASSUME step(s) = "set_buffer_authority" PROVE buffers[trx.buffer].written = Chunks OBVIOUS
    <3>2. done(s) = Chunks + 1 BY <2>7, <3>1
    <3>3. done(s) \in 1..(Chunks + 1) /\ done(s) - 1 = Chunks BY <3>2, OwnerAssumption
    <3> QED BY <1>1, <2>4, <3>3
  <2>9. step(s) \in Writing => trx.buffer \in DOMAIN buffers BY <1>1, <2>3, <2>6 DEF Writing
  <2>10. step(s) = "vaultTransactionCreate" => trx.op \in Operation /\ HasBuffer(trx.op)
    BY <1>1, <1>2, <1>4, <2>3, <2>6 DEF Operation, HasBuffer
  <2>11. TxFits(trx) BY <1>1, <2>8, <2>9, <2>10 DEF TxFits
  <2>12. done(s) \in 1..Chunks => done(s) \in 1..(Chunks + 1) BY OwnerAssumption
  <2> QED BY <1>1, <1>4, <2>2, <2>3, <2>4, <2>9, <2>11, <2>12
<1> QED BY <1>3, <1>4

\* The buffers that scripts work on exist.
LEMMA BufferKnown ==
    ASSUME NEW s \in Shells, ScriptFits(s)
    PROVE  script[s].buffer \in {0} \cup DOMAIN buffers
BY DEF ScriptFits, UpgradeFits, OtherFits

\* How a script is left by what moves it on.
LEMMA Advanced ==
    ASSUME script \in [Shells -> ScriptState], NEW s \in Shells, under_way(s),
           NEW changed \in ScriptState, changed.steps = script[s].steps, advanced(s, changed)
    PROVE  /\ script' \in [Shells -> ScriptState]
           /\ \A t \in Shells \ {s} : script'[t] = script[t]
           /\ IF Len(script[s].steps) = 1 THEN script'[s] = no_script
              ELSE /\ script'[s].kind = changed.kind /\ script'[s].steps = Tail(script[s].steps)
                   /\ script'[s].buffer = changed.buffer
<1> DEFINE q == changed.steps
           new == [changed EXCEPT !.steps = Tail(q), !.sent = FALSE]
<1>1. q \in Seq({"create_buffer"} \cup Writing \cup SquadsSteps \cup LoneSteps) /\ q # <<>>
  BY DEF ScriptState, under_way
<1>2. script' = [script EXCEPT ![s] = IF Len(q) = 1 THEN no_script ELSE new] BY DEF advanced
<1>3. Tail(q) \in Seq({"create_buffer"} \cup Writing \cup SquadsSteps \cup LoneSteps)
  <2> HIDE DEF q
  <2> QED BY <1>1, StepsAhead
<1>4. new \in ScriptState /\ new.kind = changed.kind /\ new.steps = Tail(q) /\ new.buffer = changed.buffer
  <2> HIDE DEF q
  <2> QED BY <1>3 DEF ScriptState
<1>5. q = script[s].steps OBVIOUS
<1> HIDE DEF q, new
<1>6. script'[s] = IF Len(q) = 1 THEN no_script ELSE new BY <1>2
<1>7. script' \in [Shells -> ScriptState] /\ \A t \in Shells \ {s} : script'[t] = script[t]
  BY <1>2, <1>4, NoScriptState
<1> QED BY <1>4, <1>5, <1>6, <1>7

\* Steps of one script: the others, and what is late, still fit.
LEMMA OthersFit ==
    ASSUME ScriptsInv, NEW s \in Shells, \A t \in Shells \ {s} : script'[t] = script[t],
           Grown, \A b \in DOMAIN buffers : BufferKept(b) \/ b = script[s].buffer
    PROVE  (\A t \in Shells \ {s} : ScriptFits(t)') /\ (\A trx \in adrift : TxFits(trx)')
<1>1. Apart /\ ChainInv BY DEF ScriptsInv
<1>2. buffers \in Seq(BufferState) BY <1>1 DEF ChainInv, ChainType
<1>3. 0 \notin DOMAIN buffers BY <1>2
<1>4. ASSUME NEW t \in Shells \ {s} PROVE ScriptFits(t)'
  <2>1. ScriptFits(t) /\ script'[t] = script[t] BY DEF ScriptsInv
  <2>2. script[t].buffer \in DOMAIN buffers => script[t].buffer # script[s].buffer BY <1>1, <1>3 DEF Apart
  <2>3. script[t].buffer \in DOMAIN buffers => BufferKept(script[t].buffer) BY <2>2
  <2> QED BY <2>1, <2>3, ScriptStays
<1>5. ASSUME NEW trx \in adrift PROVE TxFits(trx)'
  <2>1. TxFits(trx) BY DEF ScriptsInv
  <2>2. trx.act = "set_buffer_authority" => trx.act \in Writing BY DEF Writing
  <2>3. trx.act = "set_buffer_authority" => trx.buffer \in DOMAIN buffers /\ trx.buffer # script[s].buffer
    BY <1>1, <2>1, <2>2 DEF Apart, TxFits
  <2>4. trx.act = "set_buffer_authority" => BufferKept(trx.buffer) BY <2>3
  <2> QED BY <1>1, <2>1, <2>4, TxStays
<1> QED BY <1>4, <1>5

\* A script keeps its buffer, gives it up, or gets one that nobody has.
LEMMA ApartStays ==
    ASSUME ScriptsInv, NEW s \in Shells, \A t \in Shells \ {s} : script'[t] = script[t],
           script'[s].buffer \in {script[s].buffer, 0, Len(buffers) + 1}, UNCHANGED adrift
    PROVE  Apart'
<1> DEFINE n == Len(buffers)
<1>1. Apart /\ ChainInv BY DEF ScriptsInv
<1>2. buffers \in Seq(BufferState) BY <1>1 DEF ChainInv, ChainType
<1>3. n \in Nat /\ DOMAIN buffers = 1..n BY <1>2
<1> HIDE DEF n
<1>4. \A t \in Shells : script[t].buffer \in {0} \cup DOMAIN buffers BY BufferKnown DEF ScriptsInv
<1>5. n + 1 \notin {0} \cup DOMAIN buffers BY <1>3
<1>6. \A trx \in adrift : trx.act \in Writing => trx.buffer \in DOMAIN buffers /\ trx.buffer # 0
  BY <1>3 DEF ScriptsInv, TxFits
<1>7. script'[s].buffer \in {script[s].buffer, 0, n + 1} BY DEF n
<1>8. ASSUME NEW t \in Shells, NEW u \in Shells, script'[t].buffer = script'[u].buffer, script'[t].buffer # 0
      PROVE t = u
  <2>1. \A v \in Shells : script'[v].buffer = script[v].buffer \/ (v = s /\ script'[v].buffer = 0)
                            \/ (v = s /\ script'[v].buffer = n + 1)
    BY <1>7
  <2>2. CASE t # s /\ u # s BY <1>1, <1>8, <2>2 DEF Apart
  <2>3. CASE t = s /\ u # s BY <1>1, <1>4, <1>5, <1>8, <2>1, <2>3 DEF Apart
  <2>4. CASE t # s /\ u = s BY <1>1, <1>4, <1>5, <1>8, <2>1, <2>4 DEF Apart
  <2> QED BY <2>2, <2>3, <2>4
<1>9. ASSUME NEW trx \in adrift, trx.act \in Writing, NEW t \in Shells
      PROVE script'[t].buffer # trx.buffer
  <2>1. script[t].buffer # trx.buffer BY <1>1, <1>9 DEF Apart
  <2>2. trx.buffer # 0 /\ trx.buffer # n + 1 BY <1>5, <1>6, <1>9
  <2> QED BY <1>7, <2>1, <2>2
<1> QED BY <1>1, <1>8, <1>9 DEF Apart

LEMMA StepKeeps ==
    ASSUME ScriptsInv, NEW s \in Shells, script' \in [Shells -> ScriptState],
           \A t \in Shells \ {s} : script'[t] = script[t], ScriptFits(s)',
           ChainInv', Grown, \A b \in DOMAIN buffers : BufferKept(b) \/ b = script[s].buffer,
           script'[s].buffer \in {script[s].buffer, 0, Len(buffers) + 1}, UNCHANGED adrift
    PROVE  ScriptsInv'
<1>1. (\A t \in Shells \ {s} : ScriptFits(t)') /\ (\A trx \in adrift : TxFits(trx)') BY OthersFit
<1>2. Apart' BY ApartStays
<1> QED BY <1>1, <1>2 DEF ScriptsInv

\* Steps that leave the chain alone.
LEMMA ChainStays ==
    ASSUME ScriptsInv, UNCHANGED <<squads, buffers, owned>>
    PROVE  ChainInv' /\ Grown /\ \A b \in DOMAIN buffers : BufferKept(b)
<1>1. ChainInv BY DEF ScriptsInv
<1>2. buffers \in Seq(BufferState) BY <1>1 DEF ChainInv, ChainType
<1>3. Len(buffers) \in Nat BY <1>2
<1>4. ChainInv' BY <1>1 DEF ChainInv, ChainType, WholeProgramOnly, BuffersWhole, HasBuffer
<1> QED BY <1>3, <1>4 DEF Grown, BufferKept

\* A script that ends.
LEMMA EndKeeps ==
    ASSUME ScriptsInv, NEW s \in Shells, script' = [script EXCEPT ![s] = no_script],
           UNCHANGED <<squads, buffers, owned, adrift>>
    PROVE  ScriptsInv'
<1>1. script \in [Shells -> ScriptState] BY DEF ScriptsInv
<1>2. script' \in [Shells -> ScriptState] /\ script'[s] = no_script /\ \A t \in Shells \ {s} : script'[t] = script[t]
  BY <1>1, NoScriptState
<1>3. ScriptFits(s)' BY <1>2, NoScriptFits
<1>4. script'[s].buffer = 0 BY <1>2 DEF no_script
<1>5. ChainInv' /\ Grown /\ \A b \in DOMAIN buffers : BufferKept(b) BY ChainStays
<1> QED BY <1>2, <1>3, <1>4, <1>5, StepKeeps

\* main(kind), the steps of the other kinds.
LEMMA OtherSteps ==
    ASSUME NEW kind \in ScriptKinds \ {"upgrade"}
    PROVE  main(kind) \in Seq(StepsOf(kind)) /\ main(kind) \in Seq(SquadsSteps \cup LoneSteps)
<1>1. <<>> \in Seq(LoneSteps) /\ squads_steps \in Seq(SquadsSteps) /\ <<"verify">> \in Seq(LoneSteps)
  BY DEF squads_steps, SquadsSteps, LoneSteps
<1>2. ASSUME NEW p \in Seq(LoneSteps \cup SquadsSteps), NEW q \in Seq(LoneSteps \cup SquadsSteps)
      PROVE p \o q \in Seq(LoneSteps \cup SquadsSteps)
  OBVIOUS
<1>3. squads_steps \in Seq(LoneSteps \cup SquadsSteps) /\ <<"verify">> \in Seq(LoneSteps \cup SquadsSteps)
      /\ <<"propose_owner">> \in Seq(LoneSteps \cup SquadsSteps) /\ <<>> \in Seq(LoneSteps \cup SquadsSteps)
  BY DEF squads_steps, SquadsSteps, LoneSteps
<1>4. squads_steps \o <<"verify">> \in Seq(LoneSteps \cup SquadsSteps) BY <1>2, <1>3
<1>5. CASE kind = "rotate"
  <2> DEFINE p == IF owned.pending = "squads" THEN <<>> ELSE <<"propose_owner">>
  <2>1. p \in Seq(LoneSteps \cup SquadsSteps) BY <1>3
  <2> HIDE DEF p
  <2>2. p \o squads_steps \in Seq(LoneSteps \cup SquadsSteps) BY <1>2, <1>3, <2>1
  <2>3. (p \o squads_steps) \o <<"verify">> \in Seq(LoneSteps \cup SquadsSteps) BY <1>2, <1>3, <2>2
  <2>4. main(kind) = (p \o squads_steps) \o <<"verify">> BY <1>5 DEF main, rotate_steps, p
  <2> QED BY <1>5, <2>3, <2>4 DEF StepsOf
<1>6. CASE kind = "initialize_v2" BY <1>3, <1>4, <1>6 DEF main, initialize_steps, StepsOf
<1>7. CASE kind = "repair" BY <1>3, <1>7 DEF main, repair_steps, StepsOf
<1>8. CASE kind \in {"rotate_mainnet", "treasury", "transfer"}
  <2>1. <<"update_allow_propose">> \in Seq(LoneSteps) BY DEF LoneSteps
  <2>2. treasury_steps \in Seq(LoneSteps)
    <3>1. ASSUME NEW act \in LoneSteps PROVE <<act, "verify">> \in Seq(LoneSteps) BY DEF LoneSteps
    <3>2. treasury_steps \in {<<"update_allow", "verify">>, <<"update", "verify">>, <<"allow", "verify">>, <<>>}
      BY DEF treasury_steps
    <3>3. "update_allow" \in LoneSteps /\ "update" \in LoneSteps /\ "allow" \in LoneSteps BY DEF LoneSteps
    <3> QED BY <1>1, <3>1, <3>2, <3>3
  <2>3. transfer_steps \in Seq(LoneSteps)
    <3>1. <<"set_upgrade_authority", "verify">> \in Seq(LoneSteps) BY DEF LoneSteps
    <3> QED BY <1>1, <3>1 DEF transfer_steps
  <2>4. main(kind) \in Seq(LoneSteps) BY <1>8, <2>1, <2>2, <2>3 DEF main, rotate_mainnet_steps
  <2>5. StepsOf(kind) = LoneSteps BY <1>8 DEF StepsOf
  <2> QED BY <2>4, <2>5
<1> QED BY <1>5, <1>6, <1>7, <1>8 DEF ScriptKinds

LEMMA StartKeeps ==
    ASSUME ScriptsInv, NEW s \in Shells, NEW kind \in ScriptKinds, start(s, kind)
    PROVE  ScriptsInv'
<1> DEFINE all == {"create_buffer"} \cup Writing \cup SquadsSteps \cup LoneSteps
           new == [no_script EXCEPT !.kind = kind, !.steps = main(kind)]
<1>1. script \in [Shells -> ScriptState] /\ script[s] = no_script BY DEF ScriptsInv, start
<1>2. script' = [script EXCEPT ![s] = new] /\ UNCHANGED <<squads, buffers, owned, adrift>> BY DEF start
<1>3. main(kind) \in Seq(all)
  <2>1. CASE kind = "upgrade" BY <2>1, UpgradeSteps DEF main
  <2>2. CASE kind # "upgrade" BY <2>2, OtherSteps
  <2> QED BY <2>1, <2>2
<1>4. new \in ScriptState /\ new.kind = kind /\ new.steps = main(kind) /\ new.buffer = 0
  <2>1. main(kind) \in Seq({"create_buffer"} \cup Writing \cup SquadsSteps \cup LoneSteps) BY <1>3
  <2> QED BY <2>1 DEF no_script, ScriptState
<1> HIDE DEF new, all
<1>5. script' \in [Shells -> ScriptState] /\ script'[s] = new /\ \A t \in Shells \ {s} : script'[t] = script[t]
  BY <1>1, <1>2, <1>4
<1>6. ScriptFits(s)'
  <2>1. CASE kind = "upgrade"
    <3>1. script'[s].steps = upgrade_steps /\ script'[s].buffer = 0 /\ script'[s].kind = "upgrade"
      BY <1>4, <1>5, <2>1 DEF main
    <3>2. Len(upgrade_steps) = Chunks + 8 /\ upgrade_steps \in Seq({"create_buffer"} \cup Writing \cup SquadsSteps)
      BY UpgradeSteps
    <3>3. DOMAIN upgrade_steps = 1..(Chunks + 8) BY <3>2
    <3>4. done(s)' = Chunks + 8 - Len(script'[s].steps) BY DEF done
    <3>5. done(s)' = 0 BY <3>1, <3>2, <3>4, OwnerAssumption
    <3>6. done(s)' \in 0..(Chunks + 7) /\ done(s)' \notin 1..(Chunks + 1) BY <3>5, OwnerAssumption
    <3>7. \A i \in DOMAIN upgrade_steps : i = 0 + i BY <3>3
    <3>8. upgrade_steps' = upgrade_steps BY DEF upgrade_steps, squads_steps
    <3>9. UpgradeFits(s)' <=>
            /\ done(s)' \in 0..(Chunks + 7)
            /\ \A i \in DOMAIN script'[s].steps : script'[s].steps[i] = upgrade_steps'[done(s)' + i]
            /\ IF done(s)' = 0 THEN script'[s].buffer = 0 ELSE script'[s].buffer \in DOMAIN buffers'
            /\ done(s)' \in 1..(Chunks + 1) =>
                 buffers'[script'[s].buffer].authority = "member" /\ buffers'[script'[s].buffer].written = done(s)' - 1
      BY DEF UpgradeFits
    <3>10. \A i \in DOMAIN script'[s].steps : script'[s].steps[i] = upgrade_steps'[done(s)' + i]
      BY <3>1, <3>5, <3>7, <3>8
    <3>11. UpgradeFits(s)' BY <3>1, <3>5, <3>6, <3>9, <3>10
    <3> QED BY <3>1, <3>11 DEF ScriptFits
  <2>2. CASE kind # "upgrade"
    <3>1. script'[s].steps \in Seq(StepsOf(kind)) BY <1>4, <1>5, <2>2, OtherSteps
    <3> QED BY <1>4, <1>5, <2>2, <3>1 DEF ScriptFits, OtherFits, StepsOf
  <2> QED BY <2>1, <2>2
<1>7. script'[s].buffer = 0 BY <1>4, <1>5
<1>8. ChainInv' /\ Grown /\ \A b \in DOMAIN buffers : BufferKept(b) BY <1>2, ChainStays
<1> QED BY <1>2, <1>5, <1>6, <1>7, <1>8, StepKeeps

LEMMA SendKeeps ==
    ASSUME ScriptsInv, NEW s \in Shells, send(s)
    PROVE  ScriptsInv'
<1>1. script \in [Shells -> ScriptState] /\ ScriptFits(s) BY DEF ScriptsInv
<1>2. script' = [script EXCEPT ![s].sent = TRUE] /\ UNCHANGED <<squads, buffers, owned, adrift>> BY DEF send
<1> DEFINE new == [script[s] EXCEPT !.sent = TRUE]
<1>3. /\ new \in ScriptState /\ new.kind = script[s].kind /\ new.steps = script[s].steps
      /\ new.buffer = script[s].buffer
  <2>1. script[s] \in ScriptState BY <1>1
  <2> QED BY <2>1 DEF ScriptState
<1>4. script' = [script EXCEPT ![s] = new] BY <1>2
<1> HIDE DEF new
<1>5. script' \in [Shells -> ScriptState] /\ script'[s] = new /\ \A t \in Shells \ {s} : script'[t] = script[t]
  BY <1>1, <1>3, <1>4
<1>6. ChainInv' /\ Grown /\ \A b \in DOMAIN buffers : BufferKept(b) BY <1>2, ChainStays
<1>7. script'[s].kind = script[s].kind /\ script'[s].steps = script[s].steps /\ script'[s].buffer = script[s].buffer
  BY <1>3, <1>5
<1>8. ScriptFits(s)' BY <1>1, <1>6, <1>7, ScriptStays
<1> QED BY <1>2, <1>5, <1>6, <1>7, <1>8, StepKeeps

LEMMA ReadIndexKeeps ==
    ASSUME ScriptsInv, NEW s \in Shells, read_index(s)
    PROVE  ScriptsInv'
<1> DEFINE changed == [script[s] EXCEPT !.index = squads.last + 1]
<1>1. script \in [Shells -> ScriptState] /\ script[s] \in ScriptState /\ ScriptFits(s) /\ ChainInv BY DEF ScriptsInv
<1>2. under_way(s) /\ step(s) = "read_index" /\ advanced(s, changed) /\ UNCHANGED <<squads, buffers, owned, adrift>>
  BY DEF read_index
<1>3. squads.last + 1 \in Nat
  <2>1. squads.ops \in Seq(Operation) /\ squads.last = Len(squads.ops) BY <1>1 DEF ChainInv, ChainType
  <2> QED BY <2>1
<1>4. /\ changed \in ScriptState /\ changed.steps = script[s].steps /\ changed.kind = script[s].kind
      /\ changed.buffer = script[s].buffer
  <2>1. PICK i \in Nat : i = squads.last + 1 BY <1>3
  <2>2. changed = [script[s] EXCEPT !.index = i] BY <2>1
  <2> HIDE DEF changed
  <2> QED BY <1>1, <2>1, <2>2 DEF ScriptState
<1> HIDE DEF changed
<1>5. /\ script' \in [Shells -> ScriptState] /\ \A t \in Shells \ {s} : script'[t] = script[t]
      /\ IF Len(script[s].steps) = 1 THEN script'[s] = no_script
         ELSE /\ script'[s].kind = changed.kind /\ script'[s].steps = Tail(script[s].steps)
              /\ script'[s].buffer = changed.buffer
  BY <1>1, <1>2, <1>4, Advanced
<1>6. ChainInv' /\ Grown /\ \A b \in DOMAIN buffers : BufferKept(b) BY <1>2, ChainStays
<1>7. CASE Len(script[s].steps) = 1
  <2>1. script'[s] = no_script BY <1>5, <1>7
  <2>2. script'[s].buffer = 0 BY <2>1 DEF no_script
  <2>3. ScriptFits(s)' BY <2>1, NoScriptFits
  <2> QED BY <1>2, <1>5, <1>6, <2>2, <2>3, StepKeeps
<1>8. CASE Len(script[s].steps) # 1
  <2>1. script'[s].kind = script[s].kind /\ script'[s].steps = Tail(script[s].steps) /\ script'[s].buffer = script[s].buffer
    BY <1>4, <1>5, <1>8
  <2>2. script[s].kind = "upgrade" => done(s) \notin 0..Chunks /\ script[s].buffer \in DOMAIN buffers
    <3>1. SUFFICES ASSUME script[s].kind = "upgrade" PROVE done(s) \notin 0..Chunks /\ script[s].buffer \in DOMAIN buffers
      OBVIOUS
    <3>2. PICK trx : trx = transaction(script[s]) OBVIOUS
    <3>3. done(s) \in Nat /\ (done(s) # 0 => script[s].buffer \in DOMAIN buffers)
      BY <1>1, <1>2, <3>1, <3>2, SendFits
    <3>4. done(s) # 0 /\ done(s) \notin 1..Chunks BY <1>1, <1>2, <3>1, StepAhead
    <3>5. done(s) \notin 0..Chunks BY <3>3, <3>4, OwnerAssumption
    <3> QED BY <3>3, <3>4, <3>5
  <2>3. script[s].kind # "upgrade" => script'[s].buffer = 0 BY <1>1, <2>1 DEF ScriptFits, OtherFits
  <2>4. script[s].kind = "upgrade" => script'[s].buffer \in DOMAIN buffers' BY <1>2, <2>1, <2>2
  <2>5. ScriptFits(s)' BY <1>1, <1>2, <1>8, <2>1, <2>2, <2>3, <2>4, AdvanceFits
  <2> QED BY <1>2, <1>5, <1>6, <2>1, <2>5, StepKeeps
<1> QED BY <1>7, <1>8

LEMMA VerifyKeeps ==
    ASSUME ScriptsInv, NEW s \in Shells, verify(s) \/ refused(s)
    PROVE  ScriptsInv'
BY EndKeeps DEF verify, refused

\* What a script's transaction does to the chain, if it is accepted.
LEMMA ConfirmedChain ==
    ASSUME ScriptsInv, NEW s \in Shells, under_way(s), NEW trx, trx = transaction(script[s]),
           IF chain_accepts(trx) THEN takes_effect(trx) ELSE UNCHANGED <<squads, buffers, owned>>
    PROVE  /\ ChainInv' /\ Grown /\ \A b \in DOMAIN buffers : BufferKept(b) \/ b = script[s].buffer
           /\ trx.act = "create_buffer" =>
                /\ Len(buffers) + 1 \in DOMAIN buffers'
                /\ buffers'[Len(buffers) + 1].written = 0 /\ buffers'[Len(buffers) + 1].authority = "member"
           /\ trx.act = "write" /\ chain_accepts(trx) =>
                /\ buffers'[trx.buffer].written = buffers[trx.buffer].written + 1
                /\ buffers'[trx.buffer].authority = "member"
<1>1. script[s] \in ScriptState /\ ScriptFits(s) /\ ChainInv BY DEF ScriptsInv
<1>2. TxFits(trx) /\ trx.buffer = script[s].buffer BY <1>1, SendFits
<1>3. CASE chain_accepts(trx)
  <2>1. takes_effect(trx) BY <1>3
  <2> QED BY <1>1, <1>2, <1>3, <2>1, EffectKeeps
<1>4. CASE ~chain_accepts(trx)
  <2>1. UNCHANGED <<squads, buffers, owned>> BY <1>4
  <2>2. trx.act # "create_buffer" BY <1>4 DEF chain_accepts, instructions
  <2>3. ChainInv' /\ Grown /\ \A b \in DOMAIN buffers : BufferKept(b) BY <2>1, ChainStays
  <2> QED BY <1>4, <2>2, <2>3
<1> QED BY <1>3, <1>4

LEMMA ConfirmedKeeps ==
    ASSUME ScriptsInv, NEW s \in Shells, confirmed(s)
    PROVE  ScriptsInv'
<1>1. script \in [Shells -> ScriptState] /\ script[s] \in ScriptState /\ ScriptFits(s) /\ ChainInv BY DEF ScriptsInv
<1>2. PICK trx : trx = transaction(script[s]) OBVIOUS
<1>3. PICK new : new = IF trx.act = "create_buffer" THEN Len(buffers) + 1 ELSE script[s].buffer OBVIOUS
<1> DEFINE changed == [script[s] EXCEPT !.buffer = new]
           n == Len(buffers)
<1>4. under_way(s) BY DEF confirmed, sends
<1>5. /\ IF chain_accepts(trx) THEN takes_effect(trx) ELSE UNCHANGED <<squads, buffers, owned>>
      /\ IF ~chain_accepts(trx) /\ looks_at_error(script[s].kind)
         THEN script' = [script EXCEPT ![s] = no_script]
         ELSE advanced(s, changed)
      /\ UNCHANGED adrift
  BY <1>2, <1>3 DEF confirmed
<1>6. CASE ~chain_accepts(trx) /\ looks_at_error(script[s].kind)
  <2>1. script' = [script EXCEPT ![s] = no_script] /\ UNCHANGED <<squads, buffers, owned, adrift>> BY <1>5, <1>6
  <2> QED BY <2>1, EndKeeps
<1>7. CASE advanced(s, changed)
  <2>1. n \in Nat
    <3>1. buffers \in Seq(BufferState) BY <1>1 DEF ChainInv, ChainType
    <3> QED BY <3>1
  <2>2. /\ ChainInv' /\ Grown /\ \A b \in DOMAIN buffers : BufferKept(b) \/ b = script[s].buffer
        /\ trx.act = "create_buffer" =>
             n + 1 \in DOMAIN buffers' /\ buffers'[n + 1].written = 0 /\ buffers'[n + 1].authority = "member"
        /\ trx.act = "write" /\ chain_accepts(trx) =>
             /\ buffers'[trx.buffer].written = buffers[trx.buffer].written + 1
             /\ buffers'[trx.buffer].authority = "member"
    BY <1>2, <1>4, <1>5, ConfirmedChain
  <2>3. /\ trx.act = step(s) /\ trx.buffer = script[s].buffer
        /\ trx.act \in Writing \cup {"create_buffer"} => script[s].kind = "upgrade"
        /\ script[s].kind = "upgrade" => done(s) \in Nat
        /\ script[s].kind = "upgrade" /\ done(s) # 0 => script[s].buffer \in DOMAIN buffers
        /\ script[s].kind = "upgrade" /\ done(s) \in 1..Chunks =>
             buffers[trx.buffer].authority = "member" /\ buffers[trx.buffer].written = done(s) - 1
    BY <1>1, <1>2, <1>4, SendFits
  <2> HIDE DEF n
  <2>4. new = IF trx.act = "create_buffer" THEN n + 1 ELSE script[s].buffer BY <1>3 DEF n
  <2>5. new \in Nat
    <3>1. script[s].buffer \in Nat BY <1>1 DEF ScriptState
    <3> QED BY <2>1, <2>4, <3>1
  <2>6. /\ changed \in ScriptState /\ changed.steps = script[s].steps /\ changed.kind = script[s].kind
        /\ changed.buffer = new
    BY <1>1, <2>5 DEF ScriptState
  <2> HIDE DEF changed
  <2>7. /\ script' \in [Shells -> ScriptState] /\ \A t \in Shells \ {s} : script'[t] = script[t]
        /\ IF Len(script[s].steps) = 1 THEN script'[s] = no_script
           ELSE /\ script'[s].kind = changed.kind /\ script'[s].steps = Tail(script[s].steps)
                /\ script'[s].buffer = changed.buffer
    BY <1>1, <1>4, <1>7, <2>6, Advanced
  <2>8. CASE Len(script[s].steps) = 1
    <3>1. script'[s] = no_script BY <2>7, <2>8
    <3>2. script'[s].buffer = 0 BY <3>1 DEF no_script
    <3>3. ScriptFits(s)' BY <3>1, NoScriptFits
    <3> QED BY <1>5, <2>2, <2>7, <3>2, <3>3, StepKeeps
  <2>9. CASE Len(script[s].steps) # 1
    <3>1. script'[s].kind = script[s].kind /\ script'[s].steps = Tail(script[s].steps) /\ script'[s].buffer = new
      BY <2>6, <2>7, <2>9
    <3>2. script'[s].buffer \in {script[s].buffer, 0, Len(buffers) + 1} BY <2>4, <3>1 DEF n
    <3>3. script[s].kind # "upgrade" => script'[s].buffer = 0
      <4>1. SUFFICES ASSUME script[s].kind # "upgrade" PROVE new = 0 BY <3>1
      <4>2. script[s].buffer = 0 BY <1>1, <4>1 DEF ScriptFits, OtherFits
      <4>3. trx.act # "create_buffer" BY <2>3, <4>1
      <4> QED BY <2>4, <4>2, <4>3
    <3>4. ASSUME script[s].kind = "upgrade"
          PROVE /\ new \in DOMAIN buffers'
                /\ done(s) \in 0..Chunks => buffers'[new].authority = "member" /\ buffers'[new].written = done(s)
      <4>1. /\ done(s) = 0 => step(s) = "create_buffer"
            /\ done(s) \in 1..Chunks => step(s) = "write"
            /\ done(s) = Chunks + 1 => step(s) = "set_buffer_authority"
            /\ done(s) > Chunks + 1 => step(s) \in SquadsSteps
        BY <1>1, <1>4, <3>4, StepAhead
      <4>2. done(s) \in Nat BY <2>3, <3>4
      <4>3. CASE done(s) = 0
        <5>1. trx.act = "create_buffer" /\ new = n + 1 BY <2>3, <2>4, <4>1, <4>3
        <5> QED BY <2>2, <4>3, <5>1
      <4>4. CASE done(s) \in 1..Chunks
        <5>1. trx.act = "write" /\ new = script[s].buffer /\ new = trx.buffer BY <2>3, <2>4, <4>1, <4>4
        <5>2. new \in DOMAIN buffers /\ buffers[new].authority = "member" /\ buffers[new].written = done(s) - 1
          BY <2>3, <3>4, <4>4, <5>1
        <5>3. chain_accepts(trx) BY <5>1, <5>2 DEF chain_accepts, instructions
        <5>4. buffers'[new].written = (done(s) - 1) + 1 /\ buffers'[new].authority = "member"
          BY <2>2, <5>1, <5>2, <5>3
        <5>5. (done(s) - 1) + 1 = done(s) BY <4>2
        <5> QED BY <2>2, <5>2, <5>4, <5>5 DEF Grown
      <4>5. CASE done(s) > Chunks
        <5>1. step(s) # "create_buffer" BY <4>1, <4>2, <4>5, OwnerAssumption DEF SquadsSteps
        <5>2. new = script[s].buffer BY <2>3, <2>4, <5>1
        <5>3. done(s) # 0 /\ done(s) \notin 0..Chunks BY <4>2, <4>5, OwnerAssumption
        <5> QED BY <2>2, <2>3, <3>4, <5>2, <5>3 DEF Grown
      <4> QED BY <4>2, <4>3, <4>4, <4>5, OwnerAssumption
    <3>5. ScriptFits(s)' BY <1>1, <1>4, <2>9, <3>1, <3>3, <3>4, AdvanceFits
    <3> QED BY <1>5, <2>2, <2>7, <3>2, <3>5, StepKeeps
  <2> QED BY <2>8, <2>9
<1> QED BY <1>5, <1>6, <1>7

\* A script gives up: its transaction may be late, and its buffer is nobody's.
LEMMA TimesOutKeeps ==
    ASSUME ScriptsInv, NEW s \in Shells, times_out(s)
    PROVE  ScriptsInv'
<1>1. script \in [Shells -> ScriptState] /\ script[s] \in ScriptState /\ ScriptFits(s) /\ Apart BY DEF ScriptsInv
<1>2. PICK trx : trx = transaction(script[s]) OBVIOUS
<1>3. /\ under_way(s) /\ script' = [script EXCEPT ![s] = no_script] /\ UNCHANGED <<squads, buffers, owned>>
      /\ adrift' \in {adrift, adrift \cup {trx}}
  BY <1>2 DEF times_out, sends, after_timeout
<1>4. script' \in [Shells -> ScriptState] /\ script'[s] = no_script /\ \A t \in Shells \ {s} : script'[t] = script[t]
  BY <1>1, <1>3, NoScriptState
<1>5. ScriptFits(s)' BY <1>4, NoScriptFits
<1>6. ChainInv' /\ Grown /\ \A b \in DOMAIN buffers : BufferKept(b) BY <1>3, ChainStays
<1>7. (\A t \in Shells \ {s} : ScriptFits(t)') /\ (\A ty \in adrift : TxFits(ty)') BY <1>4, <1>6, OthersFit
<1>8. TxFits(trx) /\ trx.buffer = script[s].buffer /\ (trx.act \in Writing => trx.buffer \in DOMAIN buffers)
  BY <1>1, <1>2, <1>3, SendFits
<1>9. TxFits(trx)'
  <2>1. ChainInv BY DEF ScriptsInv
  <2>2. trx.act = "set_buffer_authority" => BufferKept(trx.buffer) BY <1>6, <1>8 DEF Writing
  <2> QED BY <1>6, <1>8, <2>1, <2>2, TxStays
<1>10. \A ty \in adrift' : TxFits(ty)' BY <1>3, <1>7, <1>9
<1>11. script'[s].buffer = 0 BY <1>4 DEF no_script
<1>12. 0 \notin DOMAIN buffers
  <2>1. buffers \in Seq(BufferState) BY DEF ScriptsInv, ChainInv, ChainType
  <2> QED BY <2>1
<1>13. \A ty \in adrift : ty.act \in Writing => ty.buffer \in DOMAIN buffers BY DEF ScriptsInv, TxFits
<1>14. Apart'
  <2>1. ASSUME NEW t \in Shells, NEW u \in Shells, script'[t].buffer = script'[u].buffer, script'[t].buffer # 0
        PROVE t = u
    <3>1. t # s /\ u # s BY <1>11, <2>1
    <3> QED BY <1>1, <1>4, <2>1, <3>1 DEF Apart
  <2>2. ASSUME NEW ty \in adrift', ty.act \in Writing, NEW t \in Shells PROVE script'[t].buffer # ty.buffer
    <3>1. CASE t = s BY <1>3, <1>8, <1>11, <1>12, <1>13, <2>2, <3>1
    <3>2. CASE t # s /\ ty \in adrift BY <1>1, <1>4, <2>2, <3>2 DEF Apart
    <3>3. CASE t # s /\ ty = trx
      <4>1. script'[t].buffer = script[t].buffer /\ ty.buffer = script[s].buffer /\ script[s].buffer # 0
        BY <1>4, <1>8, <1>12, <2>2, <3>3
      <4> QED BY <1>1, <3>3, <4>1 DEF Apart
    <3> QED BY <1>3, <2>2, <3>1, <3>2, <3>3
  <2>3. ASSUME NEW ty \in adrift', ty.act \in Writing, NEW tz \in adrift', tz.act \in Writing, tz.buffer = ty.buffer
        PROVE tz = ty
    <3>1. CASE ty \in adrift /\ tz \in adrift BY <1>1, <2>3, <3>1 DEF Apart
    <3>2. CASE ty \in adrift /\ tz = trx BY <1>1, <1>8, <2>3, <3>2 DEF Apart
    <3>3. CASE ty = trx /\ tz \in adrift BY <1>1, <1>8, <2>3, <3>3 DEF Apart
    <3> QED BY <1>3, <2>3, <3>1, <3>2, <3>3
  <2> QED BY <2>1, <2>2, <2>3 DEF Apart
<1> QED BY <1>4, <1>5, <1>6, <1>7, <1>10, <1>14 DEF ScriptsInv

LEMMA LateKeeps ==
    ASSUME ScriptsInv, NEW trx \in adrift, late(trx)
    PROVE  ScriptsInv'
<1>1. ChainInv /\ TxFits(trx) /\ Apart /\ script \in [Shells -> ScriptState] BY DEF ScriptsInv
<1>2. adrift' = adrift \ {trx} /\ UNCHANGED script BY DEF late
<1>3. /\ ChainInv' /\ Grown
      /\ \A b \in DOMAIN buffers : BufferKept(b) \/ (trx.act \in Writing /\ b = trx.buffer)
  <2>1. CASE chain_accepts(trx)
    <3>1. takes_effect(trx) BY <2>1 DEF late
    <3> QED BY <1>1, <2>1, <3>1, EffectKeeps
  <2>2. CASE ~chain_accepts(trx)
    <3>1. UNCHANGED <<squads, buffers, owned>> BY <2>2 DEF late
    <3> QED BY <3>1, ChainStays
  <2> QED BY <2>1, <2>2
<1>4. ASSUME NEW t \in Shells PROVE ScriptFits(t)'
  <2>1. ScriptFits(t) BY DEF ScriptsInv
  <2>2. trx.act \in Writing => script[t].buffer # trx.buffer BY <1>1 DEF Apart
  <2>3. script[t].buffer \in DOMAIN buffers => BufferKept(script[t].buffer) BY <1>3, <2>2
  <2>4. script'[t].kind = script[t].kind /\ script'[t].steps = script[t].steps /\ script'[t].buffer = script[t].buffer
    BY <1>2
  <2> QED BY <1>3, <2>1, <2>3, <2>4, ScriptStays
<1>5. ASSUME NEW ty \in adrift \ {trx} PROVE TxFits(ty)'
  <2>1. TxFits(ty) BY DEF ScriptsInv
  <2>2. ty.act = "set_buffer_authority" => ty.act \in Writing /\ ty.buffer \in DOMAIN buffers
    BY <2>1 DEF Writing, TxFits
  <2>3. ty.act = "set_buffer_authority" => BufferKept(ty.buffer) BY <1>1, <1>3, <2>2 DEF Apart
  <2> QED BY <1>1, <1>3, <2>1, <2>3, TxStays
<1>6. Apart' BY <1>1, <1>2 DEF Apart
<1>7. \A ty \in adrift' : TxFits(ty)' BY <1>2, <1>5
<1>8. script' \in [Shells -> ScriptState] BY <1>1, <1>2
<1> QED BY <1>3, <1>4, <1>6, <1>7, <1>8 DEF ScriptsInv

LEMMA ScriptsInitInv == ScriptsInit => ScriptsInv
<1> SUFFICES ASSUME ScriptsInit PROVE ScriptsInv OBVIOUS
<1>1. script = [s \in Shells |-> no_script] /\ buffers = <<>> /\ adrift = {} BY DEF ScriptsInit
<1>2. script \in [Shells -> ScriptState] BY <1>1, NoScriptState
<1>3. squads = [last |-> 0, ops |-> <<>>, votes |-> <<>>, state |-> <<>>] BY DEF ScriptsInit
<1>4. "program" \in DOMAIN owned /\ owned.program = "whole" BY DEF ScriptsInit
<1>5. /\ DOMAIN squads = {"last", "ops", "votes", "state"} /\ squads.ops = <<>> /\ squads.last = 0 BY <1>3
<1>6. ChainType BY <1>1, <1>4, <1>5 DEF ChainType
<1>7. ChainInv BY <1>1, <1>4, <1>5, <1>6 DEF ChainInv, WholeProgramOnly, BuffersWhole
<1>8. ASSUME NEW s \in Shells PROVE ScriptFits(s)
  <2>1. script[s].kind = "none" /\ script[s].buffer = 0 /\ script[s].steps = <<>> BY <1>1 DEF no_script
  <2>2. script[s].steps \in Seq(StepsOf("none")) BY <2>1
  <2> QED BY <2>1, <2>2 DEF ScriptFits, OtherFits
<1>9. Apart BY <1>1 DEF Apart, no_script
<1> QED BY <1>1, <1>2, <1>7, <1>8, <1>9 DEF ScriptsInv

LEMMA ScriptsNextInv == ScriptsInv /\ [ScriptsNext]_scriptVars => ScriptsInv'
<1> SUFFICES ASSUME ScriptsInv, [ScriptsNext]_scriptVars PROVE ScriptsInv' OBVIOUS
<1>1. CASE UNCHANGED scriptVars
  <2>1. UNCHANGED <<script, squads, buffers, owned, adrift>> BY <1>1 DEF scriptVars
  <2>2. ChainInv' /\ Grown /\ \A b \in DOMAIN buffers : BufferKept(b) BY <2>1, ChainStays
  <2>3. \A s \in Shells : ScriptFits(s)' BY <2>1, <2>2, ScriptStays DEF ScriptsInv
  <2>4. \A trx \in adrift : TxFits(trx)'
    <3>1. TAKE trx \in adrift
    <3>2. ChainInv /\ TxFits(trx) BY DEF ScriptsInv
    <3>3. trx.act = "set_buffer_authority" => BufferKept(trx.buffer) BY <2>2, <3>2 DEF TxFits, Writing
    <3> QED BY <2>2, <3>2, <3>3, TxStays
  <2>5. Apart' BY <2>1 DEF ScriptsInv, Apart
  <2> QED BY <2>1, <2>2, <2>3, <2>4, <2>5 DEF ScriptsInv
<1>2. ASSUME NEW s \in Shells, NEW kind \in ScriptKinds, start(s, kind) PROVE ScriptsInv' BY <1>2, StartKeeps
<1>3. ASSUME NEW s \in Shells, read_index(s) PROVE ScriptsInv' BY <1>3, ReadIndexKeeps
<1>4. ASSUME NEW s \in Shells, send(s) PROVE ScriptsInv' BY <1>4, SendKeeps
<1>5. ASSUME NEW s \in Shells, refused(s) PROVE ScriptsInv' BY <1>5, VerifyKeeps
<1>6. ASSUME NEW s \in Shells, confirmed(s) PROVE ScriptsInv' BY <1>6, ConfirmedKeeps
<1>7. ASSUME NEW s \in Shells, times_out(s) PROVE ScriptsInv' BY <1>7, TimesOutKeeps
<1>8. ASSUME NEW s \in Shells, verify(s) PROVE ScriptsInv' BY <1>8, VerifyKeeps
<1>9. ASSUME NEW trx \in adrift, late(trx) PROVE ScriptsInv' BY <1>9, LateKeeps
<1> QED BY <1>1, <1>2, <1>3, <1>4, <1>5, <1>6, <1>7, <1>8, <1>9 DEF ScriptsNext

\* The program is replaced by complete builds only, whatever scripts run beside
\* each other, are given up, run again or have transactions land late
\* (upgrade-program-via-squads.ts, lib/squads.ts).
THEOREM WholeProgramsOnly == ScriptsSpec => []WholeProgramOnly
<1>1. ScriptsInv => WholeProgramOnly BY DEF ScriptsInv, ChainInv
<1> QED BY <1>1, ScriptsInitInv, ScriptsNextInv, PTL DEF ScriptsSpec

-----------------------------------------------------------------------------
(* LpPoints *)

PointsType ==
    /\ hour \in 1..MaxHour
    /\ position \in [Owners -> [value : Values, pending : BOOLEAN]]
    /\ accrual \in [Owners -> [e15 : Nat, last_hour : 0..MaxHour]]
    /\ ledger \in [Owners -> [1..MaxHour -> Nat]]
    /\ hourly \in [Replicas -> [hour : 0..MaxHour, todo : SUBSET [owner : Owners, value : Nat],
                                stopped : SUBSET Owners, errors : BOOLEAN]]

\* What the account of an owner says of his points: nothing is awarded for an
\* hour after the last, and no hour that counts was one a run had stopped him in.
Accrued(o) ==
    /\ Total(ledger[o], MaxHour) = accrual[o].e15 \div E15
    /\ \A h \in 1..MaxHour : h > accrual[o].last_hour => ledger[o][h] = 0
    /\ \A c \in counted[o] : c.hour \in Nat /\ c.hour <= accrual[o].last_hour /\ ~c.late
    /\ \A c, d \in counted[o] : c.hour = d.hour => c = d

\* The hour of a run is behind every owner it found pending, or it has him still
\* to stamp, or it will be run again.
Stamps(r) ==
    \A o \in hourly[r].stopped :
        \/ hourly[r].errors
        \/ \E it \in hourly[r].todo : it.owner = o
        \/ hourly[r].hour <= accrual[o].last_hour

PointsInv ==
    /\ PointsType
    /\ counted = [o \in Owners |-> counted[o]]
    /\ \A o \in Owners : Accrued(o)
    /\ \A r \in Replicas : Stamps(r)
    /\ \A o \in Owners, h \in 0..MaxHour : <<o, h>> \in stopped => h <= accrual[o].last_hour

\* An hour that counts adds the points newly crossed, and one that does not, nothing.
LEMMA AwardAdds ==
    ASSUME NEW prev \in Nat, NEW value \in Nat
    PROVE  /\ award(prev, value) \in Nat /\ prev + value \in Nat /\ prev \div E15 \in Nat
           /\ prev \div E15 + award(prev, value) = (prev + value) \div E15
<1>1. E15 \in Nat \ {0} BY PointsAssumption
<1>2. /\ prev \div E15 \in Nat /\ (prev + value) \div E15 \in Nat
      /\ prev \div E15 <= (prev + value) \div E15
  BY <1>1
<1> QED BY <1>2 DEF award
LEMMA CreditKeeps ==
    ASSUME PointsInv, NEW o \in Owners, NEW h \in 0..MaxHour, NEW value \in Nat,
           credit_hour(o, h, value), UNCHANGED stopped
    PROVE  /\ accrual' \in [Owners -> [e15 : Nat, last_hour : 0..MaxHour]]
           /\ ledger' \in [Owners -> [1..MaxHour -> Nat]]
           /\ counted' = [x \in Owners |-> counted'[x]]
           /\ \A x \in Owners : Accrued(x)' /\ accrual[x].last_hour <= accrual'[x].last_hour
           /\ h <= accrual'[o].last_hour
<1>1. PointsType /\ Accrued(o) /\ counted = [x \in Owners |-> counted[x]] BY DEF PointsInv
<1>2. /\ accrual \in [Owners -> [e15 : Nat, last_hour : 0..MaxHour]]
      /\ ledger \in [Owners -> [1..MaxHour -> Nat]]
  BY <1>1 DEF PointsType
<1>3. MaxHour \in Nat BY PointsAssumption
<1>4. CASE ~not_counted(o, h)
  <2>1. UNCHANGED <<accrual, ledger, counted>> BY <1>4 DEF credit_hour
  <2>2. h <= accrual[o].last_hour BY <1>2, <1>3, <1>4 DEF not_counted
  <2>3. \A x \in Owners : Accrued(x)' BY <2>1 DEF PointsInv, Accrued
  <2>4. \A x \in Owners : accrual[x].last_hour <= accrual'[x].last_hour BY <1>2, <1>3, <2>1
  <2> QED BY <1>1, <1>2, <2>1, <2>2, <2>3, <2>4
<1>5. CASE not_counted(o, h)
  <2> DEFINE e == accrual[o].e15
             last == accrual[o].last_hour
             gain == award(e, value)
             sum == e + value
             stale == <<o, h>> \in stopped
             c0 == [hour |-> h, value |-> value, before |-> e, late |-> stale]
  <2>1. e \in Nat /\ last \in 0..MaxHour /\ last < h /\ h \in 1..MaxHour BY <1>2, <1>3, <1>5 DEF not_counted
  <2>2. ledger[o][h] = 0 BY <1>1, <2>1 DEF Accrued
  <2>3. gain \in Nat /\ sum \in Nat /\ e \div E15 \in Nat /\ e \div E15 + gain = sum \div E15 BY <2>1, AwardAdds
  <2>4. /\ accrual' = [accrual EXCEPT ![o] = [e15 |-> sum, last_hour |-> h]]
        /\ ledger' = [ledger EXCEPT ![o][h] = IF @ = 0 THEN gain ELSE @]
        /\ counted' = [counted EXCEPT ![o] = @ \cup {c0}]
    BY <1>5 DEF credit_hour
  <2>5. ~stale
    <3>1. ASSUME stale PROVE h <= last BY <3>1 DEF PointsInv
    <3> QED BY <1>3, <2>1, <3>1
  <2>6. c0.hour = h /\ ~c0.late BY <2>5
  <2> HIDE DEF gain, sum, c0, e, last, stale
  <2>7. accrual' \in [Owners -> [e15 : Nat, last_hour : 0..MaxHour]] BY <1>2, <2>1, <2>3, <2>4
  <2>8. /\ accrual'[o].e15 = sum /\ accrual'[o].last_hour = h
        /\ \A x \in Owners \ {o} : accrual'[x] = accrual[x]
    BY <1>2, <2>4
  <2>9. /\ ledger' \in [Owners -> [1..MaxHour -> Nat]]
        /\ ledger'[o][h] = gain /\ \A i \in 1..MaxHour \ {h} : ledger'[o][i] = ledger[o][i]
        /\ \A x \in Owners \ {o} : ledger'[x] = ledger[x]
    BY <1>2, <2>1, <2>2, <2>3, <2>4
  <2>10. /\ counted' = [x \in Owners |-> counted'[x]]
         /\ counted'[o] = counted[o] \cup {c0} /\ \A x \in Owners \ {o} : counted'[x] = counted[x]
    BY <1>1, <2>4
  <2>11. Accrued(o)'
    <3>1. Total(ledger'[o], MaxHour) = accrual'[o].e15 \div E15
      <4> DEFINE f == ledger[o]
                 g == ledger'[o]
      <4>1. f \in [1..MaxHour -> Nat] /\ g \in [1..MaxHour -> Nat] /\ \A i \in 1..MaxHour \ {h} : g[i] = f[i]
        BY <1>2, <2>9
      <4>2. f[h] = 0 /\ g[h] = gain BY <2>2, <2>9
      <4>3. Total(f, MaxHour) = e \div E15 BY <1>1 DEF Accrued, e
      <4> HIDE DEF f, g
      <4>4. Total(g, MaxHour) = Total(f, MaxHour) - f[h] + g[h] BY <1>3, <2>1, <4>1, TotalUpdate
      <4>5. Total(g, MaxHour) = sum \div E15 BY <2>3, <4>2, <4>3, <4>4
      <4> QED BY <2>8, <4>5 DEF g
    <3>2. \A i \in 1..MaxHour : i > h => ledger'[o][i] = 0
      <4>1. ASSUME NEW i \in 1..MaxHour, i > h PROVE ledger'[o][i] = 0
        <5>1. i > last /\ i # h BY <1>3, <2>1, <4>1
        <5>2. ledger[o][i] = 0 BY <1>1, <5>1 DEF Accrued, last
        <5> QED BY <2>9, <5>1, <5>2
      <4> QED BY <4>1
    <3>3. \A c \in counted[o] : c.hour \in Nat /\ c.hour < h /\ ~c.late
      <4>1. \A c \in counted[o] : c.hour \in Nat /\ c.hour <= last /\ ~c.late BY <1>1 DEF Accrued, last
      <4> QED BY <2>1, <4>1
    <3>4. \A c \in counted'[o] : c.hour \in Nat /\ c.hour <= h /\ ~c.late BY <2>1, <2>6, <2>10, <3>3
    <3>5. \A c, d \in counted'[o] : c.hour = d.hour => c = d
      <4>1. \A c, d \in counted[o] : c.hour = d.hour => c = d BY <1>1 DEF Accrued
      <4>2. \A c \in counted[o] : c.hour # h BY <2>1, <3>3
      <4> QED BY <2>6, <2>10, <4>1, <4>2
    <3> QED BY <2>8, <3>1, <3>2, <3>4, <3>5 DEF Accrued
  <2>12. ASSUME NEW x \in Owners \ {o} PROVE Accrued(x)' /\ accrual[x].last_hour <= accrual'[x].last_hour
    <3>1. accrual'[x] = accrual[x] /\ ledger'[x] = ledger[x] /\ counted'[x] = counted[x] BY <2>8, <2>9, <2>10
    <3>2. Accrued(x) BY DEF PointsInv
    <3>3. accrual[x].last_hour \in Nat BY <1>2, <1>3
    <3> QED BY <3>1, <3>2, <3>3 DEF Accrued
  <2>13. accrual[o].last_hour <= accrual'[o].last_hour BY <1>3, <2>1, <2>8 DEF last
  <2>14. h <= accrual'[o].last_hour BY <2>1, <2>8
  <2> QED BY <2>7, <2>9, <2>10, <2>11, <2>12, <2>13, <2>14
<1> QED BY <1>4, <1>5
\* A credit of a run: what it had to stamp is stamped, or will be again.
LEMMA CreditStep ==
    ASSUME PointsInv, NEW r \in Replicas, NEW it \in hourly[r].todo, NEW failed \in BOOLEAN,
           hourly' = [hourly EXCEPT ![r].todo = @ \ {it}, ![r].errors = @ \/ failed],
           credit_hour(it.owner, hourly[r].hour, it.value) \/ (failed /\ UNCHANGED <<accrual, ledger, counted>>),
           UNCHANGED <<hour, position, stopped>>
    PROVE  PointsInv'
<1> DEFINE o == it.owner
           h == hourly[r].hour
           new == [hourly[r] EXCEPT !.todo = @ \ {it}, !.errors = @ \/ failed]
<1>1. PointsType /\ MaxHour \in Nat BY PointsAssumption DEF PointsInv
<1>2. hourly \in [Replicas -> [hour : 0..MaxHour, todo : SUBSET [owner : Owners, value : Nat],
                              stopped : SUBSET Owners, errors : BOOLEAN]]
  BY <1>1 DEF PointsType
<1>3. o \in Owners /\ it.value \in Nat /\ h \in 0..MaxHour BY <1>2
<1>4. hourly' = [hourly EXCEPT ![r] = new] BY <1>2
<1>5. /\ new.hour = h /\ new.todo = hourly[r].todo \ {it} /\ new.stopped = hourly[r].stopped
      /\ (failed \/ hourly[r].errors => new.errors)
      /\ new \in [hour : 0..MaxHour, todo : SUBSET [owner : Owners, value : Nat],
                  stopped : SUBSET Owners, errors : BOOLEAN]
  <2> DEFINE e == hourly[r].errors \/ failed
             td == hourly[r].todo \ {it}
  <2>1. e \in BOOLEAN /\ (failed \/ hourly[r].errors => e) /\ td \in SUBSET [owner : Owners, value : Nat] BY <1>2
  <2>2. hourly[r] \in [hour : 0..MaxHour, todo : SUBSET [owner : Owners, value : Nat],
                       stopped : SUBSET Owners, errors : BOOLEAN] BY <1>2
  <2>3. new = [hourly[r] EXCEPT !.todo = td, !.errors = e] OBVIOUS
  <2> HIDE DEF e, td, new
  <2> QED BY <2>1, <2>2, <2>3 DEF td
<1>6. /\ accrual' \in [Owners -> [e15 : Nat, last_hour : 0..MaxHour]]
      /\ ledger' \in [Owners -> [1..MaxHour -> Nat]]
      /\ counted' = [x \in Owners |-> counted'[x]]
      /\ \A x \in Owners : Accrued(x)' /\ accrual[x].last_hour <= accrual'[x].last_hour
      /\ failed \/ h <= accrual'[o].last_hour
  <2>1. CASE credit_hour(o, h, it.value) BY <1>3, <2>1, CreditKeeps
  <2>2. CASE failed /\ UNCHANGED <<accrual, ledger, counted>>
    <3>1. \A x \in Owners : Accrued(x)' BY <2>2 DEF PointsInv, Accrued
    <3>2. \A x \in Owners : accrual[x].last_hour <= accrual'[x].last_hour BY <1>1, <2>2 DEF PointsType
    <3> QED BY <1>1, <2>2, <3>1, <3>2 DEF PointsType, PointsInv
  <2> QED BY <2>1, <2>2
<1> HIDE DEF new
<1>7. PointsType' BY <1>1, <1>2, <1>4, <1>5, <1>6 DEF PointsType
<1>8. \A x \in Owners : accrual[x].last_hour \in Nat /\ accrual'[x].last_hour \in Nat BY <1>1, <1>6 DEF PointsType
<1>9. ASSUME NEW q \in Replicas PROVE Stamps(q)'
  <2>1. CASE q # r
    <3>1. hourly'[q] = hourly[q] /\ hourly[q].hour \in Nat /\ hourly[q].stopped \subseteq Owners BY <1>1, <1>2, <1>4, <2>1
    <3>2. Stamps(q) BY DEF PointsInv
    <3>3. ASSUME NEW x \in hourly[q].stopped, hourly[q].hour <= accrual[x].last_hour
          PROVE  hourly[q].hour <= accrual'[x].last_hour
      <4>1. x \in Owners BY <3>1
      <4>2. accrual[x].last_hour <= accrual'[x].last_hour BY <1>6, <4>1
      <4> QED BY <1>8, <3>1, <3>3, <4>1, <4>2
    <3> QED BY <3>1, <3>2, <3>3 DEF Stamps
  <2>2. CASE q = r
    <3>1. hourly'[r] = new BY <1>2, <1>4
    <3>2. ASSUME NEW x \in new.stopped
          PROVE new.errors \/ (\E jt \in new.todo : jt.owner = x) \/ new.hour <= accrual'[x].last_hour
      <4>1. x \in hourly[r].stopped /\ x \in Owners BY <1>2, <1>5, <3>2
      <4>2. hourly[r].errors \/ (\E jt \in hourly[r].todo : jt.owner = x) \/ h <= accrual[x].last_hour
        BY <4>1 DEF PointsInv, Stamps
      <4>3. CASE hourly[r].errors \/ failed BY <1>5, <4>3
      <4>4. CASE h <= accrual[x].last_hour
        <5>1. h \in Nat BY <1>1, <1>3
        <5>2. h <= accrual'[x].last_hour BY <1>6, <1>8, <4>1, <4>4, <5>1
        <5> QED BY <1>5, <5>2
      <4>5. CASE ~failed /\ \E jt \in hourly[r].todo : jt.owner = x
        <5>1. PICK jt \in hourly[r].todo : jt.owner = x BY <4>5
        <5>2. CASE jt = it BY <1>5, <1>6, <4>5, <5>1, <5>2
        <5>3. CASE jt # it BY <1>5, <5>1, <5>3
        <5> QED BY <5>2, <5>3
      <4> QED BY <4>2, <4>3, <4>4, <4>5
    <3> QED BY <2>2, <3>1, <3>2 DEF Stamps
  <2> QED BY <2>1, <2>2
<1>10. \A x \in Owners, i \in 0..MaxHour : <<x, i>> \in stopped' => i <= accrual'[x].last_hour
  <2>1. TAKE x \in Owners, i \in 0..MaxHour
  <2>2. <<x, i>> \in stopped => i <= accrual[x].last_hour BY DEF PointsInv
  <2>3. i \in Nat BY <1>1
  <2> QED BY <1>6, <1>8, <2>2, <2>3
<1> QED BY <1>6, <1>7, <1>9, <1>10 DEF PointsInv

\* Steps that change no account of points.
LEMMA PointsAside ==
    ASSUME PointsInv, UNCHANGED <<accrual, ledger, counted>>, PointsType',
           \A r \in Replicas : Stamps(r)',
           \A o \in Owners, h \in 0..MaxHour : <<o, h>> \in stopped' => h <= accrual[o].last_hour
    PROVE  PointsInv'
<1>1. \A o \in Owners : Accrued(o)' BY DEF PointsInv, Accrued
<1> QED BY <1>1 DEF PointsInv

LEMMA PointsInitInv == PointsInit => PointsInv
<1> SUFFICES ASSUME PointsInit PROVE PointsInv OBVIOUS
<1>1. MaxHour \in Nat \ {0} /\ E15 \in Nat \ {0} /\ Values \subseteq Nat BY PointsAssumption
<1>2. hourly = [r \in Replicas |-> no_run] /\ accrual = [o \in Owners |-> [e15 |-> 0, last_hour |-> NoHour]]
      /\ counted = [o \in Owners |-> {}] /\ stopped = {} /\ ledger = [o \in Owners |-> [h \in 1..MaxHour |-> 0]]
      /\ hour = 1 /\ position \in [Owners -> [value: Values, pending: {FALSE}]]
  BY DEF PointsInit
<1>3. no_run \in [hour : 0..MaxHour, todo : SUBSET [owner : Owners, value : Nat], stopped : SUBSET Owners, errors : BOOLEAN]
  BY <1>1 DEF no_run, NoHour
<1>4. position \in [Owners -> [value : Values, pending : BOOLEAN]] BY <1>2
<1>5. PointsType BY <1>1, <1>2, <1>3, <1>4 DEF PointsType, NoHour
<1>6. ASSUME NEW o \in Owners PROVE Accrued(o)
  <2> DEFINE f == [h \in 1..MaxHour |-> 0]
  <2>1. f \in [1..MaxHour -> Nat] /\ \A h \in 1..MaxHour : f[h] = 0 OBVIOUS
  <2> HIDE DEF f
  <2>2. Total(f, MaxHour) = 0 BY <1>1, <2>1, TotalZero
  <2>3. 0 \div E15 = 0 BY <1>1
  <2>4. ledger[o] = f /\ accrual[o].e15 = 0 /\ counted[o] = {} BY <1>2 DEF f
  <2> QED BY <2>1, <2>2, <2>3, <2>4 DEF Accrued
<1>7. \A r \in Replicas : Stamps(r) BY <1>2 DEF Stamps, no_run
<1> QED BY <1>2, <1>5, <1>6, <1>7 DEF PointsInv

LEMMA PointsNextInv == PointsInv /\ [PointsNext]_lpPointsVars => PointsInv'
<1> SUFFICES ASSUME PointsInv, [PointsNext]_lpPointsVars PROVE PointsInv' OBVIOUS
<1> DEFINE RunState == [hour : 0..MaxHour, todo : SUBSET [owner : Owners, value : Nat],
                        stopped : SUBSET Owners, errors : BOOLEAN]
<1>0. PointsType /\ MaxHour \in Nat \ {0} /\ Values \subseteq Nat BY PointsAssumption DEF PointsInv
<1>a. hourly \in [Replicas -> RunState] /\ position \in [Owners -> [value : Values, pending : BOOLEAN]]
  BY <1>0 DEF PointsType
<1>b. \A o \in Owners, h \in 0..MaxHour : <<o, h>> \in stopped => h <= accrual[o].last_hour BY DEF PointsInv
<1>1. CASE UNCHANGED lpPointsVars
  <2>1. UNCHANGED <<accrual, ledger, counted>> /\ UNCHANGED <<hour, position, hourly, stopped>> BY <1>1 DEF lpPointsVars
  <2>2. PointsType' BY <1>0, <2>1 DEF PointsType
  <2>3. \A r \in Replicas : Stamps(r)' BY <2>1 DEF PointsInv, Stamps
  <2> QED BY <1>b, <2>1, <2>2, <2>3, PointsAside
<1>2. CASE hour_passes
  <2>1. UNCHANGED <<accrual, ledger, counted>> /\ UNCHANGED <<position, hourly, stopped>>
        /\ hour' = hour + 1 /\ hour < MaxHour BY <1>2 DEF hour_passes
  <2>2. PointsType' BY <1>0, <2>1 DEF PointsType
  <2>3. \A r \in Replicas : Stamps(r)' BY <2>1 DEF PointsInv, Stamps
  <2> QED BY <1>b, <2>1, <2>2, <2>3, PointsAside
<1>3. ASSUME NEW o \in Owners, asks_out(o) \/ takes_back(o) PROVE PointsInv'
  <2>1. UNCHANGED <<accrual, ledger, counted>> /\ UNCHANGED <<hour, hourly, stopped>>
    BY <1>3 DEF asks_out, takes_back
  <2>2. position' \in [Owners -> [value : Values, pending : BOOLEAN]] BY <1>3, <1>a DEF asks_out, takes_back
  <2>3. PointsType' BY <1>0, <2>1, <2>2 DEF PointsType
  <2>4. \A r \in Replicas : Stamps(r)' BY <2>1 DEF PointsInv, Stamps
  <2> QED BY <1>b, <2>1, <2>3, <2>4, PointsAside
<1>4. ASSUME NEW r \in Replicas, read_snapshot(r) PROVE PointsInv'
  <2> DEFINE new == [hour |-> hour, todo |-> work_list, stopped |-> pending_owners, errors |-> FALSE]
  <2>1. UNCHANGED <<accrual, ledger, counted>> /\ UNCHANGED <<hour, position, stopped>>
        /\ hourly' = [hourly EXCEPT ![r] = new]
    BY <1>4 DEF read_snapshot
  <2>2. work_list \subseteq [owner : Owners, value : Nat]
    <3>1. ASSUME NEW o \in Owners, NEW v \in Nat PROVE item(o, v) \in [owner : Owners, value : Nat] BY DEF item
    <3>2. \A o \in Owners : position[o].value \in Nat BY <1>0, <1>a
    <3>3. earning \subseteq [owner : Owners, value : Nat]
      <4> SUFFICES ASSUME NEW e \in earning PROVE e \in [owner : Owners, value : Nat] OBVIOUS
      <4>2. PICK o \in Owners \ pending_owners : e = item(o, position[o].value) BY DEF earning
      <4> QED BY <3>1, <3>2, <4>2
    <3>4. stamped \subseteq [owner : Owners, value : Nat]
      <4> SUFFICES ASSUME NEW e \in stamped PROVE e \in [owner : Owners, value : Nat] OBVIOUS
      <4>2. PICK o \in pending_owners : e = item(o, 0) BY DEF stamped
      <4>3. o \in Owners BY <4>2 DEF pending_owners
      <4> QED BY <3>1, <4>2, <4>3
    <3> QED BY <3>3, <3>4 DEF work_list
  <2>3. pending_owners \subseteq Owners /\ hour \in 0..MaxHour BY <1>0 DEF pending_owners, PointsType
  <2>4. ASSUME NEW o \in pending_owners PROVE \E it \in work_list : it.owner = o
    <3>1. item(o, 0) \in work_list BY DEF work_list, stamped
    <3>2. item(o, 0).owner = o BY DEF item
    <3> QED BY <3>1, <3>2
  <2>5. new \in RunState /\ new.todo = work_list /\ new.stopped = pending_owners BY <2>2, <2>3
  <2> HIDE DEF new, RunState
  <2>6. /\ hourly' \in [Replicas -> RunState] /\ hourly'[r] = new
        /\ \A q \in Replicas \ {r} : hourly'[q] = hourly[q]
    BY <1>a, <2>1, <2>5
  <2>7. PointsType' BY <1>0, <2>1, <2>6 DEF PointsType, RunState
  <2>8. Stamps(r)' BY <2>4, <2>5, <2>6 DEF Stamps
  <2>9. \A q \in Replicas \ {r} : Stamps(q)' BY <2>1, <2>6 DEF PointsInv, Stamps
  <2>10. \A q \in Replicas : Stamps(q)' BY <2>8, <2>9
  <2> QED BY <1>b, <2>1, <2>7, <2>10, PointsAside
<1>5. ASSUME NEW r \in Replicas, end_run(r) PROVE PointsInv'
  <2>1. UNCHANGED <<accrual, ledger, counted>> /\ UNCHANGED <<hour, position>>
        /\ hourly' = [hourly EXCEPT ![r] = no_run]
        /\ hourly[r].todo = {}
        /\ \/ hourly[r].errors /\ UNCHANGED stopped
           \/ ~hourly[r].errors /\ stopped' = stopped \cup (hourly[r].stopped \X {hourly[r].hour})
    BY <1>5 DEF end_run
  <2>2. no_run \in RunState BY <1>0 DEF no_run, NoHour
  <2>3. /\ hourly' \in [Replicas -> RunState] /\ hourly'[r] = no_run
        /\ \A q \in Replicas \ {r} : hourly'[q] = hourly[q]
    <3> HIDE DEF RunState
    <3> QED BY <1>a, <2>1, <2>2
  <2>4. PointsType' BY <1>0, <2>1, <2>3 DEF PointsType
  <2>5. Stamps(r)' BY <2>3 DEF Stamps, no_run
  <2>6. \A q \in Replicas \ {r} : Stamps(q)' BY <2>1, <2>3 DEF PointsInv, Stamps
  <2>7. ASSUME ~hourly[r].errors, NEW o \in hourly[r].stopped PROVE hourly[r].hour <= accrual[o].last_hour
    BY <2>1, <2>7 DEF PointsInv, Stamps
  <2>8. \A o \in Owners, h \in 0..MaxHour : <<o, h>> \in stopped' => h <= accrual[o].last_hour BY <1>b, <2>1, <2>7
  <2>9. \A q \in Replicas : Stamps(q)' BY <2>5, <2>6
  <2> QED BY <2>1, <2>4, <2>8, <2>9, PointsAside
<1>6. ASSUME NEW r \in Replicas, replica_restarts(r) PROVE PointsInv'
  <2>1. UNCHANGED <<accrual, ledger, counted>> /\ UNCHANGED <<hour, position, stopped>>
        /\ hourly' = [hourly EXCEPT ![r] = no_run]
    BY <1>6 DEF replica_restarts
  <2>2. no_run \in RunState BY <1>0 DEF no_run, NoHour
  <2>3. /\ hourly' \in [Replicas -> RunState] /\ hourly'[r] = no_run
        /\ \A q \in Replicas \ {r} : hourly'[q] = hourly[q]
    <3> HIDE DEF RunState
    <3> QED BY <1>a, <2>1, <2>2
  <2>4. PointsType' BY <1>0, <2>1, <2>3 DEF PointsType
  <2>5. Stamps(r)' BY <2>3 DEF Stamps, no_run
  <2>6. \A q \in Replicas \ {r} : Stamps(q)' BY <2>1, <2>3 DEF PointsInv, Stamps
  <2>7. \A q \in Replicas : Stamps(q)' BY <2>5, <2>6
  <2> QED BY <1>b, <2>1, <2>4, <2>7, PointsAside
<1>7. ASSUME NEW r \in Replicas, NEW it \in hourly[r].todo, creditLpHour(r, it) PROVE PointsInv'
  <2>1. /\ hourly' = [hourly EXCEPT ![r].todo = @ \ {it}] /\ UNCHANGED <<hour, position, stopped>>
        /\ credit_hour(it.owner, hourly[r].hour, it.value)
    BY <1>7 DEF creditLpHour
  <2>2. hourly' = [hourly EXCEPT ![r].todo = @ \ {it}, ![r].errors = @ \/ FALSE]
    <3>1. hourly[r].errors \in BOOLEAN BY <1>a
    <3>2. (hourly[r].errors \/ FALSE) = hourly[r].errors BY <3>1
    <3>3. [hourly[r] EXCEPT !.todo = @ \ {it}] = [hourly[r] EXCEPT !.todo = @ \ {it}, !.errors = hourly[r].errors]
      BY <1>a
    <3> QED BY <1>a, <2>1, <3>2, <3>3
  <2> QED BY <2>1, <2>2, CreditStep
<1>8. ASSUME NEW r \in Replicas, NEW it \in hourly[r].todo, credit_throws(r, it) PROVE PointsInv'
  <2>1. /\ hourly' = [hourly EXCEPT ![r].todo = @ \ {it}, ![r].errors = TRUE] /\ UNCHANGED <<hour, position, stopped>>
        /\ credit_hour(it.owner, hourly[r].hour, it.value) \/ UNCHANGED <<accrual, ledger, counted>>
    BY <1>8 DEF credit_throws
  <2>2. hourly' = [hourly EXCEPT ![r].todo = @ \ {it}, ![r].errors = @ \/ TRUE] BY <2>1
  <2> QED BY <2>1, <2>2, CreditStep
<1> QED BY <1>1, <1>2, <1>3, <1>4, <1>5, <1>6, <1>7, <1>8 DEF PointsNext, HourlyRun

\* What an owner was awarded is the whole points of the hours that count for him,
\* each hour once (lp-points-pass.ts, accrue and creditLpHour).
THEOREM PointsAreExact == PointsSpec => []PointsExact
<1>1. PointsInv => PointsExact BY DEF PointsInv, Accrued, PointsExact
<1> QED BY <1>1, PointsInitInv, PointsNextInv, PTL DEF PointsSpec

\* Once a run has found a withdrawal pending, no other run of the hour gives that
\* hour a value (lp-points-pass.ts).
THEOREM StoppedHoursEarnNothing == PointsSpec => []StoppedEarnsNothing
<1>1. PointsInv => StoppedEarnsNothing BY DEF PointsInv, Accrued, StoppedEarnsNothing
<1> QED BY <1>1, PointsInitInv, PointsNextInv, PTL DEF PointsSpec

-----------------------------------------------------------------------------
(* GameMirror *)

GameRow == [sig : Nat \ {0}, account : Nat, game : Nat \ {Pending}, slot : Nat \ {0}, layout : Nat, settle : Nat]

\* The row of a game is the one its last transaction writes.
RowOf(g, trx) ==
    trx.kind # "settled" /\ g.sig = trx.sig /\ g.account = trx.account /\ g.game = trx.game /\ g.slot = trx.slot

\* What each ingest has taken on: the kind of the transaction is the statement it is at.
IngestTask == [at : {"idle", "ended", "settled", "points", "release"}, tx : Settlements \cup {no_tx}]

Task(q) ==
    /\ q.at # "idle" => q.tx \in Settlements
    /\ q.at \in {"ended", "settled"} => q.tx.kind = q.at

RowsType ==
    /\ games \subseteq GameRow /\ IsFiniteSet(games)
    /\ \A g \in games : \E trx \in Settlements : RowOf(g, trx)
    /\ \A g, h \in games : g.sig = h.sig => g = h
    /\ ingest \in [Workers -> IngestTask]
    /\ \A w \in Workers : Task(ingest[w])
    /\ seen \subseteq Settlements /\ mishaps \in Nat

\* Unless a settlement was taken by an earlier game, a row has what its own game left.
OwnLayouts == strays = {} => \A g \in games : g.layout \in {Pending, g.game} /\ g.settle \in {Pending, g.game}

\* As long as nothing failed, a row is written once: its transaction is claimed for
\* good, and of those that are being written no other ingest has the same one.
WrittenOnce ==
    mishaps = 0 =>
        /\ \A g \in games : \E trx \in seen : RowOf(g, trx)
        /\ \A g \in games : g.layout = Pending => g.settle = Pending
        /\ \A w \in Workers : ingest[w].at = "release" => ingest[w].tx.kind = "settled"
        /\ \A w \in Workers : ingest[w].at = "ended" =>
              /\ ingest[w].tx \in seen /\ \A g \in games : g.sig # ingest[w].tx.sig
              /\ \A v \in Workers \ {w} : ingest[v].at = "ended" => ingest[v].tx # ingest[w].tx

\* A game that was there when the backfill began has its points, or their insert failed,
\* or the run has yet to come to it: on its page, or after a page that was full.
covered == backfill.failed \cup {p.sig : p \in points}

BackfillState == [at : {"idle", "read", "rows", "ended"}, cursor : Nat, page : SUBSET Nat, missing : Nat, hardLimit : Nat,
             found : SUBSET Nat, failed : SUBSET Nat, runs : Nat]

NothingSkipped ==
    /\ backfill \in BackfillState
    /\ \A x \in backfill.found : \E g \in games : g.sig = x
    /\ backfill.at = "read" => \A x \in backfill.found \ covered : x > backfill.cursor
    /\ backfill.at = "rows" => \A x \in backfill.found \ covered :
          /\ x > backfill.cursor
          /\ x \in backfill.page \/ (Cardinality(backfill.page) = PAGE /\ \A y \in backfill.page : y < x)
    /\ backfill.at = "ended" /\ backfill.missing < backfill.hardLimit => backfill.found \subseteq covered
    /\ \A p, q \in points : p.sig = q.sig => p = q

GamesInv == RowsType /\ OwnLayouts /\ WrittenOnce /\ NothingSkipped

-----------------------------------------------------------------------------

\* A settlement that finds the row of its game there finds no other.
LEMMA OwnRow ==
    ASSUME RowsType, NEW trx \in Settlements, trx.kind = "settled",
           NEW g \in unsettled(trx), \A h \in unsettled(trx) : h.slot <= g.slot,
           NEW r \in games, r.game = trx.game
    PROVE  g = r
<1>1. PICK e \in Settlements : RowOf(r, e) BY DEF RowsType
<1>2. g \in games /\ g.account = trx.account /\ g.slot <= trx.slot /\ g.layout = Pending
      /\ \A h \in earlier(trx) : h.layout # Pending => h.slot < g.slot
  BY DEF unsettled, earlier
<1>3. PICK f \in Settlements : RowOf(g, f) BY <1>2 DEF RowsType
<1>4. e.kind # "settled" /\ f.kind # "settled" /\ e.game = trx.game /\ f.account = trx.account /\ f.slot <= trx.slot
      /\ r.account = e.account /\ r.slot = e.slot /\ g.slot = f.slot /\ r.sig = e.sig /\ g.sig = f.sig
  BY <1>1, <1>2, <1>3 DEF RowOf
<1>5. e.account = trx.account /\ e.slot <= trx.slot /\ (f = e \/ f.slot < e.slot) BY <1>4, SettlementsAssumption
<1>6. r \in earlier(trx) BY <1>4, <1>5 DEF earlier
<1>7. e.slot \in Nat /\ f.slot \in Nat BY SettlementsAssumption
<1>8. f = e
  <2>1. SUFFICES ASSUME f.slot < e.slot PROVE FALSE BY <1>5
  <2>2. g.slot < r.slot BY <1>4, <2>1
  <2>3. r.layout = Pending BY <1>2, <1>4, <1>6, <1>7, <2>2
  <2>4. \A h \in earlier(trx) : h.layout # Pending => h.slot < r.slot
    <3>1. TAKE h \in earlier(trx)
    <3>2. h.slot \in Nat BY DEF earlier, RowsType, GameRow
    <3> QED BY <1>2, <1>4, <1>7, <2>2, <3>2
  <2>5. r \in unsettled(trx) BY <1>6, <2>3, <2>4 DEF unsettled
  <2> QED BY <1>4, <1>7, <2>2, <2>5
<1> QED BY <1>2, <1>4, <1>8 DEF RowsType

\* A settlement keeps the rows what they are, and gives its layout to its own game.
LEMMA SettlementKeeps ==
    ASSUME RowsType, NEW trx \in Settlements, trx.kind = "settled", idx_apply_game_settled(trx)
    PROVE  /\ games' \subseteq GameRow /\ IsFiniteSet(games')
           /\ \A g \in games' : \E h \in games :
                 /\ g.sig = h.sig /\ g.account = h.account /\ g.game = h.game /\ g.slot = h.slot
                 /\ \/ g = h
                    \/ g.layout = trx.game /\ g.settle = trx.game /\ (trx.game \in strays' \/ g.game = trx.game)
           /\ \A h \in games : \E g \in games' : g.sig = h.sig
           /\ \A g, h \in games' : g.sig = h.sig => g = h
           /\ strays \subseteq strays'
<1>1. CASE UNCHANGED <<games, strays>>
  <2>1. games' = games /\ strays' = strays BY <1>1
  <2> QED BY <2>1 DEF RowsType
<1>2. ASSUME NEW g \in unsettled(trx), \A h \in unsettled(trx) : h.slot <= g.slot,
             games' = (games \ {g}) \cup {[g EXCEPT !.layout = trx.game, !.settle = trx.game]},
             strays' = strays \cup (IF \E h \in games : h.game = trx.game THEN {} ELSE {trx.game})
      PROVE  /\ games' \subseteq GameRow /\ IsFiniteSet(games')
             /\ \A x \in games' : \E h \in games :
                   /\ x.sig = h.sig /\ x.account = h.account /\ x.game = h.game /\ x.slot = h.slot
                   /\ \/ x = h
                      \/ x.layout = trx.game /\ x.settle = trx.game /\ (trx.game \in strays' \/ x.game = trx.game)
             /\ \A h \in games : \E x \in games' : x.sig = h.sig
             /\ \A x, h \in games' : x.sig = h.sig => x = h
             /\ strays \subseteq strays'
  <2> DEFINE n == [g EXCEPT !.layout = trx.game, !.settle = trx.game]
  <2>1. g \in games /\ g \in GameRow BY DEF unsettled, earlier, RowsType
  <2>2. trx.game \in Nat BY SettlementsAssumption
  <2>3. n \in GameRow /\ n.sig = g.sig /\ n.account = g.account /\ n.game = g.game /\ n.slot = g.slot
        /\ n.layout = trx.game /\ n.settle = trx.game
    BY <2>1, <2>2 DEF GameRow
  <2>4. games' = (games \ {g}) \cup {n} BY <1>2
  <2>5. trx.game \in strays' \/ n.game = trx.game
    <3>1. CASE \E h \in games : h.game = trx.game
      <4>1. PICK h \in games : h.game = trx.game BY <3>1
      <4>2. g = h BY <1>2, <4>1, OwnRow
      <4> QED BY <2>3, <4>1, <4>2
    <3>2. CASE ~\E h \in games : h.game = trx.game BY <1>2, <3>2
    <3> QED BY <3>1, <3>2
  <2> HIDE DEF n
  <2>6. IsFiniteSet(games')
    <3>1. IsFiniteSet(games \ {g}) BY FS_Subset DEF RowsType
    <3> QED BY <2>4, <3>1, FS_AddElement
  <2>7. games' \subseteq GameRow BY <2>3, <2>4 DEF RowsType
  <2>8. \A h \in games : \E x \in games' : x.sig = h.sig BY <2>1, <2>3, <2>4
  <2>9. \A x, h \in games' : x.sig = h.sig => x = h BY <2>1, <2>3, <2>4 DEF RowsType
  <2>10. ASSUME NEW x \in games'
         PROVE  \E h \in games :
                   /\ x.sig = h.sig /\ x.account = h.account /\ x.game = h.game /\ x.slot = h.slot
                   /\ x = h \/ (x.layout = trx.game /\ x.settle = trx.game /\ (trx.game \in strays' \/ x.game = trx.game))
    BY <2>1, <2>3, <2>4, <2>5
  <2> QED BY <1>2, <2>6, <2>7, <2>8, <2>9, <2>10
<1> QED BY <1>1, <1>2 DEF idx_apply_game_settled

\* An upsert writes the row of its transaction, keeping what it points to, and leaves the others.
LEMMA UpsertKeeps ==
    ASSUME RowsType, NEW trx \in Settlements, trx.kind # "settled", games' = upserted(trx)
    PROVE  /\ games' \subseteq GameRow /\ IsFiniteSet(games')
           /\ \A g \in games' :
                 \/ g \in games /\ g.sig # trx.sig
                 \/ /\ RowOf(g, trx) /\ g.layout = Pending
                    /\ \/ g.settle = Pending
                       \/ \E h \in games : h.sig = trx.sig /\ h.game = g.game /\ h.settle = g.settle
           /\ \A h \in games : \E g \in games' : g.sig = h.sig
           /\ \A g, h \in games' : g.sig = h.sig => g = h
<1> DEFINE s == pointer(trx.sig)
           n == new_row(trx, s)
           rest == {g \in games : g.sig # trx.sig}
<1>1. s \in Nat /\ (s = Pending \/ \E h \in games : h.sig = trx.sig /\ h.settle = s)
  <2> DEFINE rows == {g \in games : g.sig = trx.sig}
  <2>1. CASE rows = {} BY <2>1 DEF pointer, Pending
  <2>2. CASE rows # {}
    <3>1. PICK h \in rows : h = CHOOSE g \in rows : TRUE BY <2>2
    <3>2. s = h.settle BY <2>2, <3>1 DEF pointer
    <3>3. h \in games /\ h.sig = trx.sig /\ h.settle \in Nat BY DEF RowsType, GameRow
    <3> QED BY <3>2, <3>3
  <2> QED BY <2>1, <2>2
<1>2. trx.sig \in Nat \ {0} /\ trx.account \in Nat /\ trx.game \in Nat \ {Pending} /\ trx.slot \in Nat \ {0}
  BY SettlementsAssumption
<1> HIDE DEF s
<1>3. n \in GameRow /\ RowOf(n, trx) /\ n.layout = Pending /\ n.settle = s
  BY <1>1, <1>2 DEF new_row, GameRow, RowOf, Pending
<1>4. n.sig = trx.sig /\ n.game = trx.game BY <1>3 DEF RowOf
<1> HIDE DEF n
<1>5. games' = rest \cup {n} BY DEF upserted, n, s
<1>6. IsFiniteSet(games')
  <2>1. IsFiniteSet(rest) BY FS_Subset DEF RowsType
  <2> QED BY <1>5, <2>1, FS_AddElement
<1>7. games' \subseteq GameRow BY <1>3, <1>5 DEF RowsType
<1>8. \A h \in games : \E g \in games' : g.sig = h.sig BY <1>4, <1>5
<1>9. \A g, h \in games' : g.sig = h.sig => g = h BY <1>4, <1>5 DEF RowsType
<1>10. \A h \in games : h.sig = trx.sig => h.game = trx.game
  <2>1. TAKE h \in games
  <2>2. PICK e \in Settlements : RowOf(h, e) BY DEF RowsType
  <2>3. h.sig = trx.sig => e = trx BY <2>2, SettlementsAssumption DEF RowOf
  <2> QED BY <2>2, <2>3 DEF RowOf
<1>11. ASSUME NEW g \in games'
       PROVE  \/ g \in games /\ g.sig # trx.sig
              \/ /\ RowOf(g, trx) /\ g.layout = Pending
                 /\ g.settle = Pending \/ \E h \in games : h.sig = trx.sig /\ h.game = g.game /\ h.settle = g.settle
  <2>1. CASE g \in rest BY <2>1
  <2>2. CASE g = n BY <1>1, <1>3, <1>4, <1>10, <2>2
  <2> QED BY <1>5, <2>1, <2>2
<1> QED BY <1>6, <1>7, <1>8, <1>9, <1>11

\* What an ingest turns to.
LEMMA TaskStep ==
    ASSUME RowsType, NEW w \in Workers, NEW q \in IngestTask, Task(q), ingest' = [ingest EXCEPT ![w] = q]
    PROVE  /\ ingest' \in [Workers -> IngestTask] /\ \A v \in Workers : Task(ingest'[v])
           /\ ingest'[w] = q /\ \A v \in Workers \ {w} : ingest'[v] = ingest[v]
BY DEF RowsType

LEMMA TaskGoes ==
    ASSUME RowsType, NEW w \in Workers, NEW place \in {"points", "release"}, ingest[w].at # "idle",
           goto(w, place)
    PROVE  /\ ingest' \in [Workers -> IngestTask] /\ \A v \in Workers : Task(ingest'[v])
           /\ ingest'[w].at = place /\ ingest'[w].tx = ingest[w].tx
           /\ \A v \in Workers \ {w} : ingest'[v] = ingest[v]
<1> DEFINE q == [ingest[w] EXCEPT !.at = place]
<1>1. ingest[w] \in IngestTask /\ Task(ingest[w]) BY DEF RowsType
<1>2. q \in IngestTask /\ Task(q) /\ q.at = place /\ q.tx = ingest[w].tx BY <1>1 DEF IngestTask, Task
<1>3. ingest' = [ingest EXCEPT ![w] = q] BY DEF goto, RowsType
<1> HIDE DEF q
<1> QED BY <1>2, <1>3, TaskStep

LEMMA TaskEnds ==
    ASSUME RowsType, NEW w \in Workers, ingest' = [ingest EXCEPT ![w] = at_rest]
    PROVE  /\ ingest' \in [Workers -> IngestTask] /\ \A v \in Workers : Task(ingest'[v])
           /\ ingest'[w].at = "idle" /\ \A v \in Workers \ {w} : ingest'[v] = ingest[v]
<1>1. at_rest \in IngestTask /\ Task(at_rest) /\ at_rest.at = "idle" BY DEF at_rest, IngestTask, Task
<1> QED BY <1>1, TaskStep

\* An award keeps one row of points for each signature, and leaves this one with points.
LEMMA AwardKeeps ==
    ASSUME NothingSkipped, NEW sig, NEW edge, points' = awarded(sig, edge)
    PROVE  /\ points \subseteq points' /\ \A p, q \in points' : p.sig = q.sig => p = q
           /\ sig \in {p.sig : p \in points'}
<1> DEFINE n == [sig |-> sig, edge |-> edge]
<1>0. \A p, q \in points : p.sig = q.sig => p = q BY DEF NothingSkipped
<1>1. CASE \E p \in points : p.sig = sig
  <2>1. points' = points BY <1>1 DEF awarded
  <2> QED BY <1>0, <1>1, <2>1
<1>2. CASE ~\E p \in points : p.sig = sig
  <2>1. points' = points \cup {n} BY <1>2 DEF awarded
  <2>2. n.sig = sig OBVIOUS
  <2> HIDE DEF n
  <2> QED BY <1>0, <1>2, <2>1, <2>2
<1> QED BY <1>1, <1>2

\* Steps next to the backfill: they keep rows and points.
LEMMA SkipAside ==
    ASSUME NothingSkipped, UNCHANGED backfill, points \subseteq points',
           \A p, q \in points' : p.sig = q.sig => p = q,
           \A h \in games : \E g \in games' : g.sig = h.sig
    PROVE  NothingSkipped'
<1>1. covered \subseteq covered' BY DEF covered
<1>2. \A x \in backfill.found : \E g \in games' : g.sig = x BY DEF NothingSkipped
<1> QED BY <1>1, <1>2 DEF NothingSkipped

LEMMA SkipUnmoved ==
    ASSUME NothingSkipped, UNCHANGED <<backfill, points>>, \A h \in games : \E g \in games' : g.sig = h.sig
    PROVE  NothingSkipped'
<1>1. \A p, q \in points' : p.sig = q.sig => p = q BY DEF NothingSkipped
<1> QED BY <1>1, SkipAside

LEMMA GamesInitInv == GamesInit => GamesInv
<1> SUFFICES ASSUME GamesInit PROVE GamesInv OBVIOUS
<1> USE DEF GamesInit
<1>1. at_rest \in IngestTask /\ Task(at_rest) /\ at_rest.at = "idle" BY DEF at_rest, IngestTask, Task
<1>2. RowsType BY <1>1, FS_EmptySet DEF RowsType
<1>3. OwnLayouts BY DEF OwnLayouts
<1>4. WrittenOnce BY <1>1 DEF WrittenOnce
<1>5. NothingSkipped BY DEF NothingSkipped, BackfillState, no_backfill, NoLimit
<1> QED BY <1>2, <1>3, <1>4, <1>5 DEF GamesInv

\* Claims and upserts of rows: the same row or the one that is written.
LEMMA UpsertOwn ==
    ASSUME RowsType, OwnLayouts, NEW trx \in Settlements, trx.kind # "settled", games' = upserted(trx), UNCHANGED strays
    PROVE  OwnLayouts'
<1>1. \A g \in games' :
         \/ g \in games /\ g.sig # trx.sig
         \/ /\ RowOf(g, trx) /\ g.layout = Pending
            /\ \/ g.settle = Pending
               \/ \E h \in games : h.sig = trx.sig /\ h.game = g.game /\ h.settle = g.settle
  BY UpsertKeeps
<1> QED BY <1>1 DEF OwnLayouts

LEMMA UpsertRows ==
    ASSUME RowsType, NEW trx \in Settlements, trx.kind # "settled", games' = upserted(trx)
    PROVE  /\ games' \subseteq GameRow /\ IsFiniteSet(games')
           /\ \A g \in games' : \E t \in Settlements : RowOf(g, t)
           /\ \A h \in games : \E g \in games' : g.sig = h.sig
           /\ \A g, h \in games' : g.sig = h.sig => g = h
<1>1. /\ games' \subseteq GameRow /\ IsFiniteSet(games')
      /\ \A g \in games' : \/ g \in games /\ g.sig # trx.sig
                           \/ RowOf(g, trx) /\ g.layout = Pending
      /\ \A h \in games : \E g \in games' : g.sig = h.sig
      /\ \A g, h \in games' : g.sig = h.sig => g = h
  BY UpsertKeeps
<1> QED BY <1>1 DEF RowsType

LEMMA SettlementRows ==
    ASSUME RowsType, OwnLayouts, NEW trx \in Settlements, trx.kind = "settled", idx_apply_game_settled(trx)
    PROVE  /\ games' \subseteq GameRow /\ IsFiniteSet(games')
           /\ \A g \in games' : \E t \in Settlements : RowOf(g, t)
           /\ \A h \in games : \E g \in games' : g.sig = h.sig
           /\ \A g, h \in games' : g.sig = h.sig => g = h
           /\ OwnLayouts'
<1>1. /\ games' \subseteq GameRow /\ IsFiniteSet(games')
      /\ \A g \in games' : \E h \in games :
            /\ g.sig = h.sig /\ g.account = h.account /\ g.game = h.game /\ g.slot = h.slot
            /\ g = h \/ (g.layout = trx.game /\ g.settle = trx.game /\ (trx.game \in strays' \/ g.game = trx.game))
      /\ \A h \in games : \E g \in games' : g.sig = h.sig
      /\ \A g, h \in games' : g.sig = h.sig => g = h
      /\ strays \subseteq strays'
  BY SettlementKeeps
<1>2. \A g \in games' : \E t \in Settlements : RowOf(g, t) BY <1>1 DEF RowsType, RowOf
<1>3. ASSUME strays' = {}, NEW g \in games' PROVE g.layout \in {Pending, g.game} /\ g.settle \in {Pending, g.game}
  <2>1. strays = {} BY <1>1, <1>3
  <2> QED BY <1>1, <1>3, <2>1 DEF OwnLayouts
<1> QED BY <1>1, <1>2, <1>3 DEF OwnLayouts

\* The steps of an ingest.
LEMMA IngestKeeps == ASSUME GamesInv, NEW w \in Workers, ingest_step(w) PROVE GamesInv'
<1> DEFINE trx == ingest[w].tx
<1>0. RowsType /\ OwnLayouts /\ NothingSkipped /\ WrittenOnce BY DEF GamesInv
<1>a. /\ games \subseteq GameRow /\ IsFiniteSet(games)
      /\ \A g \in games : \E t \in Settlements : RowOf(g, t)
      /\ \A h \in games : \E g \in games : g.sig = h.sig
      /\ \A g, h \in games : g.sig = h.sig => g = h
      /\ seen \subseteq Settlements /\ mishaps \in Nat
      /\ \A v \in Workers : Task(ingest[v])
  BY <1>0 DEF RowsType
<1>b. \A p, q \in points : p.sig = q.sig => p = q BY <1>0 DEF NothingSkipped
<1>c. \A s, t \in Settlements : s.sig = t.sig => s = t BY SettlementsAssumption
<1>1. CASE claim_tx(w)
  <2>1. PICK t \in Settlements :
           /\ t.kind # "vrf" /\ t \notin seen /\ seen' = seen \cup {t}
           /\ ingest' = [ingest EXCEPT ![w] = [at |-> t.kind, tx |-> t]]
           /\ UNCHANGED <<games, points, backfill, mishaps, strays>>
    BY <1>1 DEF claim_tx
  <2> DEFINE q == [at |-> t.kind, tx |-> t]
  <2>2. q \in IngestTask /\ Task(q) /\ q.at = t.kind /\ q.tx = t BY <2>1, SettlementsAssumption DEF IngestTask, Task
  <2>3. ingest' = [ingest EXCEPT ![w] = q] BY <2>1
  <2> HIDE DEF q
  <2>4. /\ ingest' \in [Workers -> IngestTask] /\ \A v \in Workers : Task(ingest'[v])
        /\ ingest'[w] = q /\ \A v \in Workers \ {w} : ingest'[v] = ingest[v]
    BY <1>0, <2>2, <2>3, TaskStep
  <2>5. RowsType' BY <1>a, <2>1, <2>4 DEF RowsType
  <2>6. WrittenOnce'
    <3> SUFFICES ASSUME mishaps = 0
                 PROVE  /\ \A g \in games : \E e \in seen' : RowOf(g, e)
                        /\ \A g \in games : g.layout = Pending => g.settle = Pending
                        /\ \A v \in Workers : ingest'[v].at = "release" => ingest'[v].tx.kind = "settled"
                        /\ \A v \in Workers : ingest'[v].at = "ended" =>
                              /\ ingest'[v].tx \in seen' /\ \A g \in games : g.sig # ingest'[v].tx.sig
                              /\ \A u \in Workers \ {v} : ingest'[u].at = "ended" => ingest'[u].tx # ingest'[v].tx
      BY <2>1 DEF WrittenOnce
    <3>1. /\ \A g \in games : \E e \in seen : RowOf(g, e)
          /\ \A g \in games : g.layout = Pending => g.settle = Pending
          /\ \A v \in Workers : ingest[v].at = "release" => ingest[v].tx.kind = "settled"
          /\ \A v \in Workers : ingest[v].at = "ended" =>
                /\ ingest[v].tx \in seen /\ \A g \in games : g.sig # ingest[v].tx.sig
                /\ \A u \in Workers \ {v} : ingest[u].at = "ended" => ingest[u].tx # ingest[v].tx
      BY <1>0 DEF WrittenOnce
    <3>2. \A g \in games : g.sig # t.sig
      <4>1. TAKE g \in games
      <4>2. PICK e \in seen : RowOf(g, e) BY <3>1
      <4> QED BY <1>a, <1>c, <2>1, <4>2 DEF RowOf
    <3>3. t.kind # "release" BY SettlementsAssumption
    <3> QED BY <2>1, <2>2, <2>4, <3>1, <3>2, <3>3
  <2>7. OwnLayouts' BY <1>0, <2>1 DEF OwnLayouts
  <2>8. NothingSkipped' BY <1>0, <1>a, <2>1, SkipUnmoved
  <2> QED BY <2>5, <2>6, <2>7, <2>8 DEF GamesInv
<1>2. CASE ended(w)
  <2>1. ingest[w].at = "ended" /\ games' = upserted(trx) /\ goto(w, "points")
        /\ UNCHANGED <<points, seen, backfill, mishaps, strays>>
    BY <1>2 DEF ended
  <2>2. trx \in Settlements /\ trx.kind = "ended" BY <1>a, <2>1 DEF Task
  <2>3. /\ games' \subseteq GameRow /\ IsFiniteSet(games')
        /\ \A g \in games' : \E t \in Settlements : RowOf(g, t)
        /\ \A h \in games : \E g \in games' : g.sig = h.sig
        /\ \A g, h \in games' : g.sig = h.sig => g = h
    BY <1>0, <2>1, <2>2, UpsertRows
  <2>4. /\ ingest' \in [Workers -> IngestTask] /\ \A v \in Workers : Task(ingest'[v])
        /\ ingest'[w].at = "points" /\ \A v \in Workers \ {w} : ingest'[v] = ingest[v]
    BY <1>0, <2>1, TaskGoes
  <2>5. RowsType' BY <1>a, <2>1, <2>3, <2>4 DEF RowsType
  <2>6. ASSUME mishaps = 0
        PROVE  /\ \A g \in games' : \E e \in seen : RowOf(g, e)
               /\ \A g \in games' : g.layout = Pending => g.settle = Pending
               /\ \A v \in Workers : ingest'[v].at = "release" => ingest'[v].tx.kind = "settled"
               /\ \A v \in Workers : ingest'[v].at = "ended" =>
                     /\ ingest'[v].tx \in seen /\ \A g \in games' : g.sig # ingest'[v].tx.sig
                     /\ \A u \in Workers \ {v} : ingest'[u].at = "ended" => ingest'[u].tx # ingest'[v].tx
    <3>1. /\ \A g \in games : \E e \in seen : RowOf(g, e)
          /\ \A g \in games : g.layout = Pending => g.settle = Pending
          /\ \A v \in Workers : ingest[v].at = "release" => ingest[v].tx.kind = "settled"
          /\ \A v \in Workers : ingest[v].at = "ended" =>
                /\ ingest[v].tx \in seen /\ \A g \in games : g.sig # ingest[v].tx.sig
                /\ \A u \in Workers \ {v} : ingest[u].at = "ended" => ingest[u].tx # ingest[v].tx
      BY <1>0, <2>6 DEF WrittenOnce
    <3>2. trx \in seen /\ \A g \in games : g.sig # trx.sig BY <2>1, <3>1
    <3>3. \A g \in games' :
             \/ g \in games /\ g.sig # trx.sig
             \/ /\ RowOf(g, trx) /\ g.layout = Pending
                /\ \/ g.settle = Pending
                   \/ \E h \in games : h.sig = trx.sig /\ h.game = g.game /\ h.settle = g.settle
      BY <1>0, <2>1, <2>2, UpsertKeeps
    <3>4. \A g \in games' : g \in games \/ (RowOf(g, trx) /\ g.settle = Pending) BY <3>2, <3>3
    <3>5. ASSUME NEW v \in Workers, ingest'[v].at = "ended"
          PROVE  /\ ingest'[v].tx \in seen /\ \A g \in games' : g.sig # ingest'[v].tx.sig
                 /\ \A u \in Workers \ {v} : ingest'[u].at = "ended" => ingest'[u].tx # ingest'[v].tx
      <4>1. v # w /\ ingest'[v] = ingest[v] /\ ingest[v].at = "ended" BY <2>4, <3>5
      <4>2. ingest[v].tx \in seen /\ ingest[v].tx # trx BY <2>1, <3>1, <4>1
      <4>3. ingest[v].tx.sig # trx.sig BY <1>a, <1>c, <2>2, <4>2
      <4>4. \A g \in games' : g.sig # ingest[v].tx.sig BY <3>1, <3>4, <4>1, <4>3 DEF RowOf
      <4> QED BY <2>4, <3>1, <4>1, <4>2, <4>4
    <3>6. \A v \in Workers : ingest'[v].at = "release" => ingest'[v].tx.kind = "settled" BY <2>4, <3>1
    <3> QED BY <3>1, <3>2, <3>4, <3>5, <3>6
  <2>7. WrittenOnce' BY <2>1, <2>6 DEF WrittenOnce
  <2>8. OwnLayouts' BY <1>0, <2>1, <2>2, UpsertOwn
  <2>9. NothingSkipped' BY <1>0, <2>1, <2>3, SkipUnmoved
  <2> QED BY <2>5, <2>7, <2>8, <2>9 DEF GamesInv
<1>3. CASE awards(w)
  <2>1. /\ \/ points' = awarded(trx.sig, "POINTS_EDGE_BPS") /\ UNCHANGED mishaps
           \/ mishaps' = mishaps + 1 /\ UNCHANGED points
        /\ ingest' = [ingest EXCEPT ![w] = at_rest]
        /\ UNCHANGED <<games, seen, backfill, strays>>
    BY <1>3 DEF awards, mishap
  <2>2. points \subseteq points' /\ \A p, q \in points' : p.sig = q.sig => p = q BY <1>0, <1>b, <2>1, AwardKeeps
  <2>3. /\ ingest' \in [Workers -> IngestTask] /\ \A v \in Workers : Task(ingest'[v])
        /\ ingest'[w].at = "idle" /\ \A v \in Workers \ {w} : ingest'[v] = ingest[v]
    BY <1>0, <2>1, TaskEnds
  <2>4. mishaps' \in Nat /\ (mishaps' = 0 => mishaps = 0) BY <1>a, <2>1
  <2>5. RowsType' BY <1>a, <2>1, <2>3, <2>4 DEF RowsType
  <2>6. WrittenOnce' BY <1>0, <2>1, <2>3, <2>4 DEF WrittenOnce
  <2>7. OwnLayouts' BY <1>0, <2>1 DEF OwnLayouts
  <2>8. NothingSkipped' BY <1>0, <1>a, <2>1, <2>2, SkipAside
  <2> QED BY <2>5, <2>6, <2>7, <2>8 DEF GamesInv
<1>4. CASE settles(w)
  <2>1. /\ ingest[w].at = "settled" /\ idx_apply_game_settled(trx)
        /\ goto(w, "release") \/ ingest' = [ingest EXCEPT ![w] = at_rest]
        /\ UNCHANGED <<points, seen, backfill, mishaps>>
    BY <1>4 DEF settles
  <2>2. trx \in Settlements /\ trx.kind = "settled" BY <1>a, <2>1 DEF Task
  <2>3. /\ games' \subseteq GameRow /\ IsFiniteSet(games')
        /\ \A g \in games' : \E t \in Settlements : RowOf(g, t)
        /\ \A h \in games : \E g \in games' : g.sig = h.sig
        /\ \A g, h \in games' : g.sig = h.sig => g = h
        /\ OwnLayouts'
    BY <1>0, <2>1, <2>2, SettlementRows
  <2>4. /\ ingest' \in [Workers -> IngestTask] /\ \A v \in Workers : Task(ingest'[v])
        /\ ingest'[w].at = "idle" \/ (ingest'[w].at = "release" /\ ingest'[w].tx = trx)
        /\ \A v \in Workers \ {w} : ingest'[v] = ingest[v]
    BY <1>0, <2>1, TaskGoes, TaskEnds
  <2>5. RowsType' BY <1>a, <2>1, <2>3, <2>4 DEF RowsType
  <2>6. ASSUME mishaps = 0
        PROVE  /\ \A g \in games' : \E e \in seen : RowOf(g, e)
               /\ \A g \in games' : g.layout = Pending => g.settle = Pending
               /\ \A v \in Workers : ingest'[v].at = "release" => ingest'[v].tx.kind = "settled"
               /\ \A v \in Workers : ingest'[v].at = "ended" =>
                     /\ ingest'[v].tx \in seen /\ \A g \in games' : g.sig # ingest'[v].tx.sig
                     /\ \A u \in Workers \ {v} : ingest'[u].at = "ended" => ingest'[u].tx # ingest'[v].tx
    <3>1. /\ \A g \in games : \E e \in seen : RowOf(g, e)
          /\ \A g \in games : g.layout = Pending => g.settle = Pending
          /\ \A v \in Workers : ingest[v].at = "release" => ingest[v].tx.kind = "settled"
          /\ \A v \in Workers : ingest[v].at = "ended" =>
                /\ ingest[v].tx \in seen /\ \A g \in games : g.sig # ingest[v].tx.sig
                /\ \A u \in Workers \ {v} : ingest[u].at = "ended" => ingest[u].tx # ingest[v].tx
      BY <1>0, <2>6 DEF WrittenOnce
    <3>2. \A g \in games' : \E h \in games :
             /\ g.sig = h.sig /\ g.account = h.account /\ g.game = h.game /\ g.slot = h.slot
             /\ g = h \/ (g.layout = trx.game /\ g.settle = trx.game /\ (trx.game \in strays' \/ g.game = trx.game))
      BY <1>0, <2>1, <2>2, SettlementKeeps
    <3>3. \A g \in games' : \E e \in seen : RowOf(g, e) BY <3>1, <3>2 DEF RowOf
    <3>4. trx.game # Pending BY <2>2, SettlementsAssumption
    <3>5. \A g \in games' : g.layout = Pending => g.settle = Pending BY <3>1, <3>2, <3>4
    <3>6. ASSUME NEW v \in Workers, ingest'[v].at = "ended"
          PROVE  /\ ingest'[v].tx \in seen /\ \A g \in games' : g.sig # ingest'[v].tx.sig
                 /\ \A u \in Workers \ {v} : ingest'[u].at = "ended" => ingest'[u].tx # ingest'[v].tx
      <4>1. v # w /\ ingest'[v] = ingest[v] /\ ingest[v].at = "ended" BY <2>4, <3>6
      <4>2. \A g \in games' : g.sig # ingest[v].tx.sig BY <3>1, <3>2, <4>1
      <4> QED BY <2>4, <3>1, <4>1, <4>2
    <3>7. \A v \in Workers : ingest'[v].at = "release" => ingest'[v].tx.kind = "settled" BY <2>2, <2>4, <3>1
    <3> QED BY <3>3, <3>5, <3>6, <3>7
  <2>7. WrittenOnce' BY <2>1, <2>6 DEF WrittenOnce
  <2>8. NothingSkipped' BY <1>0, <2>1, <2>3, SkipUnmoved
  <2> QED BY <2>3, <2>5, <2>7, <2>8 DEF GamesInv
<1>5. CASE apply_fails(w)
  <2>1. /\ ingest[w].at \in {"ended", "settled"} /\ mishaps' = mishaps + 1 /\ goto(w, "release")
        /\ UNCHANGED <<points, seen, backfill>>
        /\ \/ UNCHANGED <<games, strays>>
           \/ ingest[w].at = "ended" /\ games' = upserted(trx) /\ UNCHANGED strays
           \/ ingest[w].at = "settled" /\ idx_apply_game_settled(trx)
    BY <1>5 DEF apply_fails, mishap
  <2>2. trx \in Settlements /\ trx.kind = ingest[w].at BY <1>a, <2>1 DEF Task
  <2>3. /\ games' \subseteq GameRow /\ IsFiniteSet(games')
        /\ \A g \in games' : \E t \in Settlements : RowOf(g, t)
        /\ \A h \in games : \E g \in games' : g.sig = h.sig
        /\ \A g, h \in games' : g.sig = h.sig => g = h
        /\ OwnLayouts'
    <3>1. CASE UNCHANGED <<games, strays>>
      <4>1. games' = games /\ OwnLayouts' BY <1>0, <3>1 DEF OwnLayouts
      <4> QED BY <1>a, <4>1
    <3>2. CASE ingest[w].at = "ended" /\ games' = upserted(trx) /\ UNCHANGED strays
      BY <1>0, <2>2, <3>2, UpsertRows, UpsertOwn
    <3>3. CASE ingest[w].at = "settled" /\ idx_apply_game_settled(trx) BY <1>0, <2>2, <3>3, SettlementRows
    <3> QED BY <2>1, <3>1, <3>2, <3>3
  <2>4. ingest' \in [Workers -> IngestTask] /\ \A v \in Workers : Task(ingest'[v]) BY <1>0, <2>1, TaskGoes
  <2>5. mishaps' \in Nat /\ mishaps' # 0 BY <1>a, <2>1
  <2>6. RowsType' BY <1>a, <2>1, <2>3, <2>4, <2>5 DEF RowsType
  <2>7. WrittenOnce' BY <2>5 DEF WrittenOnce
  <2>8. NothingSkipped' BY <1>0, <2>1, <2>3, SkipUnmoved
  <2> QED BY <2>3, <2>6, <2>7, <2>8 DEF GamesInv
<1>6. CASE release(w)
  <2>1. /\ ingest[w].at = "release" /\ ingest' = [ingest EXCEPT ![w] = at_rest]
        /\ \/ seen' = seen \ {trx} /\ UNCHANGED mishaps
           \/ mishaps' = mishaps + 1 /\ UNCHANGED seen
        /\ UNCHANGED <<games, points, backfill, strays>>
    BY <1>6 DEF release, mishap
  <2>2. /\ ingest' \in [Workers -> IngestTask] /\ \A v \in Workers : Task(ingest'[v])
        /\ ingest'[w].at = "idle" /\ \A v \in Workers \ {w} : ingest'[v] = ingest[v]
    BY <1>0, <2>1, TaskEnds
  <2>3. mishaps' \in Nat /\ (mishaps' = 0 => mishaps = 0 /\ seen' = seen \ {trx}) /\ seen' \subseteq Settlements
    BY <1>a, <2>1
  <2>4. RowsType' BY <1>a, <2>1, <2>2, <2>3 DEF RowsType
  <2>5. ASSUME mishaps' = 0
        PROVE  /\ \A g \in games : \E e \in seen' : RowOf(g, e)
               /\ \A v \in Workers : ingest'[v].at = "ended" => ingest'[v].tx \in seen'
    <3>1. /\ \A g \in games : \E e \in seen : RowOf(g, e)
          /\ trx.kind = "settled"
          /\ \A v \in Workers : ingest[v].at = "ended" => ingest[v].tx \in seen
      BY <1>0, <2>1, <2>3, <2>5 DEF WrittenOnce
    <3>2. \A g \in games : \E e \in seen' : RowOf(g, e) BY <2>3, <2>5, <3>1 DEF RowOf
    <3>3. \A v \in Workers : ingest[v].at = "ended" => ingest[v].tx.kind = "ended" BY <1>a DEF Task
    <3> QED BY <2>2, <2>3, <2>5, <3>1, <3>2, <3>3
  <2>6. WrittenOnce' BY <1>0, <2>1, <2>2, <2>3, <2>5 DEF WrittenOnce
  <2>7. OwnLayouts' BY <1>0, <2>1 DEF OwnLayouts
  <2>8. NothingSkipped' BY <1>0, <1>a, <2>1, SkipUnmoved
  <2> QED BY <2>4, <2>6, <2>7, <2>8 DEF GamesInv
<1>7. CASE stop(w)
  <2>1. mishaps' = mishaps + 1 /\ ingest' = [ingest EXCEPT ![w] = at_rest]
        /\ UNCHANGED <<games, points, seen, backfill, strays>>
    BY <1>7 DEF stop, mishap
  <2>2. ingest' \in [Workers -> IngestTask] /\ \A v \in Workers : Task(ingest'[v]) BY <1>0, <2>1, TaskEnds
  <2>3. mishaps' \in Nat /\ mishaps' # 0 BY <1>a, <2>1
  <2>4. RowsType' BY <1>a, <2>1, <2>2, <2>3 DEF RowsType
  <2>5. WrittenOnce' BY <2>3 DEF WrittenOnce
  <2>6. OwnLayouts' BY <1>0, <2>1 DEF OwnLayouts
  <2>7. NothingSkipped' BY <1>0, <1>a, <2>1, SkipUnmoved
  <2> QED BY <2>4, <2>5, <2>6, <2>7 DEF GamesInv
<1> HIDE DEF trx
<1> QED BY <1>1, <1>2, <1>3, <1>4, <1>5, <1>6, <1>7 DEF ingest_step

\* A VRF game and a repaired row come to the mirror.
LEMMA RecordKeeps == ASSUME GamesInv, recordVrfGame PROVE GamesInv'
<1>0. RowsType /\ OwnLayouts /\ NothingSkipped /\ WrittenOnce BY DEF GamesInv
<1>1. PICK trx \in Settlements :
         /\ trx.kind = "vrf" /\ trx \notin seen /\ seen' = seen \cup {trx}
         /\ \/ mishap /\ UNCHANGED <<games, points>>
            \/ mishap /\ games' = upserted(trx) /\ UNCHANGED points
            \/ games' = upserted(trx) /\ points' = awarded(trx.sig, "houseEdgeBps") /\ UNCHANGED mishaps
         /\ UNCHANGED <<ingest, backfill, strays>>
  BY DEF recordVrfGame
<1>2. /\ games' \subseteq GameRow /\ IsFiniteSet(games')
      /\ \A g \in games' : \E t \in Settlements : RowOf(g, t)
      /\ \A h \in games : \E g \in games' : g.sig = h.sig
      /\ \A g, h \in games' : g.sig = h.sig => g = h
      /\ OwnLayouts'
  <2>1. CASE UNCHANGED games
    <3>1. games' = games /\ OwnLayouts' BY <1>0, <1>1, <2>1 DEF OwnLayouts
    <3> QED BY <1>0, <3>1 DEF RowsType
  <2>2. CASE games' = upserted(trx) BY <1>0, <1>1, <2>2, UpsertRows, UpsertOwn
  <2> QED BY <1>1, <2>1, <2>2
<1>3. points \subseteq points' /\ \A p, q \in points' : p.sig = q.sig => p = q
  <2>1. CASE UNCHANGED points BY <1>0, <2>1 DEF NothingSkipped
  <2>2. CASE points' = awarded(trx.sig, "houseEdgeBps") BY <1>0, <2>2, AwardKeeps
  <2> QED BY <1>1, <2>1, <2>2
<1>4. mishaps' \in Nat /\ (mishaps' = 0 => mishaps = 0 /\ games' = upserted(trx))
      /\ seen' \subseteq Settlements /\ ingest' = ingest
  BY <1>0, <1>1 DEF RowsType, mishap
<1>5. RowsType' BY <1>0, <1>2, <1>4 DEF RowsType
<1>6. ASSUME mishaps' = 0
      PROVE  /\ \A g \in games' : \E e \in seen' : RowOf(g, e)
             /\ \A g \in games' : g.layout = Pending => g.settle = Pending
             /\ \A v \in Workers : ingest[v].at = "ended" =>
                   ingest[v].tx \in seen' /\ \A g \in games' : g.sig # ingest[v].tx.sig
  <2>1. /\ \A g \in games : \E e \in seen : RowOf(g, e)
        /\ \A g \in games : g.layout = Pending => g.settle = Pending
        /\ \A v \in Workers : ingest[v].at = "ended" =>
              ingest[v].tx \in seen /\ \A g \in games : g.sig # ingest[v].tx.sig
    BY <1>0, <1>4, <1>6 DEF WrittenOnce
  <2>2. \A e \in seen : e.sig # trx.sig BY <1>0, <1>1, SettlementsAssumption DEF RowsType
  <2>3. \A g \in games : g.sig # trx.sig BY <2>1, <2>2 DEF RowOf
  <2>4. \A g \in games' :
           \/ g \in games /\ g.sig # trx.sig
           \/ /\ RowOf(g, trx) /\ g.layout = Pending
              /\ \/ g.settle = Pending
                 \/ \E h \in games : h.sig = trx.sig /\ h.game = g.game /\ h.settle = g.settle
    BY <1>0, <1>1, <1>4, <1>6, UpsertKeeps
  <2>5. \A g \in games' : g \in games \/ (RowOf(g, trx) /\ g.settle = Pending) BY <2>3, <2>4
  <2>6. ASSUME NEW v \in Workers, ingest[v].at = "ended"
        PROVE  ingest[v].tx \in seen' /\ \A g \in games' : g.sig # ingest[v].tx.sig
    <3>1. ingest[v].tx \in seen /\ ingest[v].tx.sig # trx.sig BY <2>1, <2>2, <2>6
    <3> QED BY <1>1, <2>1, <2>5, <2>6, <3>1 DEF RowOf
  <2>7. \A g \in games' : \E e \in seen' : RowOf(g, e) BY <1>1, <2>1, <2>5
  <2> QED BY <2>1, <2>5, <2>6, <2>7
<1>7. WrittenOnce' BY <1>0, <1>4, <1>6 DEF WrittenOnce
<1>8. NothingSkipped' BY <1>0, <1>1, <1>2, <1>3, SkipAside
<1> QED BY <1>2, <1>5, <1>7, <1>8 DEF GamesInv

LEMMA RepairKeeps == ASSUME GamesInv, repairGames PROVE GamesInv'
<1>0. RowsType /\ OwnLayouts /\ NothingSkipped BY DEF GamesInv
<1>1. PICK trx \in Settlements :
         /\ mishaps > 0 /\ trx.kind = "ended" /\ \A g \in games : g.sig # trx.sig
         /\ games' = games \cup {new_row(trx, Pending)}
         /\ UNCHANGED <<points, seen, ingest, backfill, mishaps, strays>>
  BY DEF repairGames
<1> DEFINE n == new_row(trx, Pending)
<1>2. trx.sig \in Nat \ {0} /\ trx.account \in Nat /\ trx.game \in Nat \ {Pending} /\ trx.slot \in Nat \ {0}
  BY SettlementsAssumption
<1>3. n \in GameRow /\ RowOf(n, trx) /\ n.sig = trx.sig /\ n.layout = Pending /\ n.settle = Pending
  BY <1>1, <1>2 DEF new_row, GameRow, RowOf, Pending
<1> HIDE DEF n
<1>4. games' = games \cup {n} BY <1>1 DEF n
<1>5. IsFiniteSet(games') BY <1>0, <1>4, FS_AddElement DEF RowsType
<1>6. RowsType' BY <1>0, <1>1, <1>3, <1>4, <1>5 DEF RowsType
<1>7. OwnLayouts' BY <1>0, <1>1, <1>3, <1>4 DEF OwnLayouts
<1>8. WrittenOnce' BY <1>1 DEF WrittenOnce
<1>9. NothingSkipped' BY <1>0, <1>1, <1>4, SkipUnmoved
<1> QED BY <1>6, <1>7, <1>8, <1>9 DEF GamesInv

\* The steps of the backfill.
LEMMA BackfillKeeps ==
    ASSUME GamesInv, backfill_start \/ backfill_read \/ backfill_row \/ backfill_page \/ backfill_end
    PROVE  NothingSkipped'
<1>0. NothingSkipped /\ RowsType /\ PAGE \in Nat \ {0} BY PageAssumption DEF GamesInv
<1>a. /\ backfill \in BackfillState
      /\ \A x \in backfill.found : \E g \in games : g.sig = x
      /\ \A p, q \in points : p.sig = q.sig => p = q
  BY <1>0 DEF NothingSkipped
<1>b. no_backfill \in BackfillState /\ no_backfill.at = "idle" /\ no_backfill.found = {} /\ no_backfill.cursor = 0
  BY DEF no_backfill, BackfillState, NoLimit
<1>1. CASE backfill_start
  <2>1. PICK limit \in {1, NoLimit} :
           backfill' = [no_backfill EXCEPT !.at = "read", !.hardLimit = limit, !.runs = backfill.runs + 1,
                                           !.found = {g.sig : g \in games}]
    BY <1>1 DEF backfill_start
  <2> DEFINE f == {g.sig : g \in games}
             r == backfill.runs + 1
  <2>2. UNCHANGED <<games, points>> BY <1>1 DEF backfill_start
  <2>3. f \in SUBSET Nat /\ \A x \in f : x \in Nat \ {0} /\ \E g \in games : g.sig = x BY <1>0 DEF RowsType, GameRow
  <2>4. r \in Nat /\ limit \in Nat BY <1>a DEF BackfillState, NoLimit
  <2>5. backfill' = [no_backfill EXCEPT !.at = "read", !.hardLimit = limit, !.runs = r, !.found = f] BY <2>1
  <2> HIDE DEF f, r
  <2>6. backfill' \in BackfillState /\ backfill'.at = "read" /\ backfill'.found = f /\ backfill'.cursor = 0
    BY <1>b, <2>3, <2>4, <2>5 DEF BackfillState
  <2>7. \A x \in f : x > 0 BY <2>3
  <2> QED BY <1>a, <2>2, <2>3, <2>6, <2>7 DEF NothingSkipped
<1>2. CASE backfill_read
  <2>1. PICK page \in SUBSET missing_rows : is_page(page) /\ backfill' = [backfill EXCEPT !.at = "rows", !.page = page]
    BY <1>2 DEF backfill_read
  <2>2. backfill.at = "read" /\ UNCHANGED <<games, points>> BY <1>2 DEF backfill_read
  <2>3. missing_rows \subseteq Nat BY <1>0 DEF missing_rows, missing_sigs, RowsType, GameRow
  <2>4. /\ backfill' \in BackfillState /\ backfill'.at = "rows" /\ backfill'.page = page
        /\ backfill'.found = backfill.found /\ backfill'.failed = backfill.failed /\ backfill'.cursor = backfill.cursor
    BY <1>a, <2>1, <2>3 DEF BackfillState
  <2>5. covered' = covered BY <2>2, <2>4 DEF covered
  <2>6. ASSUME NEW x \in backfill.found \ covered
        PROVE  x > backfill.cursor /\ (x \in page \/ (Cardinality(page) = PAGE /\ \A y \in page : y < x))
    <3>1. x > backfill.cursor BY <1>0, <2>2 DEF NothingSkipped
    <3>2. x \in missing_rows BY <1>a, <3>1 DEF missing_rows, missing_sigs, covered
    <3> QED BY <2>1, <3>1, <3>2 DEF is_page
  <2> QED BY <1>a, <2>2, <2>4, <2>5, <2>6 DEF NothingSkipped
<1>3. CASE backfill_row
  <2>1. PICK sig \in to_come :
           /\ \A x \in to_come : sig <= x
           /\ \/ /\ backfill' = [backfill EXCEPT !.missing = @ + 1, !.cursor = sig]
                 /\ points' = awarded(sig, "POINTS_EDGE_BPS")
              \/ /\ backfill' = [[backfill EXCEPT !.missing = @ + 1, !.cursor = sig] EXCEPT !.failed = @ \cup {sig}]
                 /\ UNCHANGED points
    BY <1>3 DEF backfill_row
  <2>2. backfill.at = "rows" /\ UNCHANGED games BY <1>3 DEF backfill_row
  <2>3. sig \in Nat /\ sig \in backfill.page /\ sig > backfill.cursor BY <1>a DEF to_come, BackfillState
  <2>4. /\ backfill' \in BackfillState /\ backfill'.at = "rows" /\ backfill'.page = backfill.page
        /\ backfill'.found = backfill.found /\ backfill'.cursor = sig
        /\ \/ backfill'.failed = backfill.failed /\ points' = awarded(sig, "POINTS_EDGE_BPS")
           \/ backfill'.failed = backfill.failed \cup {sig} /\ UNCHANGED points
    <3>1. CASE /\ backfill' = [backfill EXCEPT !.missing = @ + 1, !.cursor = sig]
               /\ points' = awarded(sig, "POINTS_EDGE_BPS")
      <4> DEFINE m == backfill.missing + 1
      <4>1. m \in Nat BY <1>a DEF BackfillState
      <4>2. backfill' = [backfill EXCEPT !.missing = m, !.cursor = sig] BY <3>1
      <4> HIDE DEF m
      <4>3. /\ backfill' \in BackfillState /\ backfill'.at = backfill.at /\ backfill'.page = backfill.page
            /\ backfill'.found = backfill.found /\ backfill'.cursor = sig /\ backfill'.failed = backfill.failed
        BY <1>a, <2>3, <4>1, <4>2 DEF BackfillState
      <4> QED BY <2>2, <3>1, <4>3
    <3>2. CASE /\ backfill' = [[backfill EXCEPT !.missing = @ + 1, !.cursor = sig] EXCEPT !.failed = @ \cup {sig}]
               /\ UNCHANGED points
      <4> DEFINE f == backfill.failed \cup {sig}
                 m == backfill.missing + 1
      <4>1. f \in SUBSET Nat /\ m \in Nat BY <1>a, <2>3 DEF BackfillState
      <4>2. backfill' = [backfill EXCEPT !.missing = m, !.cursor = sig, !.failed = f] BY <3>2
      <4> HIDE DEF f, m
      <4>3. /\ backfill' \in BackfillState /\ backfill'.at = backfill.at /\ backfill'.page = backfill.page
            /\ backfill'.found = backfill.found /\ backfill'.cursor = sig /\ backfill'.failed = f
        BY <1>a, <2>3, <4>1, <4>2 DEF BackfillState
      <4> QED BY <2>2, <3>2, <4>3 DEF f
    <3> QED BY <2>1, <3>1, <3>2
  <2>5. covered \subseteq covered' /\ sig \in covered' /\ \A p, q \in points' : p.sig = q.sig => p = q
    <3>1. CASE backfill'.failed = backfill.failed /\ points' = awarded(sig, "POINTS_EDGE_BPS")
      <4>1. points \subseteq points' /\ (\A p, q \in points' : p.sig = q.sig => p = q)
            /\ sig \in {p.sig : p \in points'}
        BY <1>0, <3>1, AwardKeeps
      <4> QED BY <3>1, <4>1 DEF covered
    <3>2. CASE backfill'.failed = backfill.failed \cup {sig} /\ UNCHANGED points BY <1>a, <3>2 DEF covered
    <3> QED BY <2>4, <3>1, <3>2
  <2>6. ASSUME NEW x \in backfill.found \ covered'
        PROVE  x > sig /\ (x \in backfill.page \/ (Cardinality(backfill.page) = PAGE /\ \A y \in backfill.page : y < x))
    <3>1. x > backfill.cursor /\ x \in Nat /\ x # sig
          /\ (x \in backfill.page \/ (Cardinality(backfill.page) = PAGE /\ \A y \in backfill.page : y < x))
      BY <1>0, <1>a, <2>2, <2>5 DEF NothingSkipped, BackfillState
    <3>2. CASE x \in backfill.page
      <4>1. x \in to_come BY <3>1, <3>2 DEF to_come
      <4> QED BY <2>1, <2>3, <3>1, <3>2, <4>1
    <3>3. CASE Cardinality(backfill.page) = PAGE /\ \A y \in backfill.page : y < x BY <2>3, <3>1, <3>3
    <3> QED BY <3>1, <3>2, <3>3
  <2> QED BY <1>a, <2>2, <2>4, <2>5, <2>6 DEF NothingSkipped
<1>4. CASE backfill_page
  <2>1. /\ backfill.at = "rows" /\ (to_come = {} \/ backfill.missing = backfill.hardLimit)
        /\ UNCHANGED <<games, points>>
        /\ backfill' = [backfill EXCEPT !.at =
                           IF Cardinality(backfill.page) < PAGE \/ backfill.missing >= backfill.hardLimit
                           THEN "ended" ELSE "read"]
    BY <1>4 DEF backfill_page
  <2>2. /\ backfill' \in BackfillState
        /\ backfill'.at = IF Cardinality(backfill.page) < PAGE \/ backfill.missing >= backfill.hardLimit
                          THEN "ended" ELSE "read"
        /\ backfill'.found = backfill.found /\ backfill'.failed = backfill.failed /\ backfill'.cursor = backfill.cursor
        /\ backfill'.missing = backfill.missing /\ backfill'.hardLimit = backfill.hardLimit
    BY <1>a, <2>1 DEF BackfillState
  <2>3. covered' = covered BY <2>1, <2>2 DEF covered
  <2>4. \A x \in backfill.found \ covered : 
           /\ x > backfill.cursor
           /\ x \in backfill.page \/ (Cardinality(backfill.page) = PAGE /\ \A y \in backfill.page : y < x)
    BY <1>0, <2>1 DEF NothingSkipped
  <2>5. ASSUME backfill'.at = "ended", backfill.missing < backfill.hardLimit PROVE backfill.found \subseteq covered
    <3>1. backfill.missing \in Nat /\ backfill.hardLimit \in Nat BY <1>a DEF BackfillState
    <3>2. to_come = {} /\ Cardinality(backfill.page) < PAGE BY <2>1, <2>2, <2>5, <3>1
    <3>3. ASSUME NEW x \in backfill.found \ covered PROVE FALSE
      <4>1. Cardinality(backfill.page) # PAGE BY <1>0, <3>2
      <4>2. x \in to_come BY <2>4, <3>3, <4>1 DEF to_come
      <4> QED BY <3>2, <4>2
    <3> QED BY <3>3
  <2>6. backfill'.at \in {"read", "ended"} BY <2>2
  <2> QED BY <1>a, <2>1, <2>2, <2>3, <2>4, <2>5, <2>6 DEF NothingSkipped
<1>5. CASE backfill_end
  <2>1. backfill' = [no_backfill EXCEPT !.runs = backfill.runs] /\ UNCHANGED <<games, points>> BY <1>5 DEF backfill_end
  <2>2. backfill' \in BackfillState /\ backfill'.at = "idle" /\ backfill'.found = {} BY <1>a, <1>b, <2>1 DEF BackfillState
  <2> QED BY <1>a, <2>1, <2>2 DEF NothingSkipped
<1> QED BY <1>1, <1>2, <1>3, <1>4, <1>5

LEMMA GamesNextInv == GamesInv /\ [GamesNext]_gameVars => GamesInv'
<1> SUFFICES ASSUME GamesInv, [GamesNext]_gameVars PROVE GamesInv' OBVIOUS
<1>0. RowsType /\ OwnLayouts /\ NothingSkipped /\ WrittenOnce BY DEF GamesInv
<1>1. CASE UNCHANGED gameVars
  <2>1. UNCHANGED <<games, points, seen, ingest, backfill, mishaps, strays>> BY <1>1 DEF gameVars
  <2>2. RowsType' /\ OwnLayouts' /\ WrittenOnce' BY <1>0, <2>1 DEF RowsType, OwnLayouts, WrittenOnce
  <2>3. \A h \in games : \E g \in games' : g.sig = h.sig BY <2>1
  <2>4. NothingSkipped' BY <1>0, <2>1, <2>3, SkipUnmoved
  <2> QED BY <2>2, <2>4 DEF GamesInv
<1>2. CASE backfill_start \/ backfill_read \/ backfill_row \/ backfill_page \/ backfill_end
  <2>1. UNCHANGED <<games, seen, ingest, strays>> /\ (mishaps' = mishaps \/ mishaps' = mishaps + 1)
    BY <1>2 DEF backfill_start, backfill_read, backfill_row, backfill_page, backfill_end, mishap
  <2>2. mishaps' \in Nat /\ (mishaps' = 0 => mishaps = 0) BY <1>0, <2>1 DEF RowsType
  <2>3. RowsType' BY <1>0, <2>1, <2>2 DEF RowsType
  <2>4. OwnLayouts' BY <1>0, <2>1 DEF OwnLayouts
  <2>5. WrittenOnce' BY <1>0, <2>1, <2>2 DEF WrittenOnce
  <2>6. NothingSkipped' BY <1>2, BackfillKeeps
  <2> QED BY <2>3, <2>4, <2>5, <2>6 DEF GamesInv
<1>3. CASE \E w \in Workers : ingest_step(w) BY <1>3, IngestKeeps
<1>4. CASE recordVrfGame \/ repairGames BY <1>4, RecordKeeps, RepairKeeps
<1> QED BY <1>1, <1>2, <1>3, <1>4 DEF GamesNext

\* A row shows the layout and the settlement of its own game, however settlements and the
\* games they settle are delivered and retried, unless a settlement came before its row and
\* an earlier game took it; and nothing is reported as long as nothing failed
\* (idx_apply_game_settled, applyEvent, recordVrfGame, invariants-pass.ts).
THEOREM SettlementsFindTheirRows == GamesSpec => []SettleFindsItsRow
<1>1. GamesInv => SettleFindsItsRow
  <2> SUFFICES ASSUME GamesInv, strays = {} PROVE \A g \in games :
                     /\ g.layout \in {Pending, g.game} /\ proof(g) \in {Pending, g.game}
                     /\ mishaps = 0 => runInvariants = {}
    BY DEF SettleFindsItsRow
  <2>1. \A g \in games : g.layout \in {Pending, g.game} /\ g.settle \in {Pending, g.game}
    BY DEF GamesInv, OwnLayouts
  <2>2. \A g \in games : proof(g) \in {Pending, g.settle} BY DEF proof
  <2>3. ASSUME mishaps = 0 PROVE runInvariants = {}
    <3>1. \A g \in games : g.layout = Pending => g.settle = Pending BY <2>3 DEF GamesInv, WrittenOnce
    <3> QED BY <2>1, <3>1 DEF runInvariants, flagged, isSettlePendingSentinel
  <2> QED BY <2>1, <2>2, <2>3
<1> QED BY <1>1, GamesInitInv, GamesNextInv, PTL DEF GamesSpec

\* A run of the points backfill that went to its end leaves no game that was there when it
\* started without points, other than those whose insert failed, while games are written and
\* awarded next to it; and no game earns twice (app/api/admin/backfill-points, awardPoints).
THEOREM BackfillReachesAll == GamesSpec => []BackfillSkipsNothing
<1>1. GamesInv => BackfillSkipsNothing
  BY DEF GamesInv, NothingSkipped, covered, BackfillSkipsNothing
<1> QED BY <1>1, GamesInitInv, GamesNextInv, PTL DEF GamesSpec


-----------------------------------------------------------------------------
(* The rotation of the LP pass *)

\* How many of a set are listed before a position, and how many turns it is away
\* from the start of a pass.
rank(S, p) == Cardinality({q \in S : q < p})
gap(S, s, p) == IF rank(S, p) >= s THEN rank(S, p) - s ELSE rank(S, p) - s + Cardinality(S)

\* Twice the passes a position may still have to wait for the others to leave, and
\* twice what it has waited and waits for its turn in all.
triangle(m) == (m - 1) * (m - 2)
owed(S, s, p, w) == 2 * w + 2 * gap(S, s, p) + triangle(Cardinality(S))
Ceiling == Cardinality(Positions) * (Cardinality(Positions) - 1)

Within(S, s, w) == \A p \in S : owed(S, s, p, w[p]) <= Ceiling

LEMMA Triangles ==
  ASSUME NEW m \in Nat \ {0}
  PROVE  /\ triangle(m) \in Nat
         /\ 2 * (m - 1) + triangle(m) = m * (m - 1)
         /\ \A k \in Nat \ {0} : k < m => 2 * (k - 1) + triangle(k) <= triangle(m)
<1>1. triangle(m) \in Nat
  <2>1. CASE m = 1 BY <2>1 DEF triangle
  <2>2. CASE m > 1
    <3>1. m - 1 \in Nat /\ m - 2 \in Nat BY <2>2
    <3>2. QED BY <3>1, TimesMonotone DEF triangle
  <2>3. QED BY <2>1, <2>2
<1>2. \A k \in Nat \ {0} : 2 * (k - 1) + triangle(k) = k * (k - 1) BY DEF triangle
<1>3. ASSUME NEW k \in Nat \ {0}, k < m PROVE 2 * (k - 1) + triangle(k) <= triangle(m)
  <2>1. k \in Nat /\ k - 1 \in Nat /\ m - 1 \in Nat /\ m - 2 \in Nat /\ k <= m - 1 /\ k - 1 <= m - 2 BY <1>3
  <2>2. k * (k - 1) <= (m - 1) * (k - 1) BY <2>1, TimesMonotone
  <2>3. (m - 1) * (k - 1) <= (m - 1) * (m - 2) BY <2>1, TimesMonotone
  <2>4. k * (k - 1) \in Int /\ (m - 1) * (k - 1) \in Int /\ (m - 1) * (m - 2) \in Int BY <2>1
  <2>5. k * (k - 1) <= (m - 1) * (m - 2) BY <2>2, <2>3, <2>4
  <2>6. QED BY <1>2, <2>5, <1>3 DEF triangle
<1>4. QED BY <1>1, <1>2, <1>3

\* The positions of a set have ranks from 0 up, and are a turn less than its size away.
LEMMA RankRange ==
  ASSUME NEW S \in SUBSET Positions, NEW p \in S
  PROVE  /\ Cardinality(S) \in Nat \ {0}
         /\ Cardinality(S) <= Cardinality(Positions) /\ Cardinality(Positions) \in Nat \ {0}
         /\ rank(S, p) \in 0..(Cardinality(S) - 1)
<1> DEFINE before == {q \in S : q < p}
<1>1. IsFiniteSet(S) /\ IsFiniteSet(Positions) /\ p \in Int BY PassAssumption, FS_Subset
<1>2. Cardinality(S) \in Nat /\ Cardinality(Positions) \in Nat BY <1>1, FS_CardinalityType
<1>3. Cardinality(S) <= Cardinality(Positions) BY <1>1, PassAssumption, FS_Subset
<1>4. S # {} OBVIOUS
<1>5. Cardinality(S) # 0 BY <1>1, <1>4, FS_EmptySet
<1>6. IsFiniteSet(before) /\ Cardinality(before) <= Cardinality(S) /\ (Cardinality(S) = Cardinality(before) => S = before)
  <2>1. before \in SUBSET S OBVIOUS
  <2> HIDE DEF before
  <2>2. QED BY <1>1, <2>1, FS_Subset
<1>7. Cardinality(before) \in Nat BY <1>6, FS_CardinalityType
<1>8. p \notin before BY <1>1
<1>9. Cardinality(before) # Cardinality(S) BY <1>6, <1>8
<1>10. rank(S, p) = Cardinality(before) BY DEF rank
<1> HIDE DEF before
<1>11. QED BY <1>2, <1>3, <1>5, <1>6, <1>7, <1>9, <1>10

LEMMA GapRange ==
  ASSUME NEW S \in SUBSET Positions, NEW p \in S, NEW s \in 0..(Cardinality(S) - 1)
  PROVE  gap(S, s, p) \in 0..(Cardinality(S) - 1)
<1>1. Cardinality(S) \in Nat \ {0} /\ rank(S, p) \in 0..(Cardinality(S) - 1) BY RankRange
<1>2. QED BY <1>1 DEF gap

LEMMA Remainder ==
  ASSUME NEW m \in Nat \ {0}
  PROVE  /\ \A a \in Nat : a % m \in 0..(m - 1)
         /\ \A a \in 0..(m - 1) : a % m = a /\ (a + m) % m = a
<1>1. \A a \in Nat : a % m \in 0..(m - 1) OBVIOUS
<1>2. ASSUME NEW a \in 0..(m - 1) PROVE a % m = a /\ (a + m) % m = a OBVIOUS
<1>3. QED BY <1>1, <1>2

\* The list of a set in ascending order has each of its positions at its rank.
LEMMA ListedAtRank ==
  ASSUME NEW S \in SUBSET Positions, NEW list \in ascending(S), NEW p \in S
  PROVE  /\ rank(S, p) + 1 \in 1..Cardinality(S) /\ list[rank(S, p) + 1] = p
<1> DEFINE m == Cardinality(S)
<1>1. IsFiniteSet(S) /\ S \subseteq Int BY PassAssumption, FS_Subset
<1>2. m \in Nat /\ rank(S, p) \in 0..(m - 1) BY RankRange
<1>3. list \in [1..m -> S] /\ \A j, k \in 1..m : j < k => list[j] < list[k]
  <2>1. list \in [1..m -> S] /\ \A j, k \in DOMAIN list : j < k => list[j] < list[k] BY DEF ascending
  <2>2. DOMAIN list = 1..m BY <2>1
  <2>3. QED BY <2>1, <2>2
<1> HIDE DEF m
<1>4. \A j, k \in 1..m : list[j] \in Int /\ (list[j] = list[k] => j = k) /\ (list[j] < list[k] => j < k)
  <2> SUFFICES ASSUME NEW j \in 1..m, NEW k \in 1..m
               PROVE list[j] \in Int /\ (list[j] = list[k] => j = k) /\ (list[j] < list[k] => j < k)
      OBVIOUS
  <2>1. list[j] \in Int /\ list[k] \in Int BY <1>1, <1>3
  <2>2. j < k \/ j = k \/ k < j BY <1>2
  <2>3. QED BY <1>3, <2>1, <2>2
<1>5. list \in Injection(1..m, S) BY <1>3, <1>4 DEF Injection, IsInjective
<1>6. Cardinality(1..m) = m BY <1>2, FS_Interval
<1>7. list \in Surjection(1..m, S) BY <1>1, <1>5, <1>6, FS_Injection DEF m
<1>8. PICK j \in 1..m : list[j] = p BY <1>7 DEF Surjection
<1> DEFINE before == {q \in S : q < p}
           first == [k \in 1..(j - 1) |-> list[k]]
<1>9. first \in Bijection(1..(j - 1), before)
  <2>1. \A k \in 1..(j - 1) : k \in 1..m /\ k < j BY <1>2
  <2>2. first \in [1..(j - 1) -> before] BY <1>3, <1>8, <2>1
  <2>3. ASSUME NEW q \in before PROVE \E k \in 1..(j - 1) : first[k] = q
    <3>1. PICK k \in 1..m : list[k] = q BY <1>7 DEF Surjection
    <3>2. k < j BY <1>4, <1>8, <3>1
    <3>3. k \in 1..(j - 1) BY <3>2
    <3>4. QED BY <3>1, <3>3
  <2>4. \A k, l \in 1..(j - 1) : first[k] = first[l] => k = l BY <1>4, <2>1
  <2> HIDE DEF first, before
  <2>5. QED BY <2>2, <2>3, <2>4 DEF Bijection, Injection, IsInjective, Surjection
<1>10. Cardinality(before) = j - 1
  <2>1. ExistsBijection(1..(j - 1), before) BY <1>9 DEF ExistsBijection
  <2>2. j - 1 \in Nat BY <1>2
  <2> HIDE DEF before
  <2>3. QED BY <2>1, <2>2, FS_CountingElements
<1>11. rank(S, p) = j - 1 BY <1>10 DEF rank
<1>12. QED BY <1>2, <1>8, <1>11 DEF m

\* A position that has not waited is within what it may wait, wherever a pass starts.
LEMMA FreshIsWithin ==
  ASSUME NEW S \in SUBSET Positions, NEW p \in S, NEW s \in 0..(Cardinality(S) - 1)
  PROVE  owed(S, s, p, 0) <= Ceiling
<1> DEFINE m == Cardinality(S)
           n == Cardinality(Positions)
<1>1. m \in Nat \ {0} /\ m <= n /\ n \in Nat \ {0} BY RankRange
<1>2. gap(S, s, p) \in 0..(m - 1) BY GapRange
<1>3. owed(S, s, p, 0) = 2 * gap(S, s, p) + triangle(m) BY <1>1, <1>2, Triangles DEF owed
<1>4. Ceiling = n * (n - 1) BY DEF Ceiling
<1> HIDE DEF m, n
<1>5. triangle(m) \in Nat /\ 2 * (m - 1) + triangle(m) = m * (m - 1) BY <1>1, Triangles
<1>6. m * (m - 1) <= n * (n - 1)
  <2>1. m - 1 \in Nat /\ n - 1 \in Nat /\ m - 1 <= n - 1 /\ m \in Nat /\ n \in Nat BY <1>1
  <2>2. m * (m - 1) <= n * (m - 1) BY <1>1, <2>1, TimesMonotone
  <2>3. n * (m - 1) <= n * (n - 1) BY <2>1, TimesMonotone
  <2>4. m * (m - 1) \in Int /\ n * (m - 1) \in Int /\ n * (n - 1) \in Int BY <2>1
  <2>5. QED BY <2>2, <2>3, <2>4
<1>7. m * (m - 1) \in Int /\ n * (n - 1) \in Int BY <1>1
<1>8. QED BY <1>1, <1>2, <1>3, <1>4, <1>5, <1>6, <1>7

\* When others leave the list, one more wait and a turn anywhere in what is left
\* cost no more than what the longer list allowed, if the turn was still to come.
LEMMA ShorterIsWithin ==
  ASSUME NEW S \in SUBSET Positions, NEW T \in SUBSET S, T # S, NEW p \in T,
         NEW s \in 0..(Cardinality(S) - 1), NEW t \in 0..(Cardinality(T) - 1),
         NEW w \in Nat, NEW d \in 0..1, gap(S, s, p) >= d, owed(S, s, p, w) <= Ceiling
  PROVE  owed(T, t, p, w + d) <= Ceiling
<1> DEFINE m == Cardinality(S)
           k == Cardinality(T)
<1>1. T \in SUBSET Positions /\ p \in S OBVIOUS
<1>2. m \in Nat \ {0} /\ k \in Nat \ {0} BY <1>1, RankRange
<1>3. k < m
  <2>1. IsFiniteSet(S) BY PassAssumption, FS_Subset
  <2>2. k <= m /\ (m = k => S = T) BY <2>1, FS_Subset
  <2>3. QED BY <1>2, <2>2
<1>4. gap(S, s, p) \in 0..(m - 1) /\ gap(T, t, p) \in 0..(k - 1) BY <1>1, GapRange
<1>5. /\ owed(S, s, p, w) = 2 * w + 2 * gap(S, s, p) + triangle(m)
      /\ owed(T, t, p, w + d) = 2 * (w + d) + 2 * gap(T, t, p) + triangle(k)
  BY DEF owed
<1>6. Ceiling \in Int
  <2>1. Cardinality(Positions) \in Nat BY <1>1, RankRange
  <2>2. QED BY <2>1 DEF Ceiling
<1> HIDE DEF m, k
<1>7. triangle(m) \in Nat /\ triangle(k) \in Nat /\ 2 * (k - 1) + triangle(k) <= triangle(m)
  BY <1>2, <1>3, Triangles
<1>8. QED BY <1>2, <1>4, <1>5, <1>6, <1>7

\* What a position is owed bounds what it has waited.
LEMMA WaitedWithin ==
  ASSUME NEW S \in SUBSET Positions, NEW p \in S, NEW s \in 0..(Cardinality(S) - 1), NEW w \in Nat,
         NEW d \in 0..1, gap(S, s, p) >= d, owed(S, s, p, w) <= Ceiling
  PROVE  2 * (w + d) <= Ceiling
<1>1. Cardinality(S) \in Nat \ {0} /\ Cardinality(Positions) \in Nat BY RankRange
<1>2. triangle(Cardinality(S)) \in Nat BY <1>1, Triangles
<1>3. gap(S, s, p) \in 0..(Cardinality(S) - 1) BY GapRange
<1>4. Ceiling \in Int BY <1>1 DEF Ceiling
<1>5. QED BY <1>1, <1>2, <1>3, <1>4 DEF owed

\* A pass that starts at s has tried the positions that were less than i away from it.
LEMMA UntriedIsAhead ==
  ASSUME NEW S \in SUBSET Positions, NEW list \in ascending(S), NEW p \in S,
         NEW s \in 0..(Cardinality(S) - 1), NEW i \in 0..Cardinality(S),
         p \notin {list[((s + k) % Cardinality(S)) + 1] : k \in 0..(i - 1)}
  PROVE  gap(S, s, p) >= i
<1> DEFINE m == Cardinality(S)
           g == gap(S, s, p)
<1>1. m \in Nat \ {0} /\ rank(S, p) \in 0..(m - 1) BY RankRange
<1>2. g \in 0..(m - 1) BY GapRange
<1>3. s + g = rank(S, p) \/ s + g = rank(S, p) + m BY <1>1 DEF gap
<1>4. \A a \in 0..(m - 1) : a % m = a /\ (a + m) % m = a BY <1>1, Remainder
<1>5. (s + g) % m = rank(S, p) BY <1>1, <1>3, <1>4
<1>6. list[((s + g) % m) + 1] = p BY <1>5, ListedAtRank
<1>7. g \notin 0..(i - 1) BY <1>6
<1> HIDE DEF m, g
<1>8. g >= i BY <1>1, <1>2, <1>7
<1>9. QED BY <1>8 DEF g

\* The pass after one that tried i starts i positions closer to the others of the
\* same list.
LEMMA NextIsCloser ==
  ASSUME NEW S \in SUBSET Positions, NEW p \in S, NEW s \in 0..(Cardinality(S) - 1),
         NEW i \in 0..Cardinality(S), gap(S, s, p) >= i
  PROVE  gap(S, (s + i) % Cardinality(S), p) = gap(S, s, p) - i
<1> DEFINE m == Cardinality(S)
<1>1. m \in Nat \ {0} /\ rank(S, p) \in 0..(m - 1) BY RankRange
<1>2. gap(S, s, p) \in 0..(m - 1) BY GapRange
<1>3. \A a \in 0..(m - 1) : a % m = a /\ (a + m) % m = a BY <1>1, Remainder
<1> DEFINE r == rank(S, p)
<1>4. gap(S, s, p) = IF r >= s THEN r - s ELSE r - s + m BY DEF gap
<1>5. gap(S, (s + i) % m, p) = IF r >= (s + i) % m THEN r - ((s + i) % m) ELSE r - ((s + i) % m) + m BY DEF gap
<1>6. r \in 0..(m - 1) BY <1>1
<1> HIDE DEF m, r
<1>7. s \in 0..(m - 1) /\ i \in 0..(m - 1) BY <1>1, <1>2 DEF m
<1>8. CASE s + i < m
  <2>1. (s + i) % m = s + i BY <1>1, <1>3, <1>7, <1>8
  <2>2. gap(S, s + i, p) = gap(S, s, p) - i BY <1>1, <1>2, <1>4, <1>5, <1>6, <1>7, <1>8, <2>1 DEF m
  <2>3. QED BY <2>1, <2>2 DEF m
<1>9. CASE s + i >= m
  <2>1. s + i - m \in 0..(m - 1) /\ s + i = (s + i - m) + m BY <1>1, <1>7, <1>9
  <2>2. (s + i) % m = s + i - m BY <1>3, <2>1
  <2>3. gap(S, (s + i) % m, p) = gap(S, s, p) - i BY <1>1, <1>2, <1>4, <1>5, <1>6, <1>7, <1>9, <2>2 DEF m
  <2>4. QED BY <2>3 DEF m
<1>10. QED BY <1>1, <1>7, <1>8, <1>9

\* A pass that runs has a list, has come some way through it, and those that are
\* due are on it.
RunState == [due : Seq(Positions), start : Nat, i : Nat, sent : Nat, dust : Nat]

Running(S, run, now, waits) ==
    /\ S # {} /\ run.due \in ascending(S)
    /\ run \in RunState
    /\ run.start \in 0..(Cardinality(S) - 1) /\ run.i \in 0..Cardinality(S)
    /\ run.sent + run.dust = run.i
    /\ now \subseteq S
    /\ Within(S, run.start, waits)

PassInv ==
    /\ slot \in Nat /\ unlock \in [Positions -> Nat] /\ rotate \in Nat
    /\ waited \in [Positions -> Nat]
    /\ turn => lpass = no_pass
    /\ \A p \in Positions : 2 * waited[p] <= Ceiling
    /\ lpass = no_pass => Within(due_now, rotate % Cardinality(due_now), waited)
    /\ lpass # no_pass => \E S \in SUBSET Positions : Running(S, lpass, due_now, waited)

LEMMA CeilingNat == Ceiling \in Nat
<1>1. Cardinality(Positions) \in Nat BY PassAssumption, FS_CardinalityType
<1>2. CASE Cardinality(Positions) = 0 BY <1>2 DEF Ceiling
<1>3. CASE Cardinality(Positions) # 0
  <2>1. Cardinality(Positions) - 1 \in Nat BY <1>1, <1>3
  <2>2. QED BY <1>1, <2>1 DEF Ceiling
<1>4. QED BY <1>2, <1>3

\* A list that has only become shorter is within what it was.
LEMMA WithinKept ==
  ASSUME NEW S \in SUBSET Positions, NEW T \in SUBSET S, NEW r \in Nat,
         NEW w \in [Positions -> Nat], Within(S, r % Cardinality(S), w)
  PROVE  Within(T, r % Cardinality(T), w)
<1> SUFFICES ASSUME NEW p \in T PROVE owed(T, r % Cardinality(T), p, w[p]) <= Ceiling BY DEF Within
<1>1. p \in S /\ T \in SUBSET Positions /\ w[p] \in Nat OBVIOUS
<1>2. Cardinality(S) \in Nat \ {0} /\ Cardinality(T) \in Nat \ {0} BY <1>1, RankRange
<1>3. r % Cardinality(S) \in 0..(Cardinality(S) - 1) /\ r % Cardinality(T) \in 0..(Cardinality(T) - 1)
  BY <1>2, Remainder
<1>4. owed(S, r % Cardinality(S), p, w[p]) <= Ceiling BY <1>1 DEF Within
<1>5. CASE T = S BY <1>4, <1>5
<1>6. CASE T # S
  <2>1. gap(S, r % Cardinality(S), p) >= 0 BY <1>1, <1>2, <1>3, GapRange
  <2>2. owed(T, r % Cardinality(T), p, w[p] + 0) <= Ceiling
    BY <1>1, <1>3, <1>4, <1>6, <2>1, ShorterIsWithin
  <2>3. w[p] + 0 = w[p] BY <1>1
  <2>4. QED BY <2>2, <2>3
<1>7. QED BY <1>5, <1>6

\* A pass that runs stays one while positions leave the list.
LEMMA RunningKept ==
  ASSUME NEW S, NEW run, NEW now, NEW now2, NEW waits, now2 \subseteq now, Running(S, run, now, waits)
  PROVE  Running(S, run, now2, waits)
BY DEF Running

LEMMA PassInitInv == PassInit => PassInv
<1> SUFFICES ASSUME PassInit PROVE PassInv OBVIOUS
<1>1. slot = 1 /\ unlock = [p \in Positions |-> 0] /\ rotate = 0 /\ lpass = no_pass /\ waited = [p \in Positions |-> 0]
  BY DEF PassInit, NoUnlock
<1>2. due_now = {} BY <1>1 DEF due_now, matured, NoUnlock
<1>3. Within(due_now, rotate % Cardinality(due_now), waited) BY <1>2 DEF Within
<1>4. QED BY <1>1, <1>3, CeilingNat DEF PassInv

\* What is due changes when a position unlocks or leaves, and with the time.
LEMMA DueIsPositions == due_now \in SUBSET Positions
BY DEF due_now

\* Steps of an LP, and of a pass whose completion ends a withdrawal, take nothing but
\* that position off the list.
LEMMA LeavesList ==
  ASSUME NEW p \in Positions, unlock \in [Positions -> Nat], slot' = slot,
         unlock' = [unlock EXCEPT ![p] = NoUnlock]
  PROVE  due_now' \subseteq due_now /\ unlock' \in [Positions -> Nat]
BY DEF due_now, matured, lapsed, NoUnlock

LEMMA RequestNotDue ==
  ASSUME NEW p \in Positions, unlock \in [Positions -> Nat], slot \in Nat, request_withdraw(p)
  PROVE  due_now' \subseteq due_now /\ unlock' \in [Positions -> Nat]
<1>1. unlock' = [unlock EXCEPT ![p] = slot + COOLDOWN] /\ slot' = slot BY DEF request_withdraw
<1>2. slot + COOLDOWN \in Nat /\ ~(slot >= slot + COOLDOWN) BY PassAssumption
<1>3. unlock' \in [Positions -> Nat] BY <1>1, <1>2
<1>4. ASSUME NEW q \in due_now' PROVE q \in due_now
  <2>1. q \in Positions /\ matured(q)' /\ ~lapsed(q)' BY <1>4 DEF due_now
  <2>2. q # p BY <1>1, <1>2, <2>1 DEF matured
  <2>3. unlock'[q] = unlock[q] BY <1>1, <2>1, <2>2
  <2>4. QED BY <1>1, <2>1, <2>3 DEF due_now, matured, lapsed
<1>5. QED BY <1>3, <1>4

\* A step that only shortens the list keeps the invariant.
LEMMA ShortensList ==
  ASSUME PassInv, slot' = slot, rotate' = rotate, lpass' = lpass, waited' = waited, turn' = turn,
         unlock' \in [Positions -> Nat], due_now' \subseteq due_now
  PROVE  PassInv'
<1>1. lpass = no_pass => Within(due_now', rotate % Cardinality(due_now'), waited)
  BY DueIsPositions, WithinKept DEF PassInv
<1>2. lpass # no_pass => \E S \in SUBSET Positions : Running(S, lpass, due_now', waited)
  BY RunningKept DEF PassInv
<1>3. (Within(due_now, rotate % Cardinality(due_now), waited))'
      <=> Within(due_now', rotate % Cardinality(due_now'), waited) OBVIOUS
<1>4. QED BY <1>1, <1>2, CeilingNat DEF PassInv

\* When the next pass is due, either none has joined the list, or all of them start
\* to wait anew.
LEMMA NextSlotInv == PassInv /\ next_slot => PassInv'
<1> SUFFICES ASSUME PassInv, next_slot PROVE PassInv' OBVIOUS
<1>1. /\ slot' = slot + 1 /\ turn' = TRUE /\ unlock' = unlock /\ rotate' = rotate
      /\ lpass = no_pass /\ lpass' = no_pass
      /\ waited' = IF \E p \in Positions : unlock[p] = slot' THEN [p \in Positions |-> 0] ELSE waited
  BY DEF next_slot
<1>2. /\ slot \in Nat /\ slot' \in Nat /\ unlock \in [Positions -> Nat] /\ rotate \in Nat
      /\ waited \in [Positions -> Nat] /\ \A p \in Positions : 2 * waited[p] <= Ceiling
      /\ Within(due_now, rotate % Cardinality(due_now), waited)
  BY <1>1 DEF PassInv
<1>3. waited' \in [Positions -> Nat] /\ \A p \in Positions : 2 * waited'[p] <= Ceiling BY <1>1, <1>2, CeilingNat
<1>4. due_now' \in SUBSET Positions BY DEF due_now
<1>5. Within(due_now', rotate % Cardinality(due_now'), waited')
  <2>1. CASE \E p \in Positions : unlock[p] = slot'
    <3> SUFFICES ASSUME NEW p \in due_now' PROVE owed(due_now', rotate % Cardinality(due_now'), p, waited'[p]) <= Ceiling
        BY DEF Within
    <3>1. waited'[p] = 0 BY <1>1, <1>4, <2>1
    <3>2. rotate % Cardinality(due_now') \in 0..(Cardinality(due_now') - 1) BY <1>2, <1>4, RankRange, Remainder
    <3>3. QED BY <1>4, <3>1, <3>2, FreshIsWithin
  <2>2. CASE ~\E p \in Positions : unlock[p] = slot'
    <3>1. waited' = waited BY <1>1, <2>2
    <3>2. due_now' \subseteq due_now
      <4> SUFFICES ASSUME NEW q \in due_now' PROVE q \in due_now OBVIOUS
      <4>1. /\ q \in Positions /\ unlock[q] # NoUnlock /\ slot + 1 >= unlock[q]
            /\ ~(slot + 1 > unlock[q] + CLAIM_WINDOW)
        BY <1>1 DEF due_now, matured, lapsed
      <4>2. unlock[q] \in Nat /\ unlock[q] # slot + 1 /\ CLAIM_WINDOW \in Nat BY <1>1, <1>2, <2>2, <4>1, PassAssumption
      <4>3. QED BY <1>2, <4>1, <4>2 DEF due_now, matured, lapsed
    <3>3. QED BY <1>2, <3>1, <3>2, DueIsPositions, WithinKept
  <2>3. QED BY <2>1, <2>2
<1>6. (Within(due_now, rotate % Cardinality(due_now), waited))'
      <=> Within(due_now', rotate % Cardinality(due_now'), waited') BY <1>1
<1>7. QED BY <1>1, <1>2, <1>3, <1>5, <1>6, CeilingNat DEF PassInv

\* A process that starts again has waited for none, and starts at the head.
LEMMA PassRestartInv == PassInv /\ restart => PassInv'
<1> SUFFICES ASSUME PassInv, restart PROVE PassInv' OBVIOUS
<1>1. /\ rotate' = 0 /\ lpass' = no_pass /\ waited' = [p \in Positions |-> 0]
      /\ slot' = slot /\ unlock' = unlock
  BY DEF restart
<1>2. due_now' = due_now BY <1>1 DEF due_now, matured, lapsed
<1>3. Within(due_now, 0 % Cardinality(due_now), waited')
  <2> SUFFICES ASSUME NEW p \in due_now PROVE owed(due_now, 0 % Cardinality(due_now), p, waited'[p]) <= Ceiling
      BY DEF Within
  <2>1. waited'[p] = 0 BY <1>1, DueIsPositions
  <2>2. 0 % Cardinality(due_now) \in 0..(Cardinality(due_now) - 1) BY DueIsPositions, RankRange, Remainder
  <2>3. QED BY <2>1, <2>2, DueIsPositions, FreshIsWithin
<1>4. (Within(due_now, rotate % Cardinality(due_now), waited))' <=> Within(due_now, 0 % Cardinality(due_now), waited')
  BY <1>1, <1>2
<1>5. waited' \in [Positions -> Nat] /\ \A p \in Positions : 2 * waited'[p] <= Ceiling BY <1>1, CeilingNat
<1>6. QED BY <1>1, <1>3, <1>4, <1>5 DEF PassInv

\* A pass starts at the place its rotation has in what is due.
LEMMA BeginPassInv == PassInv /\ begin_lp_pass => PassInv'
<1> SUFFICES ASSUME PassInv, begin_lp_pass PROVE PassInv' OBVIOUS
<1>1. turn /\ ~turn' /\ slot' = slot /\ unlock' = unlock /\ waited' = waited BY DEF begin_lp_pass
<1>2. /\ lpass = no_pass /\ rotate \in Nat /\ Within(due_now, rotate % Cardinality(due_now), waited)
  BY <1>1 DEF PassInv
<1>3. due_now' = due_now BY <1>1 DEF due_now, matured, lapsed
<1>4. CASE due_now = {}
  <2>1. lpass' = no_pass /\ rotate' = 0 BY <1>4 DEF begin_lp_pass
  <2>2. (Within(due_now, rotate % Cardinality(due_now), waited))' BY <1>3, <1>4 DEF Within
  <2>3. QED BY <1>1, <2>1, <2>2, CeilingNat DEF PassInv
<1>5. CASE due_now # {}
  <2>1. rotate' = rotate BY <1>5 DEF begin_lp_pass
  <2>2. PICK queue \in ascending(due_now) : lpass' = [no_pass EXCEPT !.due = queue, !.start = start_of(Len(queue))]
    BY <1>5 DEF begin_lp_pass
  <2>3. PICK p \in due_now : TRUE BY <1>5
  <2>4. Cardinality(due_now) \in Nat \ {0} BY <2>3, DueIsPositions, RankRange
  <2>5. queue \in [1..Cardinality(due_now) -> due_now] BY DEF ascending
  <2>6. queue \in Seq(Positions) /\ Len(queue) = Cardinality(due_now)
    <3>1. queue \in [1..Cardinality(due_now) -> Positions] BY <2>5, DueIsPositions
    <3>2. QED BY <2>4, <3>1
  <2>7. start_of(Len(queue)) = rotate % Cardinality(due_now) BY <2>6 DEF start_of
  <2>8. rotate % Cardinality(due_now) \in 0..(Cardinality(due_now) - 1) BY <1>2, <2>4, Remainder
  <2>9. lpass' = [due |-> queue, start |-> rotate % Cardinality(due_now), i |-> 0, sent |-> 0, dust |-> 0]
    BY <2>2, <2>7 DEF no_pass
  <2>10. lpass' \in RunState BY <2>6, <2>8, <2>9 DEF RunState
  <2>11. Running(due_now, lpass', due_now, waited)
    BY <1>2, <1>5, <2>4, <2>8, <2>9, <2>10 DEF Running
  <2>12. lpass' # no_pass
    <3>1. 1 \in DOMAIN queue BY <2>4, <2>5
    <3>2. queue # <<>> BY <2>4, <2>6
    <3>3. QED BY <2>9, <3>2 DEF no_pass
  <2>13. QED BY <1>1, <1>3, <2>1, <2>11, <2>12, DueIsPositions, CeilingNat DEF PassInv
<1>6. QED BY <1>4, <1>5

\* A send, or a position skipped as dust, gets the pass one position further.
LEMMA RunAdvances ==
  ASSUME NEW S \in SUBSET Positions, NEW run, NEW run2, NEW now, NEW waits,
         Running(S, run, now, waits), run.i < Len(run.due),
         \/ run2 = [run EXCEPT !.i = @ + 1, !.dust = @ + 1]
         \/ run2 = [run EXCEPT !.i = @ + 1, !.sent = @ + 1]
  PROVE  Running(S, run2, now, waits) /\ run2 # no_pass
<1>1. run \in RunState /\ run.due \in ascending(S) /\ S # {} /\ run.i \in 0..Cardinality(S) BY DEF Running
<1>2. PICK p \in S : TRUE BY <1>1
<1>3. Cardinality(S) \in Nat \ {0} BY <1>2, RankRange
<1>4. run.due \in [1..Cardinality(S) -> S] BY <1>1 DEF ascending
<1>5. Len(run.due) = Cardinality(S) BY <1>1, <1>3, <1>4 DEF RunState
<1>6. /\ run2 \in RunState /\ run2.due = run.due /\ run2.start = run.start /\ run2.i = run.i + 1
      /\ run2.sent + run2.dust = run.sent + run.dust + 1
  <2>1. run.i \in Nat /\ run.sent \in Nat /\ run.dust \in Nat BY <1>1 DEF RunState
  <2>2. run.i + 1 \in Nat /\ run.sent + 1 \in Nat /\ run.dust + 1 \in Nat BY <2>1
  <2>3. CASE run2 = [run EXCEPT !.i = @ + 1, !.dust = @ + 1]
    <3>1. run2 \in RunState BY <1>1, <2>2, <2>3 DEF RunState
    <3>2. /\ run2.due = run.due /\ run2.start = run.start /\ run2.i = run.i + 1
          /\ run2.sent = run.sent /\ run2.dust = run.dust + 1
      BY <1>1, <2>3 DEF RunState
    <3>3. QED BY <2>1, <3>1, <3>2
  <2>4. CASE run2 = [run EXCEPT !.i = @ + 1, !.sent = @ + 1]
    <3>1. run2 \in RunState BY <1>1, <2>2, <2>4 DEF RunState
    <3>2. /\ run2.due = run.due /\ run2.start = run.start /\ run2.i = run.i + 1
          /\ run2.sent = run.sent + 1 /\ run2.dust = run.dust
      BY <1>1, <2>4 DEF RunState
    <3>3. QED BY <2>1, <3>1, <3>2
  <2>5. QED BY <2>3, <2>4
<1>7. run2.i \in 0..Cardinality(S) BY <1>1, <1>3, <1>5, <1>6
<1>8. run2.sent + run2.dust = run2.i BY <1>6 DEF Running
<1>9. run2 # no_pass
  <2>1. 1 \in DOMAIN run.due BY <1>3, <1>4
  <2>2. run.due # <<>> BY <1>3, <1>5
  <2>3. QED BY <1>6, <2>2 DEF no_pass
<1>10. QED BY <1>6, <1>7, <1>8, <1>9 DEF Running

\* The position a pass is at is one of the list.
LEMMA CurrentListed ==
  ASSUME NEW S \in SUBSET Positions, NEW now, NEW waits, Running(S, lpass, now, waits)
  PROVE  current \in Positions /\ Len(lpass.due) = Cardinality(S) /\ Cardinality(S) \in Nat \ {0}
<1>1. lpass \in RunState /\ lpass.due \in ascending(S) /\ S # {} /\ lpass.i \in 0..Cardinality(S) BY DEF Running
<1>2. PICK p \in S : TRUE BY <1>1
<1>3. Cardinality(S) \in Nat \ {0} BY <1>2, RankRange
<1>4. lpass.due \in [1..Cardinality(S) -> S] BY <1>1 DEF ascending
<1>5. Len(lpass.due) = Cardinality(S) BY <1>1, <1>3, <1>4 DEF RunState
<1>6. (lpass.start + lpass.i) % Cardinality(S) \in 0..(Cardinality(S) - 1)
  <2>1. lpass.start \in Nat /\ lpass.i \in Nat BY <1>1 DEF RunState
  <2>2. lpass.start + lpass.i \in Nat BY <2>1
  <2>3. QED BY <1>3, <2>2, Remainder
<1>7. ((lpass.start + lpass.i) % Cardinality(S)) + 1 \in 1..Cardinality(S) BY <1>3, <1>6
<1>8. QED BY <1>3, <1>4, <1>5, <1>7 DEF current

LEMMA SendInv == PassInv /\ (skip_dust \/ complete) => PassInv'
<1> SUFFICES ASSUME PassInv, skip_dust \/ complete PROVE PassInv' OBVIOUS
<1>1. /\ slot' = slot /\ rotate' = rotate /\ waited' = waited /\ turn' = turn /\ lpass.i < Len(lpass.due)
      /\ \/ lpass' = [lpass EXCEPT !.i = @ + 1, !.dust = @ + 1]
         \/ lpass' = [lpass EXCEPT !.i = @ + 1, !.sent = @ + 1]
  BY DEF skip_dust, complete, sending
<1>2. lpass # no_pass
  <2>1. Len(<<>>) = 0 OBVIOUS
  <2>2. QED BY <1>1, <2>1 DEF no_pass
<1>3. PICK S \in SUBSET Positions : Running(S, lpass, due_now, waited) BY <1>2 DEF PassInv
<1>4. current \in Positions BY <1>3, CurrentListed
<1>5. unlock \in [Positions -> Nat] BY DEF PassInv
<1>6. unlock' = unlock \/ unlock' = [unlock EXCEPT ![current] = NoUnlock]
  <2>1. CASE skip_dust BY <2>1 DEF skip_dust
  <2>2. CASE complete
    <3>1. unlock' = [unlock EXCEPT ![current] = IF current \notin Failing /\ matured(current) /\ ~lapsed(current)
                                                THEN NoUnlock ELSE @]
      BY <2>2 DEF complete
    <3>2. [unlock EXCEPT ![current] = unlock[current]] = unlock BY <1>4, <1>5
    <3> HIDE DEF current
    <3>3. QED BY <3>1, <3>2
  <2>3. QED BY <2>1, <2>2
<1>7. due_now' \subseteq due_now /\ unlock' \in [Positions -> Nat]
  <2>1. CASE unlock' = unlock BY <1>1, <1>5, <2>1 DEF due_now, matured, lapsed
  <2>2. CASE unlock' = [unlock EXCEPT ![current] = NoUnlock] BY <1>1, <1>4, <1>5, <2>2, LeavesList
  <2>3. QED BY <1>6, <2>1, <2>2
<1>8. Running(S, lpass', due_now, waited) /\ lpass' # no_pass BY <1>1, <1>3, RunAdvances
<1>9. Running(S, lpass', due_now', waited) BY <1>7, <1>8, RunningKept
<1>10. ~turn BY <1>2 DEF PassInv
<1>11. QED BY <1>1, <1>7, <1>8, <1>9, <1>10, CeilingNat DEF PassInv

\* One more pass waited is paid for by a turn that is at least one position closer.
LEMMA CloserPays ==
  ASSUME NEW w \in Int, NEW g \in Int, NEW h, NEW n \in Int, NEW tri \in Int, NEW c \in Int,
         n >= 1, h = g - n, 2 * w + 2 * g + tri <= c
  PROVE  2 * (w + 1) + 2 * h + tri <= c
OBVIOUS

\* A pass that ends has tried at least one position; those it did not reach are that much
\* closer to the start of the next.
LEMMA EndPassInv == PassInv /\ end_lp_pass => PassInv'
<1> SUFFICES ASSUME PassInv, end_lp_pass PROVE PassInv' OBVIOUS
<1>1. /\ lpass # no_pass /\ ~sending /\ rotate' = lpass.start + lpass.sent + lpass.dust /\ lpass' = no_pass
      /\ slot' = slot /\ unlock' = unlock /\ turn' = turn
      /\ waited' = [p \in Positions |-> IF p \in tried \/ unlock[p] = NoUnlock THEN 0
                                        ELSE IF p \in ToSet(lpass.due) THEN waited[p] + 1
                                        ELSE waited[p]]
  BY DEF end_lp_pass
<1>2. PICK S \in SUBSET Positions : Running(S, lpass, due_now, waited) BY <1>1 DEF PassInv
<1> DEFINE m == Cardinality(S)
           s == lpass.start
           n == lpass.i
<1>3. Len(lpass.due) = m /\ m \in Nat \ {0} BY <1>2, CurrentListed
<1>4. /\ lpass.due \in ascending(S) /\ lpass \in RunState /\ s \in 0..(m - 1) /\ n \in 0..m
      /\ lpass.sent + lpass.dust = n /\ due_now \subseteq S /\ Within(S, s, waited)
  BY <1>2 DEF Running
<1>5. n >= 1
  <2>1. n >= m \/ lpass.sent >= MAX_PER_PASS
    <3>1. lpass.sent \in Nat /\ lpass.i \in Nat /\ MAX_PER_PASS \in Nat BY <1>4, PassAssumption DEF RunState
    <3>2. QED BY <1>1, <1>3, <3>1 DEF sending
  <2>2. lpass.sent \in Nat /\ lpass.dust \in Nat /\ MAX_PER_PASS \in Nat /\ MAX_PER_PASS >= 1
    BY <1>4, PassAssumption DEF RunState
  <2> HIDE DEF n, m
  <2>3. QED BY <1>3, <1>4, <2>1, <2>2
<1>6. rotate' = s + n /\ rotate' \in Nat
  <2>1. lpass.sent \in Nat /\ lpass.dust \in Nat /\ lpass.start \in Nat BY <1>4 DEF RunState
  <2>2. QED BY <1>1, <1>4, <2>1
<1>7. tried = {lpass.due[((s + k) % m) + 1] : k \in 0..(n - 1)} BY <1>3 DEF tried
<1>8. ToSet(lpass.due) = S
  <2>1. lpass.due \in [1..m -> S] BY <1>4 DEF ascending
  <2>2. ASSUME NEW p \in S PROVE \E j \in 1..m : lpass.due[j] = p
    <3>1. rank(S, p) + 1 \in 1..m /\ lpass.due[rank(S, p) + 1] = p BY <1>4, ListedAtRank
    <3>2. QED BY <3>1
  <2>3. DOMAIN lpass.due = 1..m BY <2>1
  <2> HIDE DEF m
  <2>4. QED BY <2>1, <2>2, <2>3 DEF ToSet
<1>9. waited \in [Positions -> Nat] /\ unlock \in [Positions -> Nat] /\ \A p \in Positions : 2 * waited[p] <= Ceiling
  BY DEF PassInv
<1>10. ASSUME NEW p \in S, p \notin tried
       PROVE  gap(S, s, p) >= n /\ gap(S, s, p) >= 1 /\ owed(S, s, p, waited[p]) <= Ceiling
  <2>1. gap(S, s, p) >= n BY <1>4, <1>7, <1>10, UntriedIsAhead
  <2>2. owed(S, s, p, waited[p]) <= Ceiling BY <1>4 DEF Within
  <2>3. gap(S, s, p) \in 0..(m - 1) BY <1>4, GapRange
  <2> HIDE DEF n, s, m
  <2>4. QED BY <1>3, <1>4, <1>5, <2>1, <2>2, <2>3
<1>11. waited' \in [Positions -> Nat]
  <2>1. \A p \in Positions : waited[p] + 1 \in Nat /\ waited[p] \in Nat BY <1>9
  <2> HIDE DEF tried
  <2>2. QED BY <1>1, <2>1
<1>12. ASSUME NEW p \in Positions PROVE 2 * waited'[p] <= Ceiling
  <2>1. CASE p \in tried \/ unlock[p] = NoUnlock
    <3>1. waited'[p] = 0 BY <1>1, <2>1
    <3>2. QED BY <3>1, CeilingNat
  <2>2. CASE ~(p \in tried \/ unlock[p] = NoUnlock) /\ p \in S
    <3>1. waited'[p] = waited[p] + 1 BY <1>1, <1>8, <2>2
    <3>2. waited[p] \in Nat /\ 1 \in 0..1 BY <1>9
    <3>3. 2 * (waited[p] + 1) <= Ceiling BY <1>4, <1>10, <2>2, <3>2, WaitedWithin
    <3>4. QED BY <3>1, <3>3
  <2>3. CASE ~(p \in tried \/ unlock[p] = NoUnlock) /\ p \notin S
    <3>1. waited'[p] = waited[p] BY <1>1, <1>8, <2>3
    <3>2. QED BY <1>9, <3>1
  <2>4. QED BY <2>1, <2>2, <2>3
<1>13. due_now' = due_now BY <1>1 DEF due_now, matured, lapsed
<1>14. Within(due_now, rotate' % Cardinality(due_now), waited')
  <2> DEFINE t == rotate' % Cardinality(due_now)
  <2> SUFFICES ASSUME NEW p \in due_now PROVE owed(due_now, t, p, waited'[p]) <= Ceiling BY DEF Within
  <2>1. p \in S /\ p \in Positions /\ unlock[p] # NoUnlock BY <1>4 DEF due_now, matured
  <2>2. Cardinality(due_now) \in Nat \ {0} BY DueIsPositions, RankRange
  <2>3. t \in 0..(Cardinality(due_now) - 1) BY <1>6, <2>2, Remainder
  <2>4. CASE p \in tried
    <3>1. waited'[p] = 0 BY <1>1, <2>1, <2>4
    <3>2. QED BY <2>3, <3>1, DueIsPositions, FreshIsWithin
  <2>5. CASE p \notin tried
    <3>1. waited'[p] = waited[p] + 1 /\ waited[p] \in Nat BY <1>1, <1>8, <1>9, <2>1, <2>5
    <3>2. gap(S, s, p) >= n /\ gap(S, s, p) >= 1 /\ owed(S, s, p, waited[p]) <= Ceiling BY <1>10, <2>1, <2>5
    <3>3. CASE due_now # S
      <4>1. 1 \in 0..1 OBVIOUS
      <4>2. owed(due_now, t, p, waited[p] + 1) <= Ceiling
        BY <1>4, <2>1, <2>3, <3>1, <3>2, <3>3, <4>1, ShorterIsWithin
      <4>3. QED BY <3>1, <4>2
    <3>4. CASE due_now = S
      <4>1. gap(S, (s + n) % m, p) = gap(S, s, p) - n BY <1>4, <2>1, <3>2, NextIsCloser
      <4>2. t = (s + n) % m BY <1>6, <3>4
      <4>3. /\ owed(S, s, p, waited[p]) = 2 * waited[p] + 2 * gap(S, s, p) + triangle(m)
            /\ owed(S, t, p, waited[p] + 1) = 2 * (waited[p] + 1) + 2 * gap(S, t, p) + triangle(m)
        BY DEF owed
      <4>4. triangle(m) \in Nat /\ gap(S, s, p) \in 0..(m - 1) /\ Ceiling \in Nat
        BY <1>3, <1>4, <2>1, Triangles, GapRange, CeilingNat
      <4>5. gap(S, t, p) = gap(S, s, p) - n BY <4>1, <4>2
      <4>6. n \in Int /\ waited[p] \in Int /\ gap(S, s, p) \in Int /\ triangle(m) \in Int /\ Ceiling \in Int
        BY <1>3, <1>4, <3>1, <4>4
      <4> HIDE DEF s, n, m, t
      <4>7. 2 * waited[p] + 2 * gap(S, s, p) + triangle(m) <= Ceiling BY <3>2, <4>3
      <4>8. 2 * (waited[p] + 1) + 2 * gap(S, t, p) + triangle(m) <= Ceiling
        BY <1>5, <4>5, <4>6, <4>7, CloserPays
      <4>9. owed(S, t, p, waited[p] + 1) <= Ceiling BY <4>3, <4>8
      <4>10. QED BY <3>1, <3>4, <4>9
    <3>5. QED BY <3>3, <3>4
  <2>6. QED BY <2>4, <2>5
<1>15. (Within(due_now, rotate % Cardinality(due_now), waited))'
         <=> Within(due_now, rotate' % Cardinality(due_now), waited') BY <1>13
<1>16. slot' \in Nat /\ unlock' \in [Positions -> Nat] BY <1>1, <1>9 DEF PassInv
<1>17. QED BY <1>1, <1>6, <1>11, <1>12, <1>14, <1>15, <1>16 DEF PassInv

LEMMA PassNextInv == PassInv /\ [PassNext]_lpPassVars => PassInv'
<1> SUFFICES ASSUME PassInv, [PassNext]_lpPassVars PROVE PassInv' OBVIOUS
<1>1. unlock \in [Positions -> Nat] /\ slot \in Nat BY DEF PassInv
<1>2. CASE next_slot BY <1>2, NextSlotInv
<1>3. CASE restart BY <1>3, PassRestartInv
<1>4. CASE begin_lp_pass BY <1>4, BeginPassInv
<1>5. CASE skip_dust BY <1>5, SendInv
<1>6. CASE complete BY <1>6, SendInv
<1>7. CASE end_lp_pass BY <1>7, EndPassInv
<1>8. CASE \E p \in Positions : request_withdraw(p)
  <2>1. PICK p \in Positions : request_withdraw(p) BY <1>8
  <2>2. slot' = slot /\ rotate' = rotate /\ lpass' = lpass /\ waited' = waited /\ turn' = turn
    BY <2>1 DEF request_withdraw
  <2>3. QED BY <1>1, <2>1, <2>2, RequestNotDue, ShortensList
<1>9. CASE \E p \in Positions : ends_it_himself(p)
  <2>1. PICK p \in Positions : ends_it_himself(p) BY <1>9
  <2>2. /\ slot' = slot /\ rotate' = rotate /\ lpass' = lpass /\ waited' = waited /\ turn' = turn
        /\ unlock' = [unlock EXCEPT ![p] = NoUnlock]
    BY <2>1 DEF ends_it_himself
  <2>3. QED BY <1>1, <2>2, LeavesList, ShortensList
<1>10. CASE UNCHANGED lpPassVars
  <2>1. slot' = slot /\ unlock' = unlock /\ rotate' = rotate /\ lpass' = lpass /\ waited' = waited /\ turn' = turn
    BY <1>10 DEF lpPassVars
  <2>2. due_now' \subseteq due_now /\ unlock' \in [Positions -> Nat]
    BY <1>1, <2>1 DEF due_now, matured, lapsed
  <2>3. QED BY <2>1, <2>2, ShortensList
<1>11. QED BY <1>2, <1>3, <1>4, <1>5, <1>6, <1>7, <1>8, <1>9, <1>10 DEF PassNext

\* As long as none joins the list, a withdrawal that is due gets its turn, whatever the
\* others do: completions that fail, dust that is skipped, positions that leave and
\* lapse, and LPs who are first (runLpAutoComplete, with its rotation).
THEOREM EachGetsItsTurn == PassSpec => []DueGetsItsTurn
<1>1. PassInv => DueGetsItsTurn
  <2> SUFFICES ASSUME PassInv, NEW p \in Positions
               PROVE waited[p] <= (Cardinality(Positions) * (Cardinality(Positions) - 1)) \div 2
      BY DEF DueGetsItsTurn
  <2>1. 2 * waited[p] <= Ceiling /\ waited[p] \in Nat BY DEF PassInv
  <2>2. \A c \in Nat : 2 * waited[p] <= c => waited[p] <= c \div 2 BY <2>1
  <2>3. waited[p] <= Ceiling \div 2 BY <2>1, <2>2, CeilingNat
  <2>4. QED BY <2>3 DEF Ceiling
<1>2. QED BY <1>1, PassInitInv, PassNextInv, PTL DEF PassSpec

=============================================================================
