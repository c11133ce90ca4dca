----------------------------- MODULE RelayPush ------------------------------
(***************************************************************************)
(* What the relay process pushes to the web server: the signatures that    *)
(* its log subscription reports (apps/realtime/src/alchemy-logs.ts) and    *)
(* the cron tick (tickCron in apps/realtime/src/index.ts).  The server's   *)
(* side is IndexerPass, LpMirror and CronTick.                             *)
(*                                                                         *)
(* A signature is posted once and never again by this process while it is  *)
(* remembered, whether the post arrives or not: the indexer's pass is what *)
(* makes up for a lost one.  Delays and the pings of the socket are left   *)
(* out.                                                                    *)
(***************************************************************************)
EXTENDS Integers, Sequences, FiniteSets, SequencesExt

CONSTANTS
    Sigs,                \* signatures of the program's transactions
    Targets,             \* the URLs of CRON_TICK_URL
    RECENT_SIG_CACHE,    \* signatures remembered
    MaxPosts             \* bound: signatures posted by a process

ASSUME CacheAssumption == RECENT_SIG_CACHE \in Nat \ {0}

VARIABLES
    link,      \* the subscription's socket: connecting, open, or waiting to reconnect
    recent,    \* the signatures remembered, oldest first
    posting,   \* posts under way
    posted,    \* history: every signature this process posted
    tick_of    \* the tick under way: the targets that have not answered

pushVars == <<link, recent, posting, posted, tick_of>>

Idle == {}               \* cronInflight is false
Stopped == "stopped"

PushInit ==
    /\ link = "connecting"
    /\ recent = <<>> /\ posted = <<>>
    /\ posting = {}
    /\ tick_of = Idle

-----------------------------------------------------------------------------
(* The signatures *)

remembered(sig) ==
    LET order == Append(recent, sig) IN
    IF Len(order) > RECENT_SIG_CACHE THEN Tail(order) ELSE order

LinkOpen ==
    /\ link = "connecting" /\ link' = "open"
    /\ UNCHANGED <<recent, posting, posted, tick_of>>

\* The socket closes, from connecting or from open, and a new one is scheduled.
LinkClose ==
    /\ link \in {"connecting", "open"} /\ link' = "waiting"
    /\ UNCHANGED <<recent, posting, posted, tick_of>>

LinkReconnect ==
    /\ link = "waiting" /\ link' = "connecting"
    /\ UNCHANGED <<recent, posting, posted, tick_of>>

\* A notification, new or sent again after a reconnect.
LogsNotification ==
    \E sig \in Sigs :
       /\ link = "open" /\ Len(posted) < MaxPosts
       /\ ~\E i \in DOMAIN recent : recent[i] = sig
       /\ recent' = remembered(sig)
       /\ posting' = posting \cup {sig}
       /\ posted' = Append(posted, sig)
       /\ UNCHANGED <<link, tick_of>>

\* The post is answered, refused, or given up after its timeout: all the same to the relay.
PostEnds ==
    \E sig \in posting :
       /\ posting' = posting \ {sig}
       /\ UNCHANGED <<link, recent, posted, tick_of>>

-----------------------------------------------------------------------------
(* The tick *)

\* The minute's timer: nothing while the previous tick is under way.
TickCron ==
    /\ link # Stopped /\ tick_of = Idle
    /\ tick_of' = Targets
    /\ UNCHANGED <<link, recent, posting, posted>>

\* A target answers, fails or throws; the last one ends the tick.
TargetEnds ==
    /\ tick_of # Idle
    /\ \E url \in tick_of : tick_of' = IF tick_of = {url} THEN Idle ELSE tick_of \ {url}
    /\ UNCHANGED <<link, recent, posting, posted>>

-----------------------------------------------------------------------------
\* shutdown: the subscription's socket is closed for good, and the interval cleared.
Stop ==
    /\ link # Stopped /\ link' = Stopped
    /\ UNCHANGED <<recent, posting, posted, tick_of>>

\* The process ends, with whatever was under way, and the next one remembers nothing.
PushRestart ==
    /\ link' = "connecting"
    /\ recent' = <<>> /\ posted' = <<>> /\ posting' = {}
    /\ tick_of' = Idle

PushNext ==
    \/ LinkOpen \/ LinkClose \/ LinkReconnect \/ LogsNotification \/ PostEnds
    \/ TickCron \/ TargetEnds \/ Stop \/ PushRestart

PushSpec == PushInit /\ [][PushNext]_pushVars

-----------------------------------------------------------------------------
(* Properties *)

\* Notifications that are replayed after a reconnect are not posted again: between two posts
\* of a signature there are as many others as the process remembers.
ReplaysPostedOnce ==
    \A i, j \in DOMAIN posted :
       i < j /\ posted[i] = posted[j] =>
          Cardinality({posted[k] : k \in (i + 1)..(j - 1)}) >= RECENT_SIG_CACHE

=============================================================================
