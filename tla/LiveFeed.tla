------------------------------ MODULE LiveFeed ------------------------------
(***************************************************************************)
(* The live feed, from a committed row to a browser's list: the trigger on *)
(* public.games notifies, the relay listens and broadcasts                 *)
(* (apps/realtime/src/index.ts), and a browser merges what it hears with   *)
(* what it polls (useGlobalGames and /api/activity/global in apps/web).    *)
(*                                                                         *)
(* A change is named by its place in the order of commits, and a row by    *)
(* its slot.  One connection to Postgres serves every viewer; when it      *)
(* fails, an error event, an end event and a rejected query may each say   *)
(* so, in any order and late.  The same process pushes to the web server   *)
(* (RelayPush), from a connection of its own.                              *)
(***************************************************************************)
EXTENDS RelayPush

CONSTANTS
    Slots,                \* the rows of public.games, by slot
    limit,                \* rows a browser keeps
    API_LIMIT,            \* rows the route returns at most
    MAX_RELAY_CLIENTS,    \* sockets of the relay (and of the viewer's address)
    MaxCommits,           \* bound: changes committed
    MaxListeners,         \* bound: connections to Postgres made
    MaxSockets            \* bound: sockets the viewer opens

ASSUME SlotsAssumption == Slots \subseteq Nat
ASSUME LimitsAssumption == limit \in Nat /\ API_LIMIT \in Nat

VARIABLES
    games,       \* Postgres: per row the last change, 0 when there is none
    commits,     \* changes committed
    upstream,    \* the relay's Postgres clients, timers to make one, and shuttingDown
    clients,     \* the relay's sockets to the viewer
    viewer,      \* the browser: its socket, what it heard last, its list, its poll
    opened       \* clients and sockets made so far (the bound)

feedVars == <<games, commits, upstream, clients, viewer, opened>>

NoSocket == 0
NoPoll == {}

pg_client(id) == [id |-> id, at |-> "connecting", dead |-> FALSE, reports |-> {}, queue |-> <<>>]

FeedInit ==
    /\ games = [s \in Slots |-> 0] /\ commits = 0
    /\ upstream = [pool |-> {pg_client(1)}, timers |-> 0, shuttingDown |-> FALSE]
    /\ clients = {}
    /\ viewer = [socket |-> NoSocket, heard |-> 0, list |-> <<>>, poll |-> NoPoll]
    /\ opened = [listeners |-> 1, sockets |-> 0]

-----------------------------------------------------------------------------
(* Postgres and the connection that listens *)

with_client(c, d) == [upstream EXCEPT !.pool = (@ \ {c}) \cup {d}]

\* An INSERT or an UPDATE of a row: every session that listens is notified.
Commit ==
    \E s \in Slots :
       /\ commits < MaxCommits /\ commits' = commits + 1
       /\ games' = [games EXCEPT ![s] = commits']
       /\ upstream' = [upstream EXCEPT !.pool =
                         {IF c.at = "listening" THEN [c EXCEPT !.queue = Append(@, [slot |-> s, at |-> commits'])] ELSE c :
                            c \in @}]
       /\ UNCHANGED <<clients, viewer, opened>>

\* The connection is made and LISTEN has been answered.
Listening ==
    \E c \in upstream.pool :
       /\ c.at = "connecting" /\ ~c.dead
       /\ upstream' = with_client(c, [c EXCEPT !.at = "listening"])
       /\ UNCHANGED <<games, commits, clients, viewer, opened>>

\* The connection breaks: it errs, with the query that was under way, or ends, or only the
\* query tells that nothing comes any more.
Break ==
    \E c \in upstream.pool, reports \in {{"error", "end", "rejected"}, {"end"}, {"rejected"}} :
       /\ c.at # "broken"
       /\ c.at = "connecting" => "rejected" \in reports
       /\ upstream' = with_client(c, [c EXCEPT !.at = "broken", !.reports = reports])
       /\ UNCHANGED <<games, commits, clients, viewer, opened>>

\* Mutant: every report of a failure schedules a connection.
reconnect_each(c, report) ==
    [upstream EXCEPT
       !.pool = (@ \ {c}) \cup {[c EXCEPT !.dead = TRUE, !.queue = <<>>, !.reports = @ \ {report}]},
       !.timers = IF upstream.shuttingDown THEN @ ELSE @ + 1]

\* The first report of a client's failure takes its listeners away and schedules the next
\* client; a later one, of a query that was under way, finds it dead.
reconnect(c, report) ==
    IF c.dead
    THEN with_client(c, [c EXCEPT !.reports = @ \ {report}])
    ELSE [upstream EXCEPT
            !.pool = (@ \ {c}) \cup {[c EXCEPT !.dead = TRUE, !.queue = <<>>,
                                               !.reports = (@ \cap {"rejected"}) \ {report}]},
            !.timers = IF upstream.shuttingDown THEN @ ELSE @ + 1]

Report ==
    \E c \in upstream.pool : \E report \in c.reports :
       /\ upstream' = reconnect(c, report)
       /\ UNCHANGED <<games, commits, clients, viewer, opened>>

\* The timer of a reconnect.
StartUpstream ==
    /\ upstream.timers > 0 /\ opened.listeners < MaxListeners
    /\ opened' = [opened EXCEPT !.listeners = @ + 1]
    /\ upstream' = [upstream EXCEPT !.timers = @ - 1, !.pool = @ \cup {pg_client(opened'.listeners)}]
    /\ UNCHANGED <<games, commits, clients, viewer>>

-----------------------------------------------------------------------------
(* The relay's sockets *)

\* A notification of a client that is not dead goes to every socket; a viewer that stopped
\* reading is closed, not buffered for.
Broadcast ==
    \E c \in upstream.pool :
       /\ c.queue # <<>>
       /\ upstream' = with_client(c, [c EXCEPT !.queue = Tail(@)])
       /\ \E slow \in SUBSET clients :
            clients' = {[s EXCEPT !.stream = Append(@, Head(c.queue))] : s \in clients \ slow}
       /\ UNCHANGED <<games, commits, viewer, opened>>

\* Every thirty seconds: a socket without a pong since the last time is ended.
Heartbeat ==
    /\ clients # {} /\ ~upstream.shuttingDown
    /\ clients' = {[s EXCEPT !.isAlive = FALSE] : s \in {r \in clients : r.isAlive}}
    /\ UNCHANGED <<games, commits, upstream, viewer, opened>>

Pong ==
    \E s \in clients :
       /\ s.id = viewer.socket /\ ~s.isAlive
       /\ clients' = (clients \ {s}) \cup {[s EXCEPT !.isAlive = TRUE]}
       /\ UNCHANGED <<games, commits, upstream, viewer, opened>>

\* SIGTERM: the sockets are closed, and the connection that listens is ended.
Shutdown ==
    /\ ~upstream.shuttingDown
    /\ upstream' = [upstream EXCEPT !.shuttingDown = TRUE,
                                    !.pool = {IF c.at = "broken" THEN c
                                              ELSE [c EXCEPT !.at = "broken", !.reports = {"end"}] : c \in @}]
    /\ clients' = {}
    /\ UNCHANGED <<games, commits, viewer, opened>>

\* The process ends, by itself or after a shutdown, and a new one starts.
FeedRestart ==
    /\ opened.listeners < MaxListeners
    /\ opened' = [opened EXCEPT !.listeners = @ + 1]
    /\ upstream' = [pool |-> {pg_client(opened'.listeners)}, timers |-> 0, shuttingDown |-> FALSE]
    /\ clients' = {}
    /\ UNCHANGED <<games, commits, viewer>>

-----------------------------------------------------------------------------
(* The browser *)

\* The reconnect timer opens a socket; the relay has room for it, or refuses it.
Connect ==
    /\ viewer.socket = NoSocket /\ opened.sockets < MaxSockets
    /\ Cardinality(clients) < MAX_RELAY_CLIENTS /\ ~upstream.shuttingDown
    /\ opened' = [opened EXCEPT !.sockets = @ + 1]
    /\ viewer' = [viewer EXCEPT !.socket = opened'.sockets]
    /\ clients' = clients \cup {[id |-> opened'.sockets, isAlive |-> TRUE, stream |-> <<>>]}
    /\ UNCHANGED <<games, commits, upstream>>

\* The socket closes, and the relay is told, or the network is gone and it is not.
Disconnect ==
    /\ viewer.socket # NoSocket
    /\ viewer' = [viewer EXCEPT !.socket = NoSocket]
    /\ clients' \in {clients, {s \in clients : s.id # viewer.socket}}
    /\ UNCHANGED <<games, commits, upstream, opened>>

shown(list, slot) == \E i \in DOMAIN list : list[i].slot = slot

\* A row that is listed is replaced where it is, and a new one goes to the head.
applyIncoming(list, game) ==
    IF shown(list, game.slot)
    THEN [i \in DOMAIN list |-> IF list[i].slot = game.slot THEN game ELSE list[i]]
    ELSE LET longer == <<game>> \o list IN SubSeq(longer, 1, IF Len(longer) < limit THEN Len(longer) ELSE limit)

Hear ==
    \E s \in clients :
       /\ s.id = viewer.socket /\ s.stream # <<>>
       /\ clients' = (clients \ {s}) \cup {[s EXCEPT !.stream = Tail(@)]}
       /\ viewer' = [viewer EXCEPT !.heard = Head(s.stream).at,
                                   !.list = applyIncoming(@, Head(s.stream))]
       /\ UNCHANGED <<games, commits, upstream, opened>>

\* A set of slots, the newest first.
descending(S) == {f \in [1..Cardinality(S) -> S] : \A i, j \in DOMAIN f : i < j => f[i] > f[j]}

\* The newest rows, read when the route runs its query.
newest ==
    LET rows == {s \in Slots : games[s] > 0}
        n == IF Cardinality(rows) < API_LIMIT THEN Cardinality(rows) ELSE API_LIMIT IN
    {[i \in 1..n |-> [slot |-> order[i], at |-> games[order[i]]]] : order \in descending(rows)}

Poll ==
    /\ viewer.poll = NoPoll
    /\ viewer' = [viewer EXCEPT !.poll = newest]
    /\ UNCHANGED <<games, commits, upstream, clients, opened>>

\* The answer replaces the list, however much was heard meanwhile; an error leaves it.
PollEnds ==
    /\ viewer.poll # NoPoll
    /\ \E list \in viewer.poll \cup {viewer.list} :
         viewer' = [viewer EXCEPT !.poll = NoPoll, !.list = list]
    /\ UNCHANGED <<games, commits, upstream, clients, opened>>

FeedNext ==
    \/ Commit \/ Listening \/ Break \/ Report \/ StartUpstream \/ Broadcast \/ Heartbeat \/ Pong
    \/ Shutdown \/ FeedRestart \/ Connect \/ Disconnect \/ Hear \/ Poll \/ PollEnds

FeedSpec == FeedInit /\ [][FeedNext]_feedVars

-----------------------------------------------------------------------------
(* Properties *)

increasing(s) == \A i, j \in DOMAIN s : i < j => s[i] < s[j]

\* However the relay's connection fails and is replaced, and whatever is heard and polled at
\* the same time, a viewer hears of a change at most once and of changes in the order of
\* their commits, and its list shows a game once.
HeardOnceInOrder ==
    /\ \A s \in clients : s.id = viewer.socket =>
          increasing(<<viewer.heard>> \o [i \in DOMAIN s.stream |-> s.stream[i].at])
    /\ \A i, j \in DOMAIN viewer.list : i # j => viewer.list[i].slot # viewer.list[j].slot

\* What the relay passes on, to the server and to browsers, it passes on once.
RelayedOnce == ReplaysPostedOnce /\ HeardOnceInOrder

=============================================================================
