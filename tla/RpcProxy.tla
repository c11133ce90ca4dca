------------------------------ MODULE RpcProxy ------------------------------
(***************************************************************************)
(* One browser on the relay's RPC proxy (apps/realtime/src/index.ts): the  *)
(* relay opens an upstream socket of its own for it, checks every frame    *)
(* against the methods, the rate and the numbers it allows, and keeps the  *)
(* account of the subscriptions the paid upstream carries for it from the  *)
(* answers that pass by.                                                   *)
(*                                                                         *)
(* A call is its method, its id and, when it unsubscribes, the             *)
(* subscription it names.  Frames of other shapes (binary, oversized, not  *)
(* JSON) are refused like a method that is not allowed, and parameters,    *)
(* payloads and notifications other than those of signatures are left out. *)
(***************************************************************************)
EXTENDS Integers, Sequences, FiniteSets, SequencesExt

CONSTANTS
    Ids,                     \* ids a client gives its calls
    NoId,                    \* a call without an id that can be matched
    RPC_MAX_BATCH,           \* calls in a frame
    RPC_MAX_PENDING,         \* calls under way, and frames that wait for the upstream
    RPC_MAX_SUBSCRIPTIONS,   \* subscriptions of a connection
    RPC_BURST,               \* calls the rate limit lets pass at once
    MaxFrames                \* bound: frames a client sends

ASSUME ProxyAssumption ==
    /\ NoId \notin Ids
    /\ {RPC_MAX_BATCH, RPC_MAX_PENDING, RPC_MAX_SUBSCRIPTIONS, RPC_BURST} \subseteq Nat

VARIABLES
    conn,    \* the relay's side: both sockets, buffered frames, account, rate
    paid,    \* the upstream's: calls it has, answers on their way, subscriptions it carries
    frames   \* frames sent so far (the bound)

proxyVars == <<conn, paid, frames>>

call(method, id, sub) == [method |-> method, id |-> id, sub |-> sub]

NoCall == {}                 \* a function with no call under way
NoSub == 0

Subscribes == {"accountSubscribe", "signatureSubscribe"}

WS_ALLOWED_METHODS == Subscribes \cup {"unsubscribe", "get"}

\* What a browser may send: its subscriptions, what it knows of them, anything else.
Calls == {call(m, i, NoSub) : m \in Subscribes \cup {"get", "sendTransaction"}, i \in Ids \cup {NoId}}
         \cup {call("unsubscribe", i, s) : i \in Ids \cup {NoId}, s \in 1..paid.issued}

Frames == UNION {[1..n -> Calls] : n \in 1..RPC_MAX_BATCH}

\* The places of a frame whose call subscribes, and whose call has an id; and the ids.
subscribing(frame) == {k \in DOMAIN frame : frame[k].method \in Subscribes}
keyed(frame) == {k \in DOMAIN frame : frame[k].id # NoId}
ids_of(frame) == {frame[k].id : k \in keyed(frame)}

-----------------------------------------------------------------------------
(* The account *)

\* A frame is forwarded as it is or refused as a whole: methods, ids that can be told apart
\* from those under way, subscriptions, calls under way, rate.
frame_admitted(frame) ==
    /\ \A k \in DOMAIN frame : frame[k].method \in WS_ALLOWED_METHODS
    /\ subscribing(frame) \subseteq keyed(frame)
    /\ \A j, k \in keyed(frame) : frame[j].id = frame[k].id => j = k
    /\ ids_of(frame) \cap DOMAIN conn.inflight = {}
    /\ subscribing(frame) # {} =>
          Cardinality(conn.subs) + conn.pendingSubs + Cardinality(subscribing(frame)) <= RPC_MAX_SUBSCRIPTIONS
    /\ Cardinality(DOMAIN conn.inflight) + Cardinality(ids_of(frame)) <= RPC_MAX_PENDING
    /\ Len(frame) <= conn.tokens

\* A subscription counts from its request on, and every call with an id is remembered.
accounted(frame) ==
    [conn EXCEPT
       !.tokens = @ - Len(frame),
       !.pendingSubs = @ + Cardinality(subscribing(frame)),
       !.inflight = [i \in DOMAIN @ \cup ids_of(frame) |->
                       IF i \in DOMAIN @ THEN @[i] ELSE CHOOSE c \in ToSet(frame) : c.id = i]]

\* Mutant: a subscription is dropped when upstream answers its unsubscribe, whatever it answers.
noteUpstream_any_answer(message) ==
    IF message.id = NoId
    THEN [conn EXCEPT !.subs = IF message.final THEN @ \ {message.sub} ELSE @]
    ELSE LET c == conn.inflight[message.id] IN
         [conn EXCEPT !.inflight = [i \in DOMAIN @ \ {message.id} |-> @[i]],
                      !.pendingSubs = IF c.method \in Subscribes THEN @ - 1 ELSE @,
                      !.subs = IF c.method = "unsubscribe" THEN @ \ {c.sub}
                               ELSE IF c.method \in Subscribes /\ message.ok THEN @ \cup {message.sub}
                               ELSE @]

\* A message from upstream: the last notification of a signature, or an answer.
noteUpstream(message) ==
    IF message.id = NoId
    THEN [conn EXCEPT !.subs = IF message.final THEN @ \ {message.sub} ELSE @]
    ELSE LET c == conn.inflight[message.id] IN
         [conn EXCEPT !.inflight = [i \in DOMAIN @ \ {message.id} |-> @[i]],
                      !.pendingSubs = IF c.method \in Subscribes THEN @ - 1 ELSE @,
                      !.subs = IF ~message.ok THEN @
                               ELSE IF c.method = "unsubscribe" THEN @ \ {c.sub}
                               ELSE IF c.method \in Subscribes THEN @ \cup {message.sub}
                               ELSE @]

-----------------------------------------------------------------------------
(* The sockets *)

\* ws refuses to send the codes that report a close without a close frame.
sendable(code) == code \notin {1005, 1006}

close_code(code) == IF code \in {1005, 1006} THEN 1000 ELSE code

\* A socket told to close; a code that cannot be sent throws and leaves it open.
told_to_close(socket, code) == IF socket = "open" /\ ~sendable(code) THEN "open" ELSE "closed"

closeBoth(c, code) ==
    IF c.closed THEN c
    ELSE [c EXCEPT !.closed = TRUE,
                   !.client = told_to_close(@, close_code(code)),
                   !.upstream = told_to_close(@, close_code(code))]

\* Subscriptions and calls are the upstream socket's: they go with it.
carried_by(c) ==
    IF c.upstream = "open" THEN paid ELSE [paid EXCEPT !.asked = {}, !.answers = <<>>, !.live = {}]

closes(c, code) ==
    /\ conn' = closeBoth(c, code)
    /\ paid' = carried_by(conn')

Open == conn.client = "open" /\ ~conn.closed

-----------------------------------------------------------------------------
ProxyInit ==
    /\ conn = [client |-> "open", upstream |-> "connecting", closed |-> FALSE, pending |-> <<>>,
               inflight |-> [i \in NoCall |-> i], subs |-> {}, pendingSubs |-> 0, tokens |-> RPC_BURST]
    /\ paid = [asked |-> {}, answers |-> <<>>, live |-> {}, issued |-> 0]
    /\ frames = 0

\* The upstream socket opens and gets the frames that waited for it.
UpstreamOpen ==
    /\ conn.upstream = "connecting"
    /\ conn' = [conn EXCEPT !.upstream = "open", !.pending = <<>>]
    /\ paid' = [paid EXCEPT !.asked = @ \cup UNION {ToSet(frame) : frame \in ToSet(conn.pending)}]
    /\ UNCHANGED frames

\* The browser's frame: refused (and the connection closed when the browser does not read
\* its error), kept until the upstream is open, or forwarded.
ClientMessage ==
    /\ Open /\ frames < MaxFrames
    /\ frames' = frames + 1
    /\ \/ (\E frame \in Frames : ~frame_admitted(frame)) /\ closes(conn, 1013)
       \/ \E frame \in {f \in Frames : frame_admitted(f)} :
            \/ /\ conn.upstream = "connecting"
               /\ IF Len(conn.pending) >= RPC_MAX_PENDING
                  THEN closes(accounted(frame), 1013)
                  ELSE conn' = [accounted(frame) EXCEPT !.pending = Append(@, frame)] /\ UNCHANGED paid
            \/ /\ conn.upstream = "open"
               /\ conn' = accounted(frame)
               /\ paid' = [paid EXCEPT !.asked = @ \cup ToSet(frame)]

\* The rate limit's bucket fills with time.
Refill ==
    /\ Open /\ conn.tokens < RPC_BURST
    /\ conn' = [conn EXCEPT !.tokens = @ + 1]
    /\ UNCHANGED <<paid, frames>>

answer(id, ok, sub) == [id |-> id, ok |-> ok, sub |-> sub, final |-> FALSE]
notification(sub, final) == [id |-> NoId, ok |-> TRUE, sub |-> sub, final |-> final]

\* A call without an id is carried out and not answered.
answered(c, ok, sub) ==
    IF c.id = NoId THEN paid.answers ELSE Append(paid.answers, answer(c.id, ok, sub))

\* Upstream carries out one of the calls it has, in any order, or fails it.
Serve ==
    \E c \in paid.asked :
       /\ paid' = LET taken == [paid EXCEPT !.asked = @ \ {c}] IN
                  IF c.method \in Subscribes
                  THEN [taken EXCEPT !.issued = @ + 1,
                                     !.live = @ \cup {[sub |-> paid.issued + 1, signature |-> c.method = "signatureSubscribe"]},
                                     !.answers = answered(c, TRUE, paid.issued + 1)]
                  ELSE [taken EXCEPT !.live = {l \in @ : c.method = "unsubscribe" => l.sub # c.sub},
                                     !.answers = answered(c, c.method = "unsubscribe" =>
                                                               \E l \in paid.live : l.sub = c.sub, NoSub)]
       /\ UNCHANGED <<conn, frames>>

ServeError ==
    \E c \in paid.asked :
       /\ paid' = [paid EXCEPT !.asked = @ \ {c}, !.answers = answered(c, FALSE, NoSub)]
       /\ UNCHANGED <<conn, frames>>

\* A signature is received, or reaches its commitment and its subscription ends by itself.
Notify ==
    \E l \in {k \in paid.live : k.signature}, final \in BOOLEAN :
       /\ Len(paid.answers) < RPC_MAX_PENDING
       /\ paid' = [paid EXCEPT !.answers = Append(@, notification(l.sub, final)),
                               !.live = IF final THEN @ \ {l} ELSE @]
       /\ UNCHANGED <<conn, frames>>

\* A message from upstream is noted and passed on, or the browser has stopped reading.
UpstreamMessage ==
    /\ paid.answers # <<>> /\ Open
    /\ \/ /\ conn' = noteUpstream(Head(paid.answers))
          /\ paid' = [paid EXCEPT !.answers = Tail(@)]
       \/ closes(conn, 1013)
    /\ UNCHANGED frames

\* Either socket ends: with a close frame, without one, without a status, in an error.
ClientClose ==
    \E code \in {1000, 1005, 1006, 1011} :
       /\ conn.client = "open" /\ closes([conn EXCEPT !.client = "closed"], code)
       /\ UNCHANGED frames

UpstreamClose ==
    \E code \in {1000, 1005, 1006, 1011} :
       /\ conn.upstream \in {"connecting", "open"}
       /\ closes([conn EXCEPT !.upstream = "closed"], code)
       /\ UNCHANGED frames

ProxyNext ==
    \/ UpstreamOpen \/ ClientMessage \/ Refill \/ Serve \/ ServeError \/ Notify \/ UpstreamMessage
    \/ ClientClose \/ UpstreamClose

ProxySpec == ProxyInit /\ [][ProxyNext]_proxyVars

-----------------------------------------------------------------------------
(* Properties *)

\* What the paid upstream carries for a browser, whatever it sent, however its answers,
\* errors and final notifications crossed its unsubscribes, never passes the limit of a
\* connection, and nothing is carried for a browser that is gone.
UpstreamWithinCap ==
    conn.upstream = "open" =>
       Cardinality(paid.live) + Cardinality({c \in paid.asked : c.method \in Subscribes})
          <= (IF conn.client = "open" THEN RPC_MAX_SUBSCRIPTIONS ELSE 0)

=============================================================================
