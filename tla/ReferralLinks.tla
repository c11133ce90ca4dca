---------------------------- MODULE ReferralLinks ----------------------------
(***************************************************************************)
(* Referral links off the chain: the short codes of the wallets            *)
(* (apps/web/src/server/referral-codes.ts), the visits they are followed   *)
(* by (referral-tracking.ts), and what one browser keeps of a link until   *)
(* its player's first round sets the referrer on the chain                    *)
(* (hooks/use-referral.ts, app/r/[code], api/ref, use-vrf-game.ts).        *)
(*                                                                         *)
(* Requests run concurrently, and every query may fail.  A page may be     *)
(* left before an answer comes; localStorage may be closed to it; players  *)
(* take turns at the browser.  Of the referrals page (app/referrals) the   *)
(* link it shows is modelled; the counters (clicks, signups,               *)
(* confirmations) are left out.                                            *)
(***************************************************************************)
EXTENDS Integers, Sequences

CONSTANTS
    Referrers, Followers,   \* wallets that hand out links, wallets that follow them
    Codes, InitCodes,       \* codes, and the codes the referrers may have at first
    Requests,               \* concurrent requests for a code
    MAX_INSERT_RETRIES,
    Visits,                 \* bound: 1..n, rows of referral_visits
    Pings,                  \* bound: signup calls
    MaxLinks                \* bound: links opened

None == "none"

\* A code leads to one wallet (UNIQUE), and no wallet or code is the empty one.
ASSUME LinksAssumption ==
    /\ None \notin Referrers \cup Codes
    /\ InitCodes \subseteq [Referrers -> Codes \cup {None}]
    /\ \A f \in InitCodes : \A v, w \in Referrers : f[v] = f[w] /\ f[v] # None => v = w
    /\ Requests \subseteq Nat \ {0} /\ Visits \subseteq Nat

VARIABLES
    code_of,        \* referral_codes: the code of each referrer
    mint,           \* requests for a code
    page,           \* the referrals page: whose it is, the code it has, the request it waits for
    visit,          \* referral_visits: code, wallet and set_referrer_signature
    signup,         \* calls of /api/ref/signup
    confirm,        \* the call of /api/ref/confirm of each player
    browser,        \* cookies kb.ref.sid, kb.ref.code and kb.ref.wallet, localStorage, the player
    starting,       \* the start under way: its player and the referrer it sets
    referrer_of,    \* on the chain
    last,           \* history: the last link the browser kept, until it was used
    opened          \* links opened so far

linkVars == <<code_of, mint, page, visit, signup, confirm, browser, starting, referrer_of, last, opened>>
tables == <<code_of, visit>>
open_calls == <<mint, page, signup, confirm>>

no_request == [at |-> "idle", wallet |-> None, attempt |-> 0, code |-> None]
no_page == [wallet |-> None, code |-> None, waits |-> 0, told |-> FALSE]
no_call == [at |-> "idle", wallet |-> None, sid |-> 0]
call_over == [no_call EXCEPT !.at = "done"]
no_start == [player |-> None, referrer |-> None]

LinksInit ==
    /\ code_of \in InitCodes
    /\ mint = [r \in Requests |-> no_request] /\ page = no_page
    /\ visit = <<>>
    /\ signup = [s \in Pings |-> no_call]
    /\ confirm = [p \in Followers |-> no_call]
    /\ \E storage \in BOOLEAN :
           browser = [sid |-> 0, code |-> None, cookie |-> None, storage |-> storage, local |-> None,
                      player |-> None, pinged |-> FALSE]
    /\ starting = no_start /\ referrer_of = [p \in Followers |-> None]
    /\ last = None /\ opened = 0

-----------------------------------------------------------------------------
(* getOrCreateCodeForWallet *)

request_becomes(r, value) ==
    /\ mint' = [mint EXCEPT ![r] = value]
    /\ UNCHANGED <<page, visit, signup, confirm, browser, starting, referrer_of, last, opened>>

answered(q, code) == [q EXCEPT !.at = "answered", !.code = code]
retried(q) == [q EXCEPT !.at = IF q.attempt + 1 < MAX_INSERT_RETRIES THEN "insert" ELSE "failed", !.attempt = @ + 1]

\* A failed lookup reads as "not found".
mint_begins(r, w) ==
    /\ mint[r].at = "idle"
    /\ LET q == [no_request EXCEPT !.wallet = w]
       IN  \/ code_of[w] # None /\ request_becomes(r, answered(q, code_of[w]))
           \/ request_becomes(r, [q EXCEPT !.at = "insert"])
    /\ UNCHANGED code_of

\* Mutant: after a conflict the code it made is handed out all the same.
conflict_ignored(q, code) == answered(q, code)

\* The wallet has a row by now: read it again.
conflict(q, code) == [q EXCEPT !.at = "reread"]

\* A row of its own, or a code that is taken, a wallet that has one, or an error.
mint_inserts(r) ==
    \E code \in Codes :
        LET q == mint[r]
            taken == \E w \in Referrers : code_of[w] = code
        IN  /\ q.at = "insert"
            /\ \/ /\ ~taken /\ code_of[q.wallet] = None
                  /\ code_of' = [code_of EXCEPT ![q.wallet] = code]
                  /\ request_becomes(r, answered(q, code))
               \/ taken /\ request_becomes(r, retried(q)) /\ UNCHANGED code_of
               \/ code_of[q.wallet] # None /\ request_becomes(r, conflict(q, code)) /\ UNCHANGED code_of
               \/ request_becomes(r, [q EXCEPT !.at = "failed"]) /\ UNCHANGED code_of

mint_rereads(r) ==
    LET q == mint[r]
    IN  /\ q.at = "reread" /\ UNCHANGED code_of
        /\ \/ request_becomes(r, answered(q, code_of[q.wallet]))
           \/ request_becomes(r, retried(q))

-----------------------------------------------------------------------------
(* The referrals page of one wallet after another *)

page_becomes(value) ==
    page' = value /\ UNCHANGED <<code_of, mint, visit, signup, confirm, browser, starting, referrer_of, last, opened>>

\* Answers the query cache may hold (useReferralCodePrefetch).
in_cache(w) == {r \in Requests : mint[r].wallet = w /\ mint[r].at = "answered"}

\* It takes the code from the cache, or waits for a request, its own or the prefetch.
show_page(w) ==
    /\ page.wallet = None
    /\ \/ \E r \in in_cache(w) : page_becomes([page EXCEPT !.wallet = w, !.code = mint[r].code, !.told = TRUE])
       \/ \E r \in Requests : mint[r].wallet = w /\ page_becomes([page EXCEPT !.wallet = w, !.waits = r])

\* The answer, unless it is lost; nothing is asked again.
page_told ==
    /\ page.waits # 0
    /\ LET q == mint[page.waits]
       IN  \/ q.at = "answered" /\ page_becomes([page EXCEPT !.code = q.code, !.waits = 0, !.told = TRUE])
           \/ page_becomes([page EXCEPT !.waits = 0, !.told = TRUE])

\* Logging out forgets the code and cancels the request.
without_wallet(p) == no_page

leave_page == page.wallet # None /\ page_becomes(without_wallet(page))

\* myLink: the short form, or the long one if there is no code.
leads_to(p) == IF p.code = None THEN p.wallet ELSE CHOOSE w \in Referrers : code_of[w] = p.code

-----------------------------------------------------------------------------
(* Links *)

browser_becomes(value) == browser' = value /\ UNCHANGED <<starting, referrer_of>> /\ UNCHANGED open_calls

opens == opened < MaxLinks /\ opened' = opened + 1

\* What the page of the link keeps; nothing, if it was left.
keeps(b, w, both) ==
    /\ last' = IF b.storage \/ both THEN w ELSE last
    /\ browser_becomes([b EXCEPT !.local = IF b.storage THEN w ELSE @, !.cookie = IF both THEN w ELSE @])

\* /r/<code> and GET /api/ref/<code>: a visit and its cookies, unless the same code
\* brought the visitor before; the insert of the row may fail unnoticed.
open_link ==
    \E w \in Referrers :
        LET code  == code_of[w]
            known == browser.sid # 0 /\ browser.code = code
        IN  /\ code # None /\ opens
            /\ \E sid \in IF known THEN {browser.sid} ELSE {-1} \cup {s \in Visits : s = Len(visit) + 1} :
                   LET b == [browser EXCEPT !.sid = sid, !.code = code]
                   IN  /\ visit' = IF known \/ sid = -1 THEN visit
                                   ELSE Append(visit, [code |-> code, wallet |-> None, signed |-> FALSE])
                       /\ keeps(b, w, TRUE) \/ (browser_becomes(b) /\ UNCHANGED last)
            /\ UNCHANGED code_of

\* useReferralCapture: the long form ?ref=<wallet>.
open_long_link == \E w \in Referrers : opens /\ keeps(browser, w, FALSE) /\ UNCHANGED tables

log_in ==
    \E p \in Followers :
        /\ browser.player # p
        /\ browser_becomes([browser EXCEPT !.player = p, !.pinged = FALSE])
        /\ UNCHANGED tables /\ UNCHANGED <<last, opened>>

reload_page ==
    /\ browser.pinged
    /\ browser_becomes([browser EXCEPT !.pinged = FALSE])
    /\ UNCHANGED tables /\ UNCHANGED <<last, opened>>

-----------------------------------------------------------------------------
(* The visit's signup and confirmation *)

only_calls == UNCHANGED <<code_of, mint, page, starting, referrer_of, last, opened>>

\* POST /api/ref/signup: nothing without the cookie of a visit.
signup_call(b) == IF b.sid = 0 THEN no_call ELSE [at |-> "read", wallet |-> b.player, sid |-> b.sid]

\* POST /api/ref/confirm, whose transaction is looked up and sets the referrer of this player.
confirm_call(c) == [c EXCEPT !.at = "read"]

\* useReferralSignupAttribution, once for each player and page.
ping(s) ==
    /\ signup[s].at = "idle" /\ \A t \in Pings : t < s => signup[t].at # "idle"
    /\ browser.player # None /\ ~browser.pinged
    /\ browser' = [browser EXCEPT !.pinged = TRUE]
    /\ signup' = [signup EXCEPT ![s] = signup_call(browser)]
    /\ UNCHANGED <<visit, confirm>> /\ only_calls

call_becomes(s, value) == signup' = [signup EXCEPT ![s] = value] /\ UNCHANGED <<browser, confirm>> /\ only_calls

\* recordSignup.
signup_reads(s) ==
    LET q == signup[s]
    IN  /\ q.at = "read" /\ UNCHANGED visit
        /\ \/ q.sid \in DOMAIN visit /\ visit[q.sid].wallet = None /\ call_becomes(s, [q EXCEPT !.at = "update"])
           \/ call_becomes(s, call_over)

\* Mutant: the row was free when it was read.
updated_blindly(row, wallet) == [row EXCEPT !.wallet = wallet]

\* "where id = $2 and wallet is null".
updated(row, wallet) == IF row.wallet = None THEN [row EXCEPT !.wallet = wallet] ELSE row

signup_updates(s) ==
    LET q == signup[s]
    IN  /\ q.at = "update" /\ call_becomes(s, call_over)
        /\ \/ visit' = [visit EXCEPT ![q.sid] = updated(@, q.wallet)]
           \/ UNCHANGED visit

visits_of(p) == {i \in DOMAIN visit : visit[i].wallet = p}

\* recordSetReferrerConfirmation: the latest visit of the wallet, whatever its code.
confirm_writes(p) ==
    /\ confirm[p].at = "read"
    /\ confirm' = [confirm EXCEPT ![p].at = "done"]
    /\ \/ \E i \in visits_of(p) :
             /\ \A j \in visits_of(p) : j <= i
             /\ visit' = [visit EXCEPT ![i].signed = TRUE]
       \/ UNCHANGED visit
    /\ UNCHANGED <<signup, browser>> /\ only_calls

-----------------------------------------------------------------------------
(* The first round *)

getPendingReferrer == IF browser.storage /\ browser.local # None THEN browser.local ELSE browser.cookie

\* startGame bundles set_referrer, if the chain has none for this player.
start_game ==
    LET p == browser.player
    IN  /\ starting = no_start /\ p # None
        /\ starting' = [player |-> p,
                        referrer |-> IF referrer_of[p] = None THEN getPendingReferrer ELSE None]
        /\ UNCHANGED tables /\ UNCHANGED open_calls /\ UNCHANGED <<browser, referrer_of, last, opened>>

\* clearPendingReferrer.
cleared(b) == [b EXCEPT !.local = None, !.cookie = None]

\* It lands and the client learns of it, or lands unnoticed, or fails.
start_ends ==
    LET p == starting.player
        w == starting.referrer
    IN  /\ starting # no_start /\ starting' = no_start
        /\ UNCHANGED tables /\ UNCHANGED <<mint, page, signup, opened>>
        /\ \/ /\ w # None
              /\ referrer_of' = [referrer_of EXCEPT ![p] = w]
              /\ \/ /\ browser' = cleared(browser) /\ last' = None
                    /\ confirm' = [confirm EXCEPT ![p] = confirm_call(@)]
                 \/ UNCHANGED <<browser, last, confirm>>
           \/ UNCHANGED <<referrer_of, browser, last, confirm>>

LinksNext ==
    \/ \E r \in Requests : (\E w \in Referrers : mint_begins(r, w)) \/ mint_inserts(r) \/ mint_rereads(r)
    \/ (\E w \in Referrers : show_page(w)) \/ page_told \/ leave_page
    \/ open_link \/ open_long_link \/ log_in \/ reload_page
    \/ \E s \in Pings : ping(s) \/ signup_reads(s) \/ signup_updates(s)
    \/ start_game \/ start_ends
    \/ \E p \in Followers : confirm_writes(p)

LinksSpec == LinksInit /\ [][LinksNext]_linkVars

-----------------------------------------------------------------------------
(* Properties *)

\* "If two requests race the second insert errors with 23505 and we re-read the
\* winner": every answer is the wallet's one code, and leads to that wallet; so does
\* the link that the referrals page shows, whoever it was opened for before.
AnswersAgree ==
    /\ page.told => page.code \in {None, code_of[page.wallet]} /\ leads_to(page) = page.wallet
    /\ \A r \in DOMAIN mint : mint[r].at = "answered" =>
          /\ mint[r].code = code_of[mint[r].wallet]
          /\ \A w \in Referrers \ {mint[r].wallet} : code_of[w] # mint[r].code

\* A visit stays with the wallet that signed up first, however many pings of several
\* players run at once.
AttributedOnce ==
    [][\A i \in DOMAIN visit : visit[i].wallet # None => visit'[i].wallet = visit[i].wallet]_linkVars

\* The referrer the next start would set is the one whose link was kept last, unless
\* it was used: nothing older comes back.
PendingIsLast == getPendingReferrer = last

\* Every link leads to the wallet it stands for: the ones handed out and shown, and the one
\* a browser keeps.
LinksLead == AnswersAgree /\ PendingIsLast

=============================================================================
