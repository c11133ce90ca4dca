----------------------------- MODULE MCMachines -----------------------------
(***************************************************************************)
(* One TLC instance for the smaller machines of the server and the chain:  *)
(* referral accounts, vault administration, the cron tick, the LP passes,  *)
(* the indexer pass, the mirrors of LPs, games and referrals, the referral *)
(* links, the owner's scripts.  They share no state, so a behaviour        *)
(* follows one of them: `machine` chooses it at the start and the others   *)
(* keep their initial state.                                               *)
(***************************************************************************)
EXTENDS Referral, VaultAdmin, CronTick, IndexerPass, OwnerOps, LpPoints, GameMirror, ReferralLinks,
        LpMirror, ReferralRollup, LpPass, TLC

\* Ingests are not told apart.
Symmetry == Permutations(Workers)

\* Referral: the first set_referrer left the account of player 1.
LeftOne == [r \in Keys |-> IF r = 1 THEN 1 ELSE 0]

\* LpMirror: a deposit, a request that is cancelled, another in the slot of the cancellation,
\* and its completion with a gain.
tx(kind, units, lamports, at) == [kind |-> kind, units |-> units, lamports |-> lamports, slot |-> at]
History == << tx("deposit", 10, 5, 1), tx("request", 4, 0, 2), tx("cancel", 4, 0, 3),
              tx("request", 3, 0, 3), tx("complete", 3, 6, 5) >>

\* ReferralLinks: three requests at once for the codes of two wallets without one, as many
\* codes as wallets (the constants of the configuration), and two wallets with a code each.
NoCodes == {[w \in {"a", "b"} |-> "none"]}
TheirCodes == {[w \in {"a", "b"} |-> IF w = "a" THEN "x" ELSE "y"]}

\* CronTick: a pass of every tick that sends, and one of every second minute.
OneServer == [t \in Ticks |-> "server"]
TwoPasses == << [everyMs |-> 0, sends |-> 2], [everyMs |-> 2, sends |-> 0] >>

\* GameMirror: two games of one account, whose signatures are not in the order of their
\* slots, and a VRF game.
settlement(sig, kind, game, at) ==
    [sig |-> sig, kind |-> kind, account |-> IF kind = "vrf" THEN 2 ELSE 1, game |-> game, slot |-> at]
TwoGames == {settlement(3, "ended", 1, 1), settlement(5, "settled", 1, 2), settlement(1, "ended", 2, 3),
             settlement(4, "settled", 2, 4), settlement(2, "vrf", 3, 5)}

\* ReferralRollup: accruals before and after a claim, with a change of tier.
notice(kind, amount, at) == [kind |-> kind, amount |-> amount, slot |-> at]
Notices == {notice("accrued", 5, 1), notice("claimed", 4, 2), notice("accrued", 3, 3),
            notice("tier", 0, 3), notice("claimed", 3, 4)}

VARIABLE machine

\* Two players at one browser follow two links, and sign up once.
Links == INSTANCE ReferralLinks WITH
    Followers <- {"p", "q"}, InitCodes <- TheirCodes, Requests <- {}, Visits <- 1..2, Pings <- {1}, MaxLinks <- 2

\* They follow one link, and both sign up at once.
Signups == INSTANCE ReferralLinks WITH
    Followers <- {"p", "q"}, InitCodes <- TheirCodes, Requests <- {}, Visits <- {1}, Pings <- 1..2, MaxLinks <- 1

MachinesInit ==
    /\ machine \in {"referral", "admin", "indexer", "mirror", "tick", "lp_pass", "lp_points",
                   "games", "rollup", "minting", "links", "signups", "scripts"}
    /\ Init /\ AdminInit /\ IndexerInit /\ CronInit /\ PassInit /\ PointsInit
    /\ GamesInit /\ RollupInit /\ ScriptsInit /\ MirrorInit
    /\ CASE machine = "minting" -> LinksInit
         [] machine = "signups" -> Signups!LinksInit
         [] OTHER -> Links!LinksInit
    /\ machine \notin {"links", "signups"} => browser.storage
    /\ machine # "scripts" => owned.owner = "deployer" /\ owned.authority = "deployer"

\* The machine called `name` takes the step, and the others stand still.
only(name) ==
    /\ machine = name /\ UNCHANGED machine
    /\ name # "referral" => UNCHANGED vars
    /\ name # "admin" => UNCHANGED adminVars
    /\ name # "indexer" => UNCHANGED indexerVars
    /\ name # "mirror" => UNCHANGED mirrorVars
    /\ name # "tick" => UNCHANGED cronVars
    /\ name # "lp_pass" => UNCHANGED lpPassVars
    /\ name # "lp_points" => UNCHANGED lpPointsVars
    /\ name # "games" => UNCHANGED gameVars
    /\ name # "rollup" => UNCHANGED rollupVars
    /\ name \notin {"minting", "links", "signups"} => UNCHANGED linkVars
    /\ name # "scripts" => UNCHANGED scriptVars

MachinesNext ==
    \/ only("referral") /\ Next
    \/ only("admin") /\ AdminNext
    \/ only("indexer") /\ IndexerNext
    \/ only("mirror") /\ MirrorNext
    \/ only("tick") /\ CronNext
    \/ only("lp_pass") /\ PassNext
    \/ only("lp_points") /\ PointsNext
    \/ only("games") /\ GamesNext
    \/ only("rollup") /\ RollupNext
    \/ only("minting") /\ LinksNext
    \/ only("links") /\ Links!LinksNext
    \/ only("signups") /\ Signups!LinksNext
    \/ only("scripts") /\ ScriptsNext

MachinesVars == <<machine, vars, adminVars, indexerVars, mirrorVars, cronVars, lpPassVars,
                  lpPointsVars, gameVars, rollupVars, linkVars, scriptVars>>

MachinesSpec == MachinesInit /\ [][MachinesNext]_MachinesVars

=============================================================================
