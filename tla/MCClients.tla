------------------------------ MODULE MCClients ------------------------------
(***************************************************************************)
(* One TLC instance for the machines around the program: the legacy        *)
(* sessions that wind down, the SDK's wire format and event log, the       *)
(* relay, and the browser's panels.  They share no state, so a behaviour   *)
(* follows one of them: `machine` chooses it at the start and the others   *)
(* keep their initial state.                                               *)
(***************************************************************************)
EXTENDS LegacyGame, LpDesk, BetPanel, RpcProxy, EventLogs, LiveFeed, TLC

\* Ids are not told apart.
Symmetry == Permutations(Ids)

\* LegacyGame: two and three mines; which tiles they are on does not matter.
SmallLayouts == {{0, 1}, {0, 1, 2}}

\* LpDesk: the larger deposit is one lamport more than the house's share allows in one pool.
TwoPools == {[assets |-> 96, total |-> 90, house |-> 70, outstanding |-> 0, pending |-> 0],
             [assets |-> 83, total |-> 90, house |-> 70, outstanding |-> 20, pending |-> 4]}

\* BetPanel: a vault free, heavily reserved, or paused.
ThreeVaults == {[assets |-> 103, outstanding |-> 0, paused |-> FALSE, edge |-> 0],
                [assets |-> 103, outstanding |-> 60, paused |-> FALSE, edge |-> 0],
                [assets |-> 50, outstanding |-> 0, paused |-> TRUE, edge |-> 0]}

VARIABLES
    machine,
    wire,                                          \* SdkWire
    claim, place, committed, live, history                  \* RoundVerifier

Wire == INSTANCE SdkWire

\* Two rounds; only the last three transactions are looked at.
Verifier == INSTANCE RoundVerifier WITH
    GRID_SIZE <- 3, Bets <- {10, 20}, MineCounts <- {1}, WrongPayments <- {7}, ROUND_HISTORY <- 3, MaxTxs <- 5

verifierVars == <<claim, place, committed, live, history>>

ClientsInit ==
    /\ machine \in {"legacy", "wire", "logs", "proxy", "push", "feed", "panel", "desk", "verifier"}
    /\ Init
    /\ machine # "legacy" => house_edge = 0 /\ \A p, q \in Players : game[p].known /\ game[p] = game[q]
                                            /\ game[p].mines = 2
    /\ Wire!Init /\ LogInit /\ ProxyInit /\ PushInit /\ FeedInit
    /\ PanelInit /\ DeskInit /\ Verifier!Init
    /\ machine # "panel" => vault.assets = 103 /\ vault.outstanding = 0
    /\ machine # "desk" => pool.outstanding = 0

\* The machine called `name` takes the step, and the others stand still.
only(name) ==
    /\ machine = name /\ UNCHANGED machine
    /\ name # "legacy" => UNCHANGED vars
    /\ name # "wire" => UNCHANGED wire
    /\ name # "logs" => UNCHANGED logVars
    /\ name # "proxy" => UNCHANGED proxyVars
    /\ name # "push" => UNCHANGED pushVars
    /\ name # "feed" => UNCHANGED feedVars
    /\ name # "panel" => UNCHANGED panelVars
    /\ name # "desk" => UNCHANGED deskVars
    /\ name # "verifier" => UNCHANGED verifierVars

ClientsNext ==
    \/ only("legacy") /\ Next
    \/ only("wire") /\ Wire!Next
    \/ only("logs") /\ LogNext
    \/ only("proxy") /\ ProxyNext
    \/ only("push") /\ PushNext
    \/ only("feed") /\ FeedNext
    \/ only("panel") /\ PanelNext
    \/ only("desk") /\ DeskNext
    \/ only("verifier") /\ Verifier!Next

ClientsVars == <<machine, vars, wire, logVars, proxyVars, pushVars, feedVars, panelVars, deskVars, verifierVars>>

ClientsSpec == ClientsInit /\ [][ClientsNext]_ClientsVars

\* Both ends of a message agree about its bytes and accounts (SdkWire).
ReadsWhatWasWritten == Wire!ReadsWhatWasWritten

\* What is called verified was due, and an honest settlement is verified (RoundVerifier).
VerdictIsRight == Verifier!VerdictIsRight

=============================================================================
