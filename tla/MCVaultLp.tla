------------------------------ MODULE MCVaultLp -----------------------------
(***************************************************************************)
(* TLC instance of the vault and of those who watch it: VaultLp with       *)
(* amounts of a few lamports, so that every division rounds, and the       *)
(* readers of Monitoring.  They share no state, so a behaviour follows one *)
(* of them: `machine` chooses it at the start and the others keep their    *)
(* initial state.                                                          *)
(***************************************************************************)
EXTENDS VaultLp, Monitoring

\* Monitoring: a healthy vault, a paused one, one below the floor because of pending
\* withdrawals, one with too little, an empty one, and two troubles of the house key.
figure(held, stopped, reserved, leaving, key, fuel) ==
    [lamports |-> held, paused |-> stopped, outstanding |-> reserved, pending |-> leaving,
     total |-> 20, house |-> key, fuel |-> fuel]
Healthy == figure(24, FALSE, 5, 0, "ours", 9)
Leaving == figure(24, FALSE, 8, 12, "ours", 9)
SevenFigures == {Healthy, Leaving, figure(24, TRUE, 0, 0, "ours", 9), figure(8, FALSE, 7, 0, "ours", 9),
                 figure(2, FALSE, 0, 0, "ours", 9), figure(24, FALSE, 5, 0, "other", 9),
                 figure(24, FALSE, 5, 8, "ours", 2)}

\* The readers' conditions hold of this instance.
ASSUME ReadersInstance == ReadersAssumption

VARIABLE machine

\* The page finds the vault in one of two conditions, the pass and the app in any.
conditions == IF machine = "readers" THEN Figures ELSE {Healthy, Leaving}

VaultInit ==
    /\ machine \in {"lp", "page", "readers"}
    /\ Init
    /\ MonitorInit
    /\ vault \in conditions
    /\ IF machine = "readers" THEN who # "page" ELSE who = "page"
    /\ machine = "lp" => vault = Healthy

VaultNext ==
    /\ UNCHANGED machine
    /\ \/ machine = "lp" /\ Next /\ UNCHANGED monitorVars
       \/ machine # "lp" /\ MonitorNext /\ vault' \in conditions /\ UNCHANGED vars

VaultSpec == VaultInit /\ [][VaultNext]_<<machine, vars, monitorVars>>

=============================================================================
