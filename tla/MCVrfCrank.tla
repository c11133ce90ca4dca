----------------------------- MODULE MCVrfCrank -----------------------------
(***************************************************************************)
(* One TLC instance for the two ways a VRF round comes to its end: the     *)
(* passes of the crank, and the player's browser.  They share no state;    *)
(* `machine` chooses the one a behaviour follows.                          *)
(***************************************************************************)
EXTENDS VrfCrank, VrfClient

VARIABLE machine

crankAll == <<vars, crankVars>>

RoundsInit == machine \in {"crank", "client"} /\ CrankInit /\ ClientInit

RoundsNext ==
    \/ machine = "crank" /\ CrankNext /\ UNCHANGED <<machine, clientVars>>
    \/ machine = "client" /\ ClientNext /\ UNCHANGED <<machine, crankAll>>

\* CrankFairness and FairClientSpec, each in the behaviours that follow its machine.
crank_is_fair ==
    /\ WF_crankAll(machine = "crank" /\ tick /\ ChainStep)
    /\ WF_crankAll(machine = "crank" /\ PassStep)
    /\ \A p \in Players :
        /\ WF_crankAll(machine = "crank" /\ (\E rand \in Words : reveal_callback_vrf(p, rand)) /\ ChainStep)
        /\ WF_crankAll(machine = "crank" /\ process_undelegation(p) /\ ChainStep)
        /\ SF_crankAll(machine = "crank" /\ CrankSends(p))
        /\ SF_crankAll(machine = "crank" /\ lands(p, "cron"))

client_is_fair ==
    /\ WF_clientVars(machine = "client" /\ oracle_answers)
    /\ WF_clientVars(machine = "client" /\ game_returns)
    /\ WF_clientVars(machine = "client" /\ \E k \in Keys : start_lands(k) \/ start_expires(k))
    /\ WF_clientVars(machine = "client" /\ Works(1))
    /\ WF_clientVars(machine = "client" /\ probe_reads(1))
    /\ WF_clientVars(machine = "client" /\ probe_answers(1))
    /\ SF_clientVars(machine = "client" /\ press_recover(1))
    /\ WF_clientVars(machine = "client" /\ (reveal(1) \/ cash_out(1)))
    /\ WF_clientVars(machine = "client" /\ dead_board(1) /\ reload(1))
    /\ <>[][reload(1) => dead_board(1)]_clientVars

RoundsSpec ==
    /\ RoundsInit /\ [][RoundsNext]_<<machine, crankAll, clientVars>>
    /\ crank_is_fair /\ client_is_fair

=============================================================================
