------------------------------ MODULE OwnerOps ------------------------------
(***************************************************************************)
(* The owner's operations through the Squads multisig                      *)
(* (scripts/upgrade-program-via-squads.ts, rotate-owner.ts,                *)
(* rotate-to-squads-mainnet.ts, rotate-treasury.ts, initialize-v2.ts,       *)
(* repair-referrals.ts, transfer-upgrade-authority.ts).                    *)
(*                                                                         *)
(* A script is a sequence of transactions, each sent after a simulation    *)
(* and awaited.  It works with the multisig's index as it read it once, it *)
(* takes a transaction that failed on chain for one that went through, and *)
(* it ends at the first refusal or timeout; nothing is undone then, a      *)
(* transaction that timed out may still land, and the operator runs it     *)
(* again, perhaps while another script is running.                         *)
(*                                                                         *)
(* Keys, rents, memos and the inner instructions' accounts are left out,   *)
(* and one referral account is to be repaired.                             *)
(***************************************************************************)
EXTENDS Integers, Sequences, FiniteSets

CONSTANTS
    Shells,        \* where scripts run
    Chunks,        \* pieces a build is written in
    MaxLaunches,   \* bound: scripts started
    MaxTimeouts    \* bound: transactions a script gives up on

ASSUME OwnerAssumption == Chunks \in Nat

VARIABLES
    script,        \* the script of each shell: kind, steps left, index it read, buffer, in flight
    squads,        \* the multisig: its last index, and operation, votes and state by index
    buffers,       \* upgrade buffers: pieces written, authority, consumed
    owned,         \* what the operations change: owner, pending owner, treasury, allowlist, v2_state,
                   \* upgrade authority, program, referral account
    adrift,        \* transactions a script gave up on
    launched, timeouts

scriptVars == <<script, squads, buffers, owned, adrift, launched, timeouts>>

no_script == [kind |-> "none", steps |-> <<>>, index |-> 0, buffer |-> 0, sent |-> FALSE]

ScriptKinds == {"upgrade", "rotate", "rotate_mainnet", "treasury", "initialize_v2", "repair", "transfer"}

-----------------------------------------------------------------------------
(* The scripts *)

\* create, propose, approve twice, execute: the same in four scripts.
squads_steps == <<"read_index", "vaultTransactionCreate", "proposalCreate", "approve1", "approve2", "execute">>

\* upgrade-program-via-squads.ts does not look at the program afterwards.
upgrade_steps == <<"create_buffer">> \o [i \in 1..Chunks |-> "write"] \o <<"set_buffer_authority">> \o squads_steps

\* A rotation proposed before is not proposed again.
rotate_steps ==
    (IF owned.pending = "squads" THEN <<>> ELSE <<"propose_owner">>) \o squads_steps \o <<"verify">>

\* One transaction of three instructions; the multisig's side follows in its own app.
rotate_mainnet_steps == <<"update_allow_propose">>

\* What is still missing of treasury and allowlist, in one transaction.
treasury_steps ==
    CASE ~owned.treasury /\ ~owned.allowed -> <<"update_allow", "verify">>
      [] ~owned.treasury /\ owned.allowed  -> <<"update", "verify">>
      [] owned.treasury /\ ~owned.allowed  -> <<"allow", "verify">>
      [] OTHER                             -> <<>>

initialize_steps == IF owned.v2 THEN <<>> ELSE squads_steps \o <<"verify">>

\* The referrer is found in the account's earliest transaction.
repair_steps == IF owned.referrer THEN <<>> ELSE squads_steps

transfer_steps == IF owned.authority = "squads" THEN <<>> ELSE <<"set_upgrade_authority", "verify">>

main(kind) == CASE kind = "upgrade"       -> upgrade_steps
                [] kind = "rotate"        -> rotate_steps
                [] kind = "rotate_mainnet" -> rotate_mainnet_steps
                [] kind = "treasury"      -> treasury_steps
                [] kind = "initialize_v2" -> initialize_steps
                [] kind = "repair"        -> repair_steps
                [] kind = "transfer"      -> transfer_steps

\* What a script refuses to start on: someone else's program or vault.
may_start(kind) == /\ kind \in {"rotate", "rotate_mainnet", "treasury"} => owned.owner = "deployer"
                   /\ kind = "transfer" => owned.authority \in {"deployer", "squads"}

-----------------------------------------------------------------------------
(* The chain: a transaction is [act, index, op, buffer] *)

operation(s) == [kind |-> s.kind, buffer |-> s.buffer]
transaction(s) == [act |-> Head(s.steps), index |-> s.index, op |-> operation(s), buffer |-> s.buffer]

\* The vault instructions of a transaction the owner's key signs alone.
instructions(act) == CASE act = "update" -> {"update_vault"}
                       [] act = "allow" -> {"allowlist_add"}
                       [] act = "update_allow" -> {"update_vault", "allowlist_add"}
                       [] act = "update_allow_propose" -> {"update_vault", "allowlist_add", "propose_owner"}
                       [] act = "propose_owner" -> {"propose_owner"}
                       [] OTHER -> {}

\* What the program and the loader ask of an operation the multisig signs.
may_execute(op) ==
    CASE op.kind = "upgrade"       -> owned.authority = "squads" /\ buffers[op.buffer].authority = "squads"
                                      /\ ~buffers[op.buffer].consumed
      [] op.kind = "rotate"        -> owned.pending = "squads"
      [] op.kind = "initialize_v2" -> owned.owner = "squads" /\ ~owned.v2
      [] op.kind = "repair"        -> owned.owner = "squads" /\ ~owned.referrer

members == {1, 2}
member_of(act) == IF act = "approve1" THEN 1 ELSE 2

chain_accepts(tx) ==
    LET known == tx.index \in 1..squads.last IN
    CASE tx.act = "create_buffer"          -> TRUE
      [] tx.act \in {"write", "set_buffer_authority"} -> buffers[tx.buffer].authority = "member"
      [] instructions(tx.act) # {}         -> /\ owned.owner = "deployer"
                                              /\ "allowlist_add" \in instructions(tx.act) => ~owned.allowed
      [] tx.act = "set_upgrade_authority"  -> owned.authority = "deployer"
      [] tx.act = "vaultTransactionCreate" -> tx.index = squads.last + 1
      [] tx.act = "proposalCreate"         -> known /\ squads.state[tx.index] = "none"
      [] tx.act \in {"approve1", "approve2"} -> /\ known /\ squads.state[tx.index] = "active"
                                                /\ member_of(tx.act) \notin squads.votes[tx.index]
      [] tx.act = "execute"                -> /\ known /\ squads.state[tx.index] = "active"
                                              /\ squads.votes[tx.index] = members
                                              /\ may_execute(squads.ops[tx.index])

\* The program becomes what the buffer holds.
buildUpgradeIx(buffer) ==
    [owned EXCEPT !.program = IF buffers[buffer].written = Chunks THEN "whole" ELSE "torn"]
buildAcceptOwnership == [owned EXCEPT !.owner = "squads", !.pending = "none"]
buildInitializeV2Ix == [owned EXCEPT !.v2 = TRUE]
buildRepairReferral == [owned EXCEPT !.referrer = TRUE]

carried_out(op) == CASE op.kind = "upgrade"       -> buildUpgradeIx(op.buffer)
                     [] op.kind = "rotate"        -> buildAcceptOwnership
                     [] op.kind = "initialize_v2" -> buildInitializeV2Ix
                     [] op.kind = "repair"        -> buildRepairReferral

\* An accepted transaction on the multisig.
changes_squads(tx) ==
    \/ /\ tx.act = "vaultTransactionCreate"
       /\ squads' = [last |-> tx.index, ops |-> Append(squads.ops, tx.op),
                     votes |-> Append(squads.votes, {}), state |-> Append(squads.state, "none")]
       /\ UNCHANGED <<buffers, owned>>
    \/ /\ tx.act = "proposalCreate"
       /\ squads' = [squads EXCEPT !.state[tx.index] = "active"]
       /\ UNCHANGED <<buffers, owned>>
    \/ /\ tx.act \in {"approve1", "approve2"}
       /\ squads' = [squads EXCEPT !.votes[tx.index] = @ \cup {member_of(tx.act)}]
       /\ UNCHANGED <<buffers, owned>>
    \/ LET op == squads.ops[tx.index] IN
       /\ tx.act = "execute"
       /\ squads' = [squads EXCEPT !.state[tx.index] = "executed"]
       /\ owned' = carried_out(op)
       /\ buffers' = IF op.kind = "upgrade" THEN [buffers EXCEPT ![op.buffer].consumed = TRUE] ELSE buffers

\* The loader's and the owner's instructions, signed by the deployer's key alone.
buildInitializeBufferIx(tx) ==
    /\ tx.act = "create_buffer"
    /\ buffers' = Append(buffers, [written |-> 0, authority |-> "member", consumed |-> FALSE])
    /\ UNCHANGED owned

buildWriteIx(tx) ==
    /\ tx.act = "write"
    /\ buffers' = [buffers EXCEPT ![tx.buffer].written = @ + 1]
    /\ UNCHANGED owned

buildSetBufferAuthorityIx(tx) ==
    /\ tx.act = "set_buffer_authority"
    /\ buffers' = [buffers EXCEPT ![tx.buffer].authority = "squads"]
    /\ UNCHANGED owned

\* update_vault, allowlist_add and propose_owner.
vault_instructions(tx) ==
    LET ixs == instructions(tx.act) IN
    /\ ixs # {}
    /\ owned' = [owned EXCEPT !.treasury = @ \/ "update_vault" \in ixs,
                              !.allowed = @ \/ "allowlist_add" \in ixs,
                              !.pending = IF "propose_owner" \in ixs THEN "squads" ELSE @]
    /\ UNCHANGED buffers

buildSetUpgradeAuthorityIx(tx) ==
    /\ tx.act = "set_upgrade_authority"
    /\ owned' = [owned EXCEPT !.authority = "squads"]
    /\ UNCHANGED buffers

changes_own(tx) ==
    /\ \/ buildInitializeBufferIx(tx) \/ buildWriteIx(tx) \/ buildSetBufferAuthorityIx(tx)
       \/ vault_instructions(tx) \/ buildSetUpgradeAuthorityIx(tx)
    /\ UNCHANGED squads

takes_effect(tx) == changes_squads(tx) \/ changes_own(tx)

-----------------------------------------------------------------------------
(* Running a script *)

ScriptsInit ==
    /\ script = [s \in Shells |-> no_script]
    /\ squads = [last |-> 0, ops |-> <<>>, votes |-> <<>>, state |-> <<>>]
    /\ buffers = <<>>
    /\ \E owner, authority \in {"deployer", "squads"} :
          owned = [owner |-> owner, pending |-> "none", v2 |-> FALSE, authority |-> authority,
                   treasury |-> owner = "squads", allowed |-> owner = "squads", program |-> "whole",
                   referrer |-> FALSE]
    /\ adrift = {} /\ launched = 0 /\ timeouts = 0

start(s, kind) ==
    /\ script[s] = no_script /\ launched < MaxLaunches
    /\ may_start(kind) /\ main(kind) # <<>>
    /\ script' = [script EXCEPT ![s] = [no_script EXCEPT !.kind = kind, !.steps = main(kind)]]
    /\ launched' = launched + 1
    /\ UNCHANGED <<squads, buffers, owned, adrift, timeouts>>

step(s) == Head(script[s].steps)
under_way(s) == script[s].steps # <<>>

\* The step is behind the script; after the last one it ends.
advanced(s, changed) ==
    script' = [script EXCEPT ![s] = IF Len(changed.steps) = 1 THEN no_script
                                    ELSE [changed EXCEPT !.steps = Tail(@), !.sent = FALSE]]

\* One reading for all five transactions.
read_index(s) ==
    /\ under_way(s) /\ step(s) = "read_index"
    /\ advanced(s, [script[s] EXCEPT !.index = squads.last + 1])
    /\ UNCHANGED <<squads, buffers, owned, adrift, launched, timeouts>>

\* The scripts end alike whether or not they are content.
verify(s) ==
    /\ under_way(s) /\ step(s) = "verify"
    /\ script' = [script EXCEPT ![s] = no_script]
    /\ UNCHANGED <<squads, buffers, owned, adrift, launched, timeouts>>

sends(s) == under_way(s) /\ step(s) \notin {"read_index", "verify"}

\* skipPreflight: false.
send(s) ==
    /\ sends(s) /\ ~script[s].sent /\ chain_accepts(transaction(script[s]))
    /\ script' = [script EXCEPT ![s].sent = TRUE]
    /\ UNCHANGED <<squads, buffers, owned, adrift, launched, timeouts>>

refused(s) ==
    /\ sends(s) /\ ~script[s].sent /\ ~chain_accepts(transaction(script[s]))
    /\ script' = [script EXCEPT ![s] = no_script]
    /\ UNCHANGED <<squads, buffers, owned, adrift, launched, timeouts>>

\* Two scripts look at what became of a transaction.
looks_at_error(kind) == kind \in {"rotate_mainnet", "treasury"}

\* confirmTransaction resolves for a failed transaction as for one that went through.
confirmed(s) ==
    LET tx == transaction(script[s])
        new == IF tx.act = "create_buffer" THEN Len(buffers) + 1 ELSE script[s].buffer
    IN  /\ sends(s) /\ script[s].sent
        /\ IF chain_accepts(tx) THEN takes_effect(tx) ELSE UNCHANGED <<squads, buffers, owned>>
        /\ IF ~chain_accepts(tx) /\ looks_at_error(script[s].kind)
           THEN script' = [script EXCEPT ![s] = no_script]
           ELSE advanced(s, [script[s] EXCEPT !.buffer = new])
        /\ UNCHANGED <<adrift, launched, timeouts>>

\* Mutant: the script goes on with the next piece.
after_timeout_next_piece(s) ==
    IF step(s) = "write" THEN advanced(s, script[s]) ELSE script' = [script EXCEPT ![s] = no_script]

\* The script ends.
after_timeout(s) == script' = [script EXCEPT ![s] = no_script]

\* Without an answer in time; the transaction may have been dropped, or be late.
times_out(s) ==
    /\ sends(s) /\ script[s].sent /\ timeouts < MaxTimeouts
    /\ adrift' \in {adrift, adrift \cup {transaction(script[s])}}
    /\ after_timeout(s)
    /\ timeouts' = timeouts + 1
    /\ UNCHANGED <<squads, buffers, owned, launched>>

late(tx) ==
    /\ adrift' = adrift \ {tx}
    /\ IF chain_accepts(tx) THEN takes_effect(tx) ELSE UNCHANGED <<squads, buffers, owned>>
    /\ UNCHANGED <<script, launched, timeouts>>

ScriptsNext ==
    \/ \E s \in Shells : \/ \E kind \in ScriptKinds : start(s, kind)
                         \/ read_index(s) \/ send(s) \/ refused(s) \/ confirmed(s) \/ times_out(s) \/ verify(s)
    \/ \E tx \in adrift : late(tx)

ScriptsSpec == ScriptsInit /\ [][ScriptsNext]_scriptVars

-----------------------------------------------------------------------------
(* Properties *)

\* The program is replaced by complete builds only, though scripts mix up their
\* indexes, execute each other's operations, are run again, and have transactions
\* land after they gave up on them: a buffer is the multisig's only once it is
\* complete, and no operation names one before.
WholeProgramOnly == owned.program = "whole"

=============================================================================
