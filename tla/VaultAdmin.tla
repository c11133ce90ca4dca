----------------------------- MODULE VaultAdmin -----------------------------
(***************************************************************************)
(* Who controls the vault (pinocchio/kaboom-p/src/ix/vault_admin.rs): the  *)
(* owner, handed over in two steps, and the allowlist of destinations that *)
(* withdraw_to_treasury and unlock_operator_position may pay, an array of  *)
(* MAX_ALLOWLIST slots with a count, from which removal moves the last     *)
(* entry into the gap.  What a signer may do depends on what owners did    *)
(* before it.                                                              *)
(***************************************************************************)
EXTENDS Integers

CONSTANTS
    Signers,        \* keys that sign or receive
    ZERO,           \* the all-zero key: an empty slot, no pending owner
    DEPLOYER,       \* the key that may initialise the vault
    MAX_ALLOWLIST   \* 8 in consts.rs

Addresses == Signers \cup {ZERO}
Slots == 1..MAX_ALLOWLIST

ASSUME AdminAssumption ==
    /\ ZERO \notin Signers
    /\ DEPLOYER \in Signers
    /\ MAX_ALLOWLIST \in Nat

VARIABLES
    owner, pending_owner,
    slots, count,      \* withdraw_allowlist and allowlist_count
    approved,          \* history: addresses added and not removed since
    proposer           \* history: who made the pending proposal

adminVars == <<owner, pending_owner, slots, count, approved, proposer>>
listVars == <<slots, count, approved>>
ownerVars == <<owner, pending_owner, proposer>>

\* initialize_vault.
AdminInit ==
    /\ owner = DEPLOYER
    /\ pending_owner = ZERO
    /\ slots = [i \in Slots |-> ZERO]
    /\ count = 0
    /\ approved = {}
    /\ proposer = ZERO

-----------------------------------------------------------------------------
(* The allowlist *)

is_allowlisted(address) == \E i \in 1..count : slots[i] = address

has_room == count < MAX_ALLOWLIST

\* The zero address may be added like any other.
allowlist_add(signer, address) ==
    /\ signer = owner
    /\ has_room
    /\ ~is_allowlisted(address)
    /\ slots' = [slots EXCEPT ![count + 1] = address]
    /\ count' = count + 1
    /\ approved' = approved \cup {address}
    /\ UNCHANGED ownerVars

\* The last entry fills the gap and its own slot is cleared.
without(idx) == [slots EXCEPT ![idx] = slots[count], ![count] = ZERO]

\* `find` takes the first slot with the address.
allowlist_remove(signer, address) ==
    /\ signer = owner
    /\ \E idx \in 1..count :
            /\ slots[idx] = address
            /\ \A i \in 1..(idx - 1) : slots[i] # address
            /\ slots' = without(idx)
    /\ count' = count - 1
    /\ approved' = approved \ {address}
    /\ UNCHANGED ownerVars

-----------------------------------------------------------------------------
(* Ownership *)

propose_owner(signer, new_owner) ==
    /\ signer = owner
    /\ new_owner \notin {ZERO, owner}
    /\ pending_owner' = new_owner
    /\ proposer' = owner
    /\ UNCHANGED <<owner, listVars>>

cancel_proposed_owner(signer) ==
    /\ signer = owner
    /\ pending_owner # ZERO
    /\ pending_owner' = ZERO
    /\ proposer' = ZERO
    /\ UNCHANGED <<owner, listVars>>

\* What is left of a proposal once it is accepted.
proposal_after == ZERO

accept_ownership(signer) ==
    /\ signer = pending_owner
    /\ pending_owner # ZERO
    /\ owner' = pending_owner
    /\ pending_owner' = proposal_after
    /\ proposer' = IF pending_owner' = ZERO THEN ZERO ELSE proposer
    /\ UNCHANGED listVars

AdminStep(signer) ==
    \/ \E address \in Addresses : allowlist_add(signer, address) \/ allowlist_remove(signer, address)
    \/ \E new_owner \in Addresses : propose_owner(signer, new_owner)
    \/ cancel_proposed_owner(signer) \/ accept_ownership(signer)

AdminNext == \E signer \in Signers : AdminStep(signer)

AdminSpec == AdminInit /\ [][AdminNext]_adminVars

-----------------------------------------------------------------------------
(* Properties *)

AdminTypeOK ==
    /\ owner \in Signers
    /\ pending_owner \in Addresses /\ proposer \in Addresses
    /\ slots \in [Slots -> Addresses]
    /\ count \in 0..MAX_ALLOWLIST
    /\ approved \subseteq Addresses

\* withdraw_to_treasury and unlock_operator_position pay exactly the addresses
\* an owner added and no owner removed since: the used slots hold each once,
\* whatever order entries came and went in, and a removed address is in no slot.
AllowlistExact ==
    /\ \A address \in Addresses : is_allowlisted(address) <=> address \in approved
    /\ \A i, j \in 1..count : slots[i] = slots[j] => i = j
    /\ \A i \in (count + 1)..MAX_ALLOWLIST : slots[i] = ZERO

\* The vault's pending proposal is always one its present owner made, so that a
\* former owner's proposal cannot take the vault away from its successor.
ProposalIsOwners ==
    /\ pending_owner # ZERO => proposer = owner /\ pending_owner # owner
    /\ pending_owner = ZERO <=> proposer = ZERO

=============================================================================
