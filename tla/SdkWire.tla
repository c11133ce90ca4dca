------------------------------- MODULE SdkWire -------------------------------
(***************************************************************************)
(* What crosses the wire between the TypeScript SDK (packages/sdk) and the *)
(* program: instructions one way, accounts and events the other.  The two  *)
(* sides are written by hand, one in Buffer writes and sequential readers, *)
(* the other in Borsh arguments, array patterns and byte offsets; nothing  *)
(* generates one from the other.                                           *)
(*                                                                         *)
(* A layout is a sequence of fields, and bytes are named for the field and *)
(* the position in it that they were written for, so that a reader that is *)
(* off by one byte shows what it took for what.  Values, little-endian     *)
(* order and discriminators (hashes of the name on both sides) are left    *)
(* out.                                                                    *)
(***************************************************************************)
EXTENDS Integers, Sequences, SequencesExt

VARIABLES
    wire             \* the message: who it is for, its bytes and accounts, what was read

wireVars == <<wire>>

field(f, width, opt) == [f |-> f, width |-> width, opt |-> opt]
byte(f) == field(f, 1, FALSE)
u16(f)  == field(f, 2, FALSE)
u32(f)  == field(f, 4, FALSE)
u64(f)  == field(f, 8, FALSE)
u128(f) == field(f, 16, FALSE)
key(f)  == field(f, 32, FALSE)
option(fld) == [fld EXCEPT !.opt = TRUE]

\* An account of an instruction: its name, and whether it signs and may change.
readonly(a)        == [acc |-> a, signs |-> FALSE, writable |-> FALSE]
writable(a)        == [acc |-> a, signs |-> FALSE, writable |-> TRUE]
readonly_signer(a) == [acc |-> a, signs |-> TRUE, writable |-> FALSE]
writable_signer(a) == [acc |-> a, signs |-> TRUE, writable |-> TRUE]

ix(accounts, data) == [accounts |-> accounts, data |-> data]

-----------------------------------------------------------------------------
(* The client's instructions: packages/sdk/src/instructions.ts and vrf.ts *)

vault_actors == <<writable("vault"), writable("v2")>>

VaultBuilders == [
    initialize_vault |-> ix(<<writable("vault"), readonly("house"), readonly("treasury"), writable_signer("owner"),
                              readonly("system")>>, <<u16("edge"), u16("max_bet"), u16("max_payout")>>),
    fund_vault       |-> ix(<<writable("vault"), writable_signer("funder"), readonly("system")>>, <<u64("amount")>>),
    set_referrer     |-> ix(<<writable("stats"), readonly("referrer"), writable("referral"), writable_signer("player"),
                              readonly("system")>>, <<>>)]

GameBuilders == [
    claim_referral   |-> ix(<<writable("referral"), writable_signer("referrer")>>, <<>>),
    repair_referral  |-> ix(<<readonly("vault"), readonly("referrer"), writable("referral"), readonly_signer("owner")>>, <<>>),
    reveal_tile      |-> ix(<<readonly("vault"), writable("game"), readonly_signer("house")>>, <<byte("tile"), byte("is_mine")>>),
    cash_out         |-> ix(vault_actors \o <<writable("game"), writable_signer("player")>>, <<>>),
    settle_game      |-> ix(vault_actors \o <<writable("game"), writable("stats"), readonly_signer("house"), writable("treasury")>>,
                            <<u16("mine_layout"), key("salt")>>)]

ExitBuilders == [
    unlock_operator_position |-> ix(vault_actors \o <<readonly_signer("owner"), writable("destination")>>, <<>>),
    refund_expired       |-> ix(vault_actors \o <<writable("game"), writable_signer("player")>>, <<>>),
    expire_game          |-> ix(vault_actors \o <<writable("game"), writable("player")>>, <<>>),
    close_game           |-> ix(<<writable("game"), writable_signer("player")>>, <<>>),
    withdraw_to_treasury |-> ix(<<writable("vault"), readonly_signer("treasury"), writable("destination")>>, <<u64("amount")>>),
    allowlist_add        |-> ix(<<writable("vault"), readonly_signer("owner")>>, <<key("address")>>),
    allowlist_remove     |-> ix(<<writable("vault"), readonly_signer("owner")>>, <<key("address")>>)]

ConfigBuilders == [
    update_vault |-> ix(<<writable("vault"), readonly_signer("owner")>>,
        <<option(u16("edge")), option(u16("max_bet")), option(u16("max_payout")), option(u16("treasury_split")),
          option(byte("paused")), option(key("new_house")), option(key("new_treasury"))>>),
    close_unsettled_game |-> ix(<<writable("v2"), writable("game"), writable_signer("player")>>, <<>>),
    initialize_v2        |-> ix(<<readonly("vault"), writable("v2"), writable_signer("owner"), readonly("system")>>, <<>>),
    update_v2_config |-> ix(<<readonly("vault"), writable("v2"), readonly_signer("owner")>>,
        <<option(u16("min_house_share")), option(u16("max_user_position")), option(u16("min_health")),
          option(u64("cooldown")), option(u64("min_deposit")), option(byte("vrf_mode")),
          option(key("validator")), option(u16("vrf_max_payout"))>>),
    lp_deposit |-> ix(vault_actors \o <<writable("position"), writable_signer("user"), readonly("system")>>, <<u64("amount")>>)]

\* buildUserLpAction; the keeper's completion goes without the user's signature.
user_lp(data, signs) ==
    ix(vault_actors \o <<writable("position"), [writable("user") EXCEPT !.signs = signs]>>, data)

house_lp(data) == ix(vault_actors \o <<writable_signer("owner")>>, data)

LpBuilders == [
    request_withdraw  |-> user_lp(<<u128("units")>>, TRUE),
    cancel_withdraw   |-> user_lp(<<>>, TRUE),
    complete_withdraw |-> user_lp(<<>>, FALSE),
    close_lp_position |-> ix(<<writable("position"), writable_signer("user")>>, <<>>),
    house_deposit     |-> ix(house_lp(<<>>).accounts \o <<readonly("system")>>, <<u64("amount")>>),
    house_request_withdraw  |-> house_lp(<<u128("units")>>),
    house_cancel_withdraw   |-> house_lp(<<>>),
    house_complete_withdraw |-> house_lp(<<>>)]

OwnerBuilders == [
    propose_owner         |-> ix(<<writable("vault"), readonly_signer("owner")>>, <<key("new_owner")>>),
    cancel_proposed_owner |-> ix(<<writable("vault"), readonly_signer("owner")>>, <<>>),
    accept_ownership      |-> ix(<<writable("vault"), readonly_signer("new_owner")>>, <<>>)]

RoundBuilders == [
    start_game_vrf |-> ix(<<writable_signer("player"), writable("vault"), writable("v2"), writable("claim"),
                            writable("vrf_game"), writable("stats"), readonly("system")>>,
                          <<byte("mine_count"), u64("bet"), key("session")>>),
    admin_release_vrf_claim |-> ix(<<readonly_signer("owner"), writable("player"), writable("claim"), writable("vault"), writable("v2")>>, <<>>),
    delegate_vrf |-> ix(<<writable_signer("player"), writable("buffer"), writable("record"), writable("metadata"), writable("vrf_game"),
                          readonly("v2"), readonly("program"), readonly("delegation"), readonly("system")>>, <<>>),
    admin_close_orphaned_game_v2 |-> ix(<<readonly_signer("owner"), writable("player"), writable("game_v2"), writable("vault"), writable("v2")>>, <<>>)]

PlayBuilders == [
    reveal_request_vrf |-> ix(<<writable_signer("session"), writable("vrf_game"), writable("queue"), readonly("identity"),
                                readonly("vrf"), readonly("slot_hashes"), readonly("system")>>, <<byte("tile"), byte("client_seed")>>),
    cash_out_vrf |-> ix(<<writable_signer("session"), writable("vrf_game")>>, <<>>),
    settle_and_undelegate_vrf |-> ix(<<writable_signer("payer"), writable("vrf_game"), readonly("magic"), writable("magic_context")>>, <<>>),
    force_undelegate_vrf |-> ix(<<writable_signer("house"), writable("vrf_game"), readonly("magic"), writable("magic_context"), readonly("vault")>>, <<>>),
    settle_vrf |-> ix(<<writable_signer("payer"), writable("player"), writable("claim"), writable("vrf_game"), writable("vault"),
                        writable("v2"), writable("treasury"), writable("stats"), readonly("system")>>, <<>>),
    refund_stalled_vrf |-> ix(<<readonly_signer("caller"), writable("player"), writable("claim"), writable("vrf_game"), writable("vault"), writable("v2")>>, <<>>)]

Builders == VaultBuilders @@ GameBuilders @@ ExitBuilders @@ ConfigBuilders @@ LpBuilders @@ OwnerBuilders
            @@ RoundBuilders @@ PlayBuilders

\* The two settles take the player's referral account at the end, if there is one.
MayTrail == {"settle_game", "settle_vrf"}

-----------------------------------------------------------------------------
(* What the handlers take: pinocchio/kaboom-p/src/ix.  An account's flags are *)
(* those that check_signer and check_mut ask for or a write needs.            *)

vault_signed(data, who) == ix(<<writable("vault"), readonly_signer(who)>>, data)

VaultHandlers == [
    initialize_vault |-> ix(<<writable("vault"), readonly("house"), readonly("treasury"), writable_signer("owner"),
                              readonly("system")>>, <<u16("edge"), u16("max_bet"), u16("max_payout")>>),
    fund_vault           |-> ix(<<writable("vault"), writable_signer("funder"), readonly("system")>>, <<u64("amount")>>),
    withdraw_to_treasury |-> ix(<<writable("vault"), readonly_signer("treasury"), writable("destination")>>, <<u64("amount")>>),
    unlock_operator_position |-> ix(<<writable("vault"), writable("v2"), readonly_signer("owner"), writable("destination")>>, <<>>),
    update_vault     |-> vault_signed(<<option(u16("edge")), option(u16("max_bet")), option(u16("max_payout")),
                                        option(u16("treasury_split")), option(byte("paused")),
                                        option(key("new_house")), option(key("new_treasury"))>>, "owner"),
    allowlist_add    |-> vault_signed(<<key("address")>>, "owner"),
    allowlist_remove |-> vault_signed(<<key("address")>>, "owner"),
    propose_owner    |-> vault_signed(<<key("new_owner")>>, "owner"),
    cancel_proposed_owner |-> vault_signed(<<>>, "owner"),
    accept_ownership |-> vault_signed(<<>>, "new_owner")]

ReferralHandlers == [
    set_referrer    |-> ix(<<writable("stats"), readonly("referrer"), writable("referral"), writable_signer("player"), readonly("system")>>, <<>>),
    claim_referral  |-> ix(<<writable("referral"), writable_signer("referrer")>>, <<>>),
    repair_referral |-> ix(<<readonly("vault"), readonly("referrer"), writable("referral"), readonly_signer("owner")>>, <<>>)]

\* check_vault_v2_game_player
player_game == ix(<<writable("vault"), writable("v2"), writable("game"), writable_signer("player")>>, <<>>)

LegacyHandlers == [
    reveal_tile    |-> ix(<<readonly("vault"), writable("game"), readonly_signer("house")>>, <<byte("tile"), byte("is_mine")>>),
    cash_out       |-> player_game,
    settle_game    |-> ix(<<writable("vault"), writable("v2"), writable("game"), writable("stats"), readonly_signer("house"),
                            writable("treasury")>>, <<u16("mine_layout"), key("salt")>>),
    refund_expired |-> player_game,
    close_game     |-> ix(<<writable("game"), writable_signer("player")>>, <<>>),
    close_unsettled_game |-> ix(<<writable("v2"), writable("game"), writable_signer("player")>>, <<>>),
    expire_game    |-> ix(<<writable("vault"), writable("v2"), writable("game"), writable("player")>>, <<>>)]

\* user_lp_checks
user_position(user, data) == ix(<<writable("vault"), writable("v2"), writable("position"), user>>, data)

LpHandlers == [
    initialize_v2    |-> ix(<<readonly("vault"), writable("v2"), writable_signer("owner"), readonly("system")>>, <<>>),
    update_v2_config |-> ix(<<readonly("vault"), writable("v2"), readonly_signer("owner")>>,
        <<option(u16("min_house_share")), option(u16("max_user_position")), option(u16("min_health")),
          option(u64("cooldown")), option(u64("min_deposit")), option(byte("vrf_mode")),
          option(key("validator")), option(u16("vrf_max_payout"))>>),
    lp_deposit |-> ix(user_position(writable_signer("user"), <<>>).accounts \o <<readonly("system")>>, <<u64("amount")>>),
    request_withdraw  |-> user_position(writable_signer("user"), <<u128("units")>>),
    cancel_withdraw   |-> user_position(writable_signer("user"), <<>>),
    complete_withdraw |-> user_position(writable("user"), <<>>),
    close_lp_position |-> ix(<<writable("position"), writable_signer("user")>>, <<>>)]

\* check_house_ctx
house_ctx == <<writable("vault"), writable("v2"), writable_signer("owner")>>

HouseHandlers == [
    house_deposit           |-> ix(house_ctx \o <<readonly("system")>>, <<u64("amount")>>),
    house_request_withdraw  |-> ix(house_ctx, <<u128("units")>>),
    house_cancel_withdraw   |-> ix(house_ctx, <<>>),
    house_complete_withdraw |-> ix(house_ctx, <<>>)]

VrfHandlers == [
    start_game_vrf |-> ix(<<writable_signer("player"), writable("vault"), writable("v2"), writable("claim"), writable("vrf_game"),
                            writable("stats"), readonly("system")>>, <<byte("mine_count"), u64("bet"), key("session")>>),
    delegate_vrf |-> ix(<<writable_signer("player"), writable("buffer"), writable("record"), writable("metadata"), writable("vrf_game"),
                          readonly("v2"), readonly("program"), readonly("delegation"), readonly("system")>>, <<>>),
    reveal_request_vrf |-> ix(<<writable_signer("session"), writable("vrf_game"), writable("queue"), readonly("identity"),
                                readonly("vrf"), readonly("slot_hashes"), readonly("system")>>, <<byte("tile"), byte("client_seed")>>),
    cash_out_vrf |-> ix(<<writable_signer("session"), writable("vrf_game")>>, <<>>),
    settle_and_undelegate_vrf |-> ix(<<writable_signer("payer"), writable("vrf_game"), readonly("magic"), writable("magic_context")>>, <<>>),
    force_undelegate_vrf |-> ix(<<writable_signer("house"), writable("vrf_game"), readonly("magic"), writable("magic_context"), readonly("vault")>>, <<>>),
    settle_vrf |-> ix(<<writable_signer("payer"), writable("player"), writable("claim"), writable("vrf_game"), writable("vault"),
                        writable("v2"), writable("treasury"), writable("stats"), readonly("system")>>, <<>>),
    refund_stalled_vrf |-> ix(<<readonly_signer("caller"), writable("player"), writable("claim"), writable("vrf_game"), writable("vault"), writable("v2")>>, <<>>),
    admin_release_vrf_claim |-> ix(<<readonly_signer("owner"), writable("player"), writable("claim"), writable("vault"), writable("v2")>>, <<>>),
    admin_close_orphaned_game_v2 |-> ix(<<readonly_signer("owner"), writable("player"), writable("game_v2"), writable("vault"), writable("v2")>>, <<>>)]

Handlers == VaultHandlers @@ ReferralHandlers @@ LegacyHandlers @@ LpHandlers @@ HouseHandlers @@ VrfHandlers

\* Where each side derives an account: the seeds, and whose key follows them.
ClientSeeds == [
    vault |-> <<"kaboom_vault">>, v2 |-> <<"kaboom_v2_state">>, position |-> <<"kaboom_lp", "user">>,
    game |-> <<"kaboom_game", "player">>, stats |-> <<"kaboom_stats", "player">>,
    referral |-> <<"kaboom_referral", "referrer">>]

RoundSeeds == [
    claim |-> <<"kaboom_vrf_claim", "player">>, vrf_game |-> <<"kaboom_vrf_game", "player">>,
    buffer |-> <<"buffer", "vrf_game">>, record |-> <<"delegation", "vrf_game">>,
    metadata |-> <<"delegation-metadata", "vrf_game">>, identity |-> <<"identity">>,
    game_v2 |-> <<"game_v2", "player">>]

ProgramSeeds == [
    vault |-> <<"kaboom_vault">>, v2 |-> <<"kaboom_v2_state">>, position |-> <<"kaboom_lp", "user">>,
    game |-> <<"kaboom_game", "player">>, game_v2 |-> <<"game_v2", "player">>,
    stats |-> <<"kaboom_stats", "player">>, referral |-> <<"kaboom_referral", "referrer">>,
    claim |-> <<"kaboom_vrf_claim", "player">>, vrf_game |-> <<"kaboom_vrf_game", "player">>,
    identity |-> <<"identity">>, buffer |-> <<"buffer", "vrf_game">>, record |-> <<"delegation", "vrf_game">>,
    metadata |-> <<"delegation-metadata", "vrf_game">>]

-----------------------------------------------------------------------------
(* Accounts: the program's offsets (state.rs) and the client's readers        *)
(* (accounts.ts, vrf.ts).  The client stops where it needs nothing more.      *)

bytes(f, n) == field(f, n, FALSE)
keys(f, n) == field(f, 32 * n, FALSE)

Stored == [
    GameSession |-> <<key("player"), byte("bump"), byte("status"), u64("bet"), byte("mine_count"), key("commitment"),
        u16("revealed"), u16("revealed_safe"), byte("safe_reveals"), u64("multiplier"), u64("start_slot"), u64("created_at"),
        byte("settled"), u16("mine_layout"), key("salt"), byte("version"), u64("max_payout"), bytes("reserved", 24)>>,
    LpPosition |-> <<key("user"), u128("units"), u128("pending_units"), u64("unlock_slot"), u64("created_slot"), byte("bump"),
        bytes("reserved", 32)>>,
    PlayerStats |-> <<key("player"), byte("bump"), byte("version"), u64("games_played"), u64("games_won"), u64("wagered"),
        u64("payouts"), u64("biggest_win"), u64("biggest_multiplier"), u32("streak"), u32("best_streak"), u64("last_played"),
        option(key("referrer")), bytes("reserved", 64)>>,
    ReferralAccount |-> <<key("referrer"), byte("bump"), byte("version"), byte("tier"), u64("accrued"), u64("earned"),
        u32("referred_count"), u64("referred_volume"), bytes("reserved", 32)>>,
    Vault |-> <<key("owner"), key("house"), key("treasury"), byte("bump"), u16("edge"), u16("max_bet"), u16("max_payout"),
        u16("treasury_split"), u64("games"), u64("wagered"), u64("payouts"), byte("paused"), byte("version"),
        byte("allowlist_count"), keys("allowlist", 8), key("pending_owner")>>,
    VaultV2State |-> <<byte("bump"), u64("outstanding"), u128("total_units"), u128("house_units"), u128("house_pending"),
        u64("house_unlock"), u128("seed_units"), u128("total_pending"), u16("min_house_share"), u16("max_user_position"),
        u16("min_health"), u64("cooldown"), u64("min_deposit"), byte("vrf_mode"), key("validator"), u16("vrf_max_payout"),
        bytes("reserved", 29)>>,
    VrfClaim |-> <<key("player"), u64("bet"), u64("reserved"), byte("mine_count"), u16("edge"), u64("start_slot"),
        byte("settled"), byte("bump")>>,
    VrfGame |-> <<byte("status"), key("player"), key("session"), byte("bump"), byte("mine_count"), u16("edge"),
        byte("safe_reveals"), byte("reveal_count"), byte("pending"), byte("pending_tile"), u16("revealed"), u16("mines"),
        u64("multiplier"), bytes("reveals", 16 * 33)>>]

VaultDecoders == [
    VaultV2State |-> <<byte("bump"), u64("outstanding"), u128("total_units"), u128("house_units"), u128("house_pending"),
        u64("house_unlock"), u128("seed_units"), u128("total_pending"), u16("min_house_share"), u16("max_user_position"),
        u16("min_health"), u64("cooldown"), u64("min_deposit"), byte("vrf_mode"), key("validator"), u16("vrf_max_payout")>>,
    LpPosition |-> <<key("user"), u128("units"), u128("pending_units"), u64("unlock_slot"), u64("created_slot"), byte("bump")>>,
    Vault |-> <<key("owner"), key("house"), key("treasury"), byte("bump"), u16("edge"), u16("max_bet"), u16("max_payout"),
        u16("treasury_split"), u64("games"), u64("wagered"), u64("payouts"), byte("paused"), byte("version"),
        byte("allowlist_count"), keys("allowlist", 8), key("pending_owner")>>]

PlayerDecoders == [
    GameSession |-> <<key("player"), byte("bump"), byte("status"), u64("bet"), byte("mine_count"), key("commitment"),
        u16("revealed"), u16("revealed_safe"), byte("safe_reveals"), u64("multiplier"), u64("start_slot"), u64("created_at"),
        byte("settled"), u16("mine_layout"), key("salt"), byte("version"), u64("max_payout")>>,
    PlayerStats |-> <<key("player"), byte("bump"), byte("version"), u64("games_played"), u64("games_won"), u64("wagered"),
        u64("payouts"), u64("biggest_win"), u64("biggest_multiplier"), u32("streak"), u32("best_streak"), u64("last_played"),
        option(key("referrer"))>>,
    ReferralAccount |-> <<key("referrer"), byte("bump"), byte("version"), byte("tier"), u64("accrued"), u64("earned"),
        u32("referred_count"), u64("referred_volume")>>]

RoundDecoders == [
    VrfClaim |-> <<key("player"), u64("bet"), u64("reserved"), byte("mine_count"), u16("edge"), u64("start_slot"),
        byte("settled"), byte("bump")>>,
    VrfGame |-> <<byte("status"), key("player"), key("session"), byte("bump"), byte("mine_count"), u16("edge"),
        byte("safe_reveals"), byte("reveal_count"), byte("pending"), byte("pending_tile"), u16("revealed"), u16("mines"),
        u64("multiplier"), bytes("reveals", 16 * 33)>>]

Decoders == VaultDecoders @@ PlayerDecoders @@ RoundDecoders

-----------------------------------------------------------------------------
(* Events: the 19 the client knows of the 34 the program has (events.rs).     *)

Emitted == [
    StatsUpdated |-> <<key("player"), u64("games_played"), u64("games_won"), u64("wagered"), u64("payouts"),
                       u64("biggest_win"), u32("streak"), u64("slot")>>,
    GameSettled |-> <<key("player"), key("game"), byte("mine_count"), u16("mine_layout"), key("salt"), key("commitment"),
                      byte("verified"), u64("slot")>>,
    GameWon  |-> <<key("player"), key("game"), u64("bet"), u64("payout"), u64("multiplier"), byte("safe_reveals"), u64("slot")>>,
    GameLost |-> <<key("player"), key("game"), u64("bet"), byte("tile"), byte("safe_reveals"), u64("slot")>>,
    ReferrerSet |-> <<key("player"), key("referrer"), u64("slot")>>,
    ReferralAccrued |-> <<key("referrer"), key("player"), u64("amount"), byte("tier"), u64("slot")>>,
    ReferralTierChanged |-> <<key("referrer"), byte("tier"), u64("slot")>>,
    ReferralClaimed |-> <<key("referrer"), u64("amount"), u64("slot")>>,
    V2Initialized |-> <<key("vault"), u128("seed_units"), u128("house_units"), u128("total_units"), u64("slot")>>,
    LpDeposited |-> <<key("user"), u64("amount"), u128("units"), u128("total_units"), u64("assets"), u64("slot")>>,
    LpWithdrawRequested |-> <<key("user"), u128("units"), u64("unlock_slot"), u64("slot")>>,
    LpWithdrawCancelled |-> <<key("user"), u128("units"), u64("slot")>>,
    LpWithdrawCompleted |-> <<key("user"), u128("units"), u64("amount"), u128("total_units"), u64("assets"), u64("slot")>>,
    LpPositionClosed |-> <<key("user"), u64("slot")>>,
    HouseDeposited |-> <<u64("amount"), u128("units"), u128("total_units"), u64("slot")>>,
    HouseWithdrawRequested |-> <<u128("units"), u64("unlock_slot"), u64("slot")>>,
    HouseWithdrawCancelled |-> <<u128("units"), u64("slot")>>,
    HouseWithdrawCompleted |-> <<u128("units"), u64("amount"), u64("slot")>>,
    VaultUnitValueUpdated |-> <<key("vault"), u64("assets"), u128("total_units"), u16("health"), u64("slot")>>]

PlayEvents == [
    StatsUpdated |-> <<key("player"), u64("games_played"), u64("games_won"), u64("wagered"), u64("payouts"),
                       u64("biggest_win"), u32("streak"), u64("slot")>>,
    GameSettled |-> <<key("player"), key("game"), byte("mine_count"), u16("mine_layout"), key("salt"), key("commitment"),
                      byte("verified"), u64("slot")>>,
    GameWon  |-> <<key("player"), key("game"), u64("bet"), u64("payout"), u64("multiplier"), byte("safe_reveals"), u64("slot")>>,
    GameLost |-> <<key("player"), key("game"), u64("bet"), byte("tile"), byte("safe_reveals"), u64("slot")>>,
    ReferrerSet |-> <<key("player"), key("referrer"), u64("slot")>>,
    ReferralAccrued |-> <<key("referrer"), key("player"), u64("amount"), byte("tier"), u64("slot")>>,
    ReferralTierChanged |-> <<key("referrer"), byte("tier"), u64("slot")>>,
    ReferralClaimed |-> <<key("referrer"), u64("amount"), u64("slot")>>]

LpEvents == [
    V2Initialized |-> <<key("vault"), u128("seed_units"), u128("house_units"), u128("total_units"), u64("slot")>>,
    LpDeposited |-> <<key("user"), u64("amount"), u128("units"), u128("total_units"), u64("assets"), u64("slot")>>,
    LpWithdrawRequested |-> <<key("user"), u128("units"), u64("unlock_slot"), u64("slot")>>,
    LpWithdrawCancelled |-> <<key("user"), u128("units"), u64("slot")>>,
    LpWithdrawCompleted |-> <<key("user"), u128("units"), u64("amount"), u128("total_units"), u64("assets"), u64("slot")>>,
    LpPositionClosed |-> <<key("user"), u64("slot")>>,
    HouseDeposited |-> <<u64("amount"), u128("units"), u128("total_units"), u64("slot")>>,
    HouseWithdrawRequested |-> <<u128("units"), u64("unlock_slot"), u64("slot")>>,
    HouseWithdrawCancelled |-> <<u128("units"), u64("slot")>>,
    HouseWithdrawCompleted |-> <<u128("units"), u64("amount"), u64("slot")>>,
    VaultUnitValueUpdated |-> <<key("vault"), u64("assets"), u128("total_units"), u16("health"), u64("slot")>>]

EventDecoders == PlayEvents @@ LpEvents

-----------------------------------------------------------------------------
(* Writing and reading *)

bytes_of(fld) == [i \in 1..fld.width |-> <<fld.f, i>>]
absent_tag == <<"tag", 0>>
present_tag == <<"tag", 1>>

\* Mutant: an absent option writes nothing (the form of a hand-written struct).
encodeOption_bare(fld, given) == IF fld.f \in given THEN <<present_tag>> \o bytes_of(fld) ELSE <<>>

\* encodeOption, and Borsh's Option in an account.
encodeOption(fld, given) == IF fld.f \in given THEN <<present_tag>> \o bytes_of(fld) ELSE <<absent_tag>>

encode(layout, given) ==
    FlattenSeq([i \in DOMAIN layout |-> IF layout[i].opt THEN encodeOption(layout[i], given) ELSE bytes_of(layout[i])])

nothing_read == [at |-> 1, values |-> <<>>]

\* A reader that runs past the end fails.
end_of_data == <<"end", 0>>
slice(data, first, last) == IF last <= Len(data) THEN SubSeq(data, first, last) ELSE <<end_of_data>>

\* One field: the bytes from the reader's place on, or none behind an absent tag.
\* The program refuses a tag that is none; the client reads it as present.
read_field(data, got, fld) ==
    LET skip  == IF fld.opt THEN 1 ELSE 0
        taken == IF fld.opt /\ got.at <= Len(data) /\ data[got.at] = absent_tag THEN 0 ELSE fld.width
    IN  [at |-> got.at + skip + taken,
         values |-> Append(got.values, slice(data, got.at + skip, got.at + skip + taken - 1))]

decode(layout, data) == FoldLeft(LAMBDA got, fld : read_field(data, got, fld), nothing_read, layout).values

intended(layout, given) ==
    [i \in DOMAIN layout |-> IF layout[i].opt /\ layout[i].f \notin given THEN <<>> ELSE bytes_of(layout[i])]

options(layout) == {fld.f : fld \in {g \in ToSet(layout) : g.opt}}

address(seeds, a) == IF a \in DOMAIN seeds THEN seeds[a] ELSE <<a>>

\* The flags the handler asks for are on the account the handler means.
satisfies(sent, asked) ==
    /\ Len(sent) >= Len(asked)
    /\ \A i \in DOMAIN asked :
         /\ address(ClientSeeds @@ RoundSeeds, sent[i].acc) = address(ProgramSeeds, asked[i].acc)
         /\ asked[i].signs => sent[i].signs
         /\ asked[i].writable => sent[i].writable

no_message == [at |-> "none", name |-> "none", given |-> {}, data |-> <<>>, accounts |-> <<>>, values |-> <<>>, taken |-> TRUE]

Init == wire = no_message

message(at, name, given, data, accounts) ==
    wire' = [no_message EXCEPT !.at = at, !.name = name, !.given = given, !.data = data, !.accounts = accounts]

\* The client builds an instruction with any of its options.
build(name) ==
    /\ wire.at = "none"
    /\ \E given \in SUBSET options(Builders[name].data), trail \in {<<>>, <<writable("referral")>>} :
         /\ trail # <<>> => name \in MayTrail
         /\ message("handler", name, given, encode(Builders[name].data, given), Builders[name].accounts \o trail)

handle ==
    /\ wire.at = "handler"
    /\ wire' = [wire EXCEPT !.at = "handled", !.values = decode(Handlers[wire.name].data, wire.data),
                            !.taken = satisfies(wire.accounts, Handlers[wire.name].accounts)]

store(name) ==
    /\ wire.at = "none"
    /\ \E given \in SUBSET options(Stored[name]) : message("account", name, given, encode(Stored[name], given), <<>>)

emit(name) ==
    /\ wire.at = "none"
    /\ message("event", name, {}, encode(Emitted[name], {}), <<>>)

decode_account ==
    /\ wire.at = "account"
    /\ wire' = [wire EXCEPT !.at = "decoded", !.values = decode(Decoders[wire.name], wire.data)]

decode_event ==
    /\ wire.at = "event"
    /\ wire' = [wire EXCEPT !.at = "extracted", !.values = decode(EventDecoders[wire.name], wire.data)]

delivered == wire.at \in {"handled", "decoded", "extracted"} /\ wire' = no_message

Next ==
    \/ \E name \in DOMAIN Builders : build(name)
    \/ handle
    \/ \E name \in DOMAIN Stored : store(name)
    \/ \E name \in DOMAIN Emitted : emit(name)
    \/ decode_account \/ decode_event \/ delivered

Spec == Init /\ [][Next]_wireVars

\* Whoever reads a message takes for every field the bytes that were written for
\* it, whichever options the writer left out, and a handler is given the accounts
\* it asks for, with the signatures and write locks it asks for: two hand-written
\* sides agree (a byte or an account off by one is read as something else, and
\* fails far away if at all).
ReadsWhatWasWritten ==
    /\ wire.taken
    /\ wire.at = "handled"   => wire.values = intended(Handlers[wire.name].data, wire.given)
    /\ wire.at = "decoded"   => wire.values = intended(Decoders[wire.name], wire.given)
    /\ wire.at = "extracted" => wire.values = intended(EventDecoders[wire.name], wire.given)

=============================================================================
