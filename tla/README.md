# TLA+ models of the memeart contract

This directory holds TLA+ models of the CosmWasm contract in
`src/contracts/memeart/src`. The contract is a cw721 NFT ledger. Each token may
name a parent token, and mint records a lineage for it: the parent and the
"original" at the root. The attached payment is split between the owners of
that lineage, a DAO address and a funds address. Each model is written from the
Rust source. `spec.md` is used only as the statement of what the code should do.
Where the two disagree, a run shows the difference.

## 1. Inventory

### Components and their state

| Component | Source | State it keeps | Operations |
|---|---|---|---|
| Entry dispatch | `lib.rs` `entry::execute` | none | It handles Mint, UpdateMintingFees, SetAdminAddress, UpdateOriginAdmin and UpdateOriginImage itself. Every other message goes to `cw721-base`. |
| Admin/Config | `execute.rs` 25–125, 340–369; `state.rs` | `MINTING_FEES_INFO` (cap, base fee, burn/original/parent %, DAO and funds addresses, denom, decimals); cw721 `minter` (used as the admin); `ORIGINAL_ADMIN_INFO` (three strings, absent until first saved) | instantiate, update_minting_fees, set_admin_address, update_origin_admin |
| Mint orchestrator | `execute.rs` `mint` 128–288 | cw721 `tokens` (key → owner, approvals, uri, extension), `token_count` | mint |
| Lineage resolver | `execute.rs` 176–231 | reads `tokens` | the parent/original block of mint |
| Fee splitter | `utils.rs` `get_mint_response` | none (pure) | builds the list of BankMsg::Send |
| Origin image | `execute.rs` 373–431 | the `original_image` field of a token | update_origin_image |
| Metadata lifecycle | `execute.rs` 294–336, 437–531 | extension fields | update_metadata, clear_metadata, transfer_nft, send_nft, burn. **Only burn's behaviour is reached through `lib.rs`, via cw721-base.** |
| Ledger (cw721-base) | external crate, reached through `lib.rs` 60–62 | tokens, approvals, operators, token_count | TransferNft, SendNft, Burn, Approve, Revoke, ApproveAll, RevokeAll |
| Queries | `query.rs` | reads only | contract_info, original_admin, address_of, get_parent_id, get_parent_nft_info |
| Migration | `lib.rs` 83–92 | the cw2 version | migrate |

### How the components interact

Calls never run at the same time. Each message is one transaction that
runs to completion, and a failed transaction reverts all of its writes. A
transaction fails on an `Err`, on a panic (`unwrap`, Uint128 underflow), or
when a BankMsg of its response is rejected by the bank module. Mint calls
the lineage resolver, which reads the parent and the original from `tokens`.
Mint then stores the token, and the fee splitter turns the whole attached coin
amount into BankMsgs. The host runs these after the contract returns, and they
can still revert the mint. The admin handlers write the config that mint reads.
Transfers and burns change `tokens` through cw721-base.

### What is hard here

Nothing in this code runs concurrently, so the hard parts are sequences of
calls and the numeric edges:
- Mint keeps whatever extension the minter sent. Lineage fields can be preset
  by the caller, and later mints depend on them.
- The shares are floored. The funds share takes the remainder, and the DAO
  share is folded back into it when no DAO is set. Payees may coincide.
- Config is stored without validation, and mints fail in several ways that
  depend on it: an unwrap of a None percentage, an underflow when the
  percentages sum above 100, a zero-coin send, a BankMsg to an invalid address.
- Lineage is stored as token ids. Burning an original freezes its lineage.
  Re-minting an id changes what the descendants of that id point to, and can
  close a cycle.
- Every resolved share is sent, even a share of 0, and the bank rejects a
  zero-coin send.
- update_metadata restores only `parent_token_id`: the owner's payload sets
  `original_token_id` and `original_image`.
- Ids are case-insensitive in storage, but the parent lookup uses the id as it
  was written.

### Properties that make each component correct

- Fee splitter: every payee gets exactly its share by role, and the split does
  not panic for a valid schedule.
- Mint: `token_count` matches storage. Ids are unique regardless of case. A
  mint that pays the configured fee leaves the contract's native balance
  unchanged.
- Lineage: `original_token_id` names a lineage root (spec §3). `original_image`
  is set only by origin admins.
- Admin/config: privileged state changes only when its authority calls, across
  admin rotation. Each configured origin admin can act.
- Metadata lifecycle: a transfer clears the extension (spec §4.4). Only an
  origin admin sets `original_image`, including through `update_metadata`.
  With clearing transfers, names still change holder only at the holder's
  call.

The hazards, each at the line where it happens, are listed in `PROJECT.json`
under "hazards".

## 2. Plan

1. **FeeSplit** (done): `get_mint_response` as an operator. MCFeeSplit checks
   it against a reference split, stated role by role, over every combination
   of a small input set.
2. **MemeArt** (done): the contract as dispatched by `lib.rs`. It has one
   action per dispatched message and a model of the bank's handling of the
   response. It uses FeeSplit.
3. **NameRegistry** (done): an abstract specification of the token ids. MemeArt
   implements it through `INSTANCE ... WITH`.
4. **Mint availability** (done): `WellFormedMintSucceeds`, run on a burned
   original and on a zero share under a schedule the spec allows.
5. **Lineage run** (done): three keys, honest payloads, burn and re-mint.
   `LineageAcyclic` over the links `get_parent_id` returns.
6. **MetadataLifecycle** (done): the execute.rs lifecycle handlers composed
   with the dispatched ones.
7. **Lineage payouts** (done): `MintPaysLineage` on three keys. The payees of
   a mint are the current owners of the parent and of a flagged original.
8. **Lifecycle refinement** (done): the lifecycle variant, whose transfers
   clear the extension, is also checked against NameRegistry.
9. **Left open**: the payout consequences of clearing on transfer under
   LifecycleSpec. `MintPaysLineage` needs three keys, so that the parent owner
   and the original owner can differ. On three keys, lineage_core alone takes
   about 2.5 minutes, and the lifecycle's edits and clearing transfers would
   take the run past the 5-minute budget.

## 3. Modules and how they correspond to the code

### FeeSplit.tla
- `GetMintResponse` is `get_mint_response` (utils.rs 26–131). It returns
  `[ok, msgs]`. `ok = FALSE` stands for the panics: a None percentage, or
  shares larger than the fee.
- `PercentOf` is `fee * Decimal::percent(p)`, which floors.
- `FeeToDao` is the DAO accumulator. `FeeToFunds` is the funds share, including
  the fold-back when no DAO address is set.
- The messages are in the code's order: original, parent, DAO, funds or admin.
  A share of 0 is still a message, as in the code.

### MemeArt.tla
State:
- `tokens`: storage key ↦ owner and the lineage fields of the extension.
- `tokenCount`.
- `fees`.
- `admin`: the cw721 minter.
- `originAdmins`: None until first saved.
- `contractNative`: the contract account's balance of the native denom.
- `last`: the operation, the sender and the BankMsgs sent by the last
  committed call. It is used by the action properties.

A failed call is a stuttering step, because the transaction reverts. Each
action is therefore the whole successful transaction, guarded by every check
that could fail:
- `Mint` (execute.rs 128–288) is composed of `UnderCap`, `ResolveLineage`,
  `PaymentCovers`, `StoreNewToken`, `GetMintResponse` and `BankAccepts`.
- `UpdateMintingFees`, `SetAdminAddress`, `UpdateOriginAdmin` and
  `UpdateOriginImage` (the last guarded by `IsOriginAdmin`) are the handlers
  of the same names.
- `TransferNft`, `SendNft` and `Burn` are the cw721-base handlers that
  lib.rs 60–62 reaches. They are modelled with the token owner as the only
  authorised sender. `Burn` is the same code as execute.rs `burn`.
- `ContractNext` holds the five messages lib.rs 53–59 handles itself.
  `BaseNext` holds the ones it passes to cw721-base. `Next` is their union.
- `GetParentId` is the query `get_parent_id` (query.rs 81–101). `ParentGraph`
  is the graph of the links it returns.
- `AddressOf` is the query `address_of` (query.rs 66–77).
- `MintPaysLineage` uses it to name the parent payee independently of the
  code's lineage block. The original it checks is the `original_token_id` the
  code itself stored, so a lineage block that recorded the wrong original
  would still pass it; `OriginalNamesRoot` is about that field.

Data abstractions:
- Token ids are model values. `Lower` maps each one to its lowercase form, and
  `Load(id)` finds a token only when the id is already a lowercase key.
- `Empty` is the string "".
- `BadAddr` is a string that `addr_validate` and the bank reject.
- Extension fields other than the lineage fields are left out. No property
  reads them.
- `approvals` and `token_uri` are left out.

### MetadataLifecycle.tla
It EXTENDS MemeArt:
- `UpdateMetadata` is `update_metadata` (execute.rs 294–336): owner only. The
  payload replaces the extension and the stored parent is put back.
- `ClearMetadata` is `clear_metadata` (437–454), an operator on the token
  map.
- `ClearingTransfer` is `transfer_nft` / `send_nft` (456–512): load,
  `check_can_send`, clear, then cw721-base `_transfer_nft`.
- `LifecycleNext` is `ContractNext` plus these handlers and `Burn`. It is the
  contract as it would run if `lib.rs` dispatched these functions, as the spec
  lists them among the operations.
- Because `lib.rs` does not dispatch them, `LifecycleNext` has no map entry of
  its own. Its parts do.

### NameRegistry.tla
This is the abstract specification. `holder` maps each name to its holder or
`Free`, and `actor` is the account that made the last call. A name is claimed
only while it is free. Only its holder moves it or frees it. The refinement
mapping in MemeArt (`Registry`) maps `holder` to the owner of the stored token
and `actor` to `last.caller`.

### MC modules
- `MCMemeArt`: 2 users and ids `a`, `A`, `b`, with the example schedules.
- `MCMemeArtLineage`: ids `a`, `b`, `c` and honest payloads, with a free schedule (lineage_cycle) or the fee-paying example schedule (lineage_core).
- `MCMetadataLifecycle`: `MCMemeArt` plus the update_metadata payloads.

## 4. Runs

| Run | Expect | What it shows |
|---|---|---|
| fee_split | pass | Over 11,664 inputs, `get_mint_response` pays each payee exactly its share by role (`SplitMatchesReference`). It never panics when the percentages sum to at most 100 (`SplitDefinedForValidConfig`). |
| contract_core | pass | `SupplyMatchesTokens`; `NativeKeptWhenFeeSet` (a mint under a fee schedule is balance-neutral for the contract); `PrivilegedChangesAuthorized` (fees, admin, origin admins and the image flag change only when their authority calls, across admin rotations); `ImplementsRegistry` (MemeArt refines NameRegistry). 53,392 states. |
| lifecycle | pass | With the execute.rs handlers: `ImplementsRegistry` shows that update_metadata and the clearing transfers still move or free a name only at its holder's call. 93,920 states. |
| lineage_core | pass | Three ids and a fee-paying schedule. `MintPaysLineage`: each mint pays the parent share to the parent's current owner, and the original share to the current owner of a flagged original. 266,536 states, about 2.5 min. |
| forged_original | violation | `OriginalNamesRoot`: a mint with no parent stores the caller's `original_token_id`. |
| fee_less_payout | violation | `ContractNeverPaysFromOwnBalance`: with no base fee, a mint paid in another denom makes the contract send its own native coins. The same line also splits an overpayment in full. |
| transfer_keeps_metadata | violation | `TransferClearsMetadata`: the dispatched transfer keeps the extension. |
| origin_admin_slot | violation | `OriginAdminCanAct`: one invalid origin-admin slot disables all three. |
| burned_original | violation | `WellFormedMintSucceeds`: mint `a`, mint `b` under `a`, burn `a`. No child of `b` can then be minted (the original fails to load). |
| zero_share | violation | `WellFormedMintSucceeds`: with a 0% parent share (allowed by the spec), every child mint sends a zero coin and reverts. |
| lineage_cycle | violation | `LineageAcyclic`: `a ← b ← c`, burn `b`, mint `b` under `c`. `b` and `c` are now each other's parent. |
| owner_sets_image | violation | `OriginImageOnlyByOriginAdmin` under `LifecycleSpec`: an honest mint, then `update_metadata` by the owner with `original_image = true`. Spec §3 allows only origin admins to set the flag. lib.rs does not dispatch update_metadata today. |

`OriginImageOnlyByOriginAdmin` is also violated in one step by a mint with a
caller-supplied `original_image = true` (execute.rs:181). That case is
recorded with the forged_original finding and has no run of its own.

Each property of a passing run has a mutant in `PROJECT.json`. A mutant is a
plausible fault of the mapped code: a dropped Claimed check,
a dropped `must_pay`, a dropped sender check, a dropped addr_validate, a DAO
share dropped instead of folded, a rounding-up product, a transfer without `check_can_send`, or a lineage block that swaps the
parent and original owners. TLC finds the property
violated when the mutant replaces the code.

Other schedules that make every fee-paying mint fail were also checked:
- a None percentage, where `unwrap` panics;
- percentages above 100, where the Uint128 subtraction underflows;
- an invalid DAO address.

`execute_instantiate` and `update_minting_fees` both store such schedules, so
they violate `WellFormedMintSucceeds` from the first state on. This is listed as
a hazard (execute.rs:89).

## 5. Bounds and why they are enough

- Two users. One is the admin, and the admin can be rotated to the other.
- Ids `a`, `A`, `b`: two storage keys, plus one upper-case spelling of `a`,
  which exercises the Claimed check across letter case and the case-sensitive
  parent lookup.
- Parent references: None, "", each id, and the token's own id.
- Two fee schedules: the spec's example (fee 10, 10 %/20 %, cap 1 so that a
  second mint meets it with two keys, no DAO, funds address set), and a free
  schedule (no fee, no cap, 10 %/40 %, DAO set, no funds address). Together
  they reach the DAO fold-back, the admin fallback, the cap boundary and the
  fee-less path. The zero_share run swaps in a 10 %/0 % schedule.
- Coins of 10 and 15 in the native or another denom, no funds, or two coins.
  The lifecycle run keeps only 10 and a starting balance of 0, because its
  properties do not read amounts.
- The contract starts with 0 or 10 native.
- `ZeroSendFails = TRUE`: current Cosmos SDK bank rejects a send of a zero
  coin.
- A cycle in the lineage needs a chain of three tokens, so the lineage runs
  use three keys, with one schedule and one coin.
- A mint whose parent and original differ also needs three tokens: a
  grandchild. Only then can the parent owner and the original owner differ.
  lineage_core uses the fee-paying example schedule, with the remainder going
  to the admin. So a payee that is not also the admin or the DAO really
  depends on its own share.
- `ImageFlags` is {TRUE} in lineage_core. A flag of FALSE pays exactly as None
  does. Every other run lets UpdateOriginImage send None, TRUE or FALSE.

Every combination of payees, shares and redirections is covered exhaustively
by fee_split. contract_core explores every sequence of calls until each id is
minted, transferred, burned and re-minted.

## 6. Fairness

There is none. The system has no internal process that must make progress.
Every step is an external call that a user may or may not send, so all checked
properties are safety or refinement properties. "Can a mint still succeed" is a
question about the current state, so `WellFormedMintSucceeds` is stated as an
invariant with ENABLED, not as liveness.

## 7. Not modelled

- Queries other than get_parent_id: `contract_info`, `original_admin`,
  `is_contract`, `address_of` and `get_parent_nft_info` copy stored fields into
  a response. They change nothing, and no property reads them.
  `get_parent_nft_info` has the same control as `get_parent_id`: it loads the
  parent by the stored id. A burned parent therefore makes it fail, and a
  re-minted id makes it return the new token; the hazard list records this.
- Migrate: `execute_instantiate` (execute.rs:32) and `migrate` (lib.rs:90)
  write the same cw2 record, and migrate changes nothing else. So a migrate
  of this code leaves every reachable state as it was. A migration from an
  older version would start from state written by that older code, which is
  not in the repository.
- `PRIMARY_ALIASES`: never used.
- `token_uri`, and extension fields other than parent/original/image: no
  property reads them.
- cw721-base approvals (Approve, Revoke, ApproveAll, RevokeAll): they belong
  to the external cw721-base crate, which is not in this repository. Transfers
  are therefore modelled with the owner as the only authorised sender.
- `burn_percentage`, `native_decimals`: never read by any handler.
- The width of `token_cap`: msg.rs is not in the repository.
