------------------------------ MODULE MemeArt ------------------------------
(***************************************************************************)
(* The memeart CosmWasm contract: a cw721 token ledger whose mint records *)
(* a lineage (parent and original token) and splits the attached payment  *)
(* between the lineage owners, a DAO and a funds address.                 *)
(*                                                                         *)
(* Every entry point runs to completion as one transaction, and a failed  *)
(* transaction (an Err, a panic, or a BankMsg of its response that the    *)
(* bank rejects) leaves the contract state untouched.  So each action is  *)
(* the whole committed transaction, its guard the conjunction of every    *)
(* check that would make it fail, and a failed call is a stuttering step. *)
(*                                                                         *)
(* The entry point in lib.rs handles Mint, UpdateMintingFees,             *)
(* SetAdminAddress, UpdateOriginAdmin and UpdateOriginImage itself and   *)
(* hands every other message (TransferNft, SendNft, Burn, approvals) to  *)
(* the cw721-base contract, whose transfer keeps the token's extension.  *)
(***************************************************************************)
EXTENDS Naturals, FiniteSets, Sequences, FeeSplit
LOCAL INSTANCE Graphs

CONSTANTS
  Users,          \* valid account addresses that sign transactions
  BadAddr,        \* a string that addr_validate and the bank reject
  RawIds,         \* token_id strings as callers write them
  Lower,          \* [RawIds -> RawIds]: str::to_lowercase
  Empty,          \* the empty string ""
  Native, Other,  \* the configured native denom and some other denom
  Amounts,        \* amounts of an attached coin
  NoFunds, MultiCoins, \* attached funds that one_coin rejects
  Exts,           \* extension payloads a minter may send
  FeeSchedules,   \* MintingFees a instantiate or UpdateMintingFees may carry
  OriginAdminSets, \* address triples UpdateOriginAdmin may carry
  InitNative,     \* native balances the contract account may start with
  ZeroSendFails,  \* the bank rejects a BankMsg::Send of a zero coin
  ImageFlags,     \* original_image values UpdateOriginImage may carry
  DefaultLimit    \* default_limit of mint: the owned-token scan bound

(* Storage keys: mint stores a token under its lowercased token_id.        *)
Keys == {Lower[r] : r \in RawIds}

ASSUME /\ Lower \in [RawIds -> RawIds]
       /\ \A k \in Keys : Lower[k] = k
       /\ Empty \notin RawIds
       /\ BadAddr \notin Users
       /\ DefaultLimit \in Nat \ {0}
       /\ ImageFlags \subseteq {None, TRUE, FALSE}

ParentRefs == {None, Empty} \cup RawIds
Extension  == [parent: ParentRefs, original: {None} \cup RawIds,
               image: {None, TRUE, FALSE}]
Token      == [owner: Users, parent: ParentRefs, original: {None} \cup RawIds,
               image: {None, TRUE, FALSE}]
Coin       == [denom: {Native, Other}, amount: Amounts]
Payments   == {NoFunds, MultiCoins} \cup Coin
Ops == {"instantiate", "mint", "update_minting_fees", "set_admin_address",
        "update_origin_admin", "update_origin_image", "transfer_nft",
        "send_nft", "burn", "update_metadata"}

VARIABLES
  tokens,          \* cw721 tokens map: storage key -> TokenInfo, or None
  tokenCount,      \* cw721 token_count (increment_tokens / decrement_tokens)
  fees,            \* MINTING_FEES_INFO
  admin,           \* cw721 minter item, used as the contract admin
  originAdmins,    \* ORIGINAL_ADMIN_INFO: None until first saved
  contractNative,  \* the contract account's balance of the native denom
  last             \* the last committed call: op, caller, BankMsgs sent

vars == <<tokens, tokenCount, fees, admin, originAdmins, contractNative, last>>

TypeOK ==
  /\ tokens \in [Keys -> Token \cup {None}]
  /\ tokenCount \in Nat
  /\ fees \in FeeSchedules
  /\ admin \in Users
  /\ originAdmins \in OriginAdminSets \cup {None}
  /\ contractNative \in Nat
  /\ last \in [op: Ops, caller: Users \cup {None},
             msgs: Seq([to: Users \cup {BadAddr}, amount: Nat])]

Done(op, caller, msgs) == last' = [op |-> op, caller |-> caller, msgs |-> msgs]

(* contract.tokens.load(storage, id): the key is the string as given.      *)
Load(id) == IF id \in Keys THEN tokens[id] ELSE None

----------------------------------------------------------------------------
(* execute_instantiate: save the fee schedule and the validated admin.     *)
(* ORIGINAL_ADMIN_INFO is not saved, so it stays absent.                   *)
Init ==
  /\ tokens = [k \in Keys |-> None]
  /\ tokenCount = 0
  /\ fees \in FeeSchedules
  /\ admin \in Users
  /\ originAdmins = None
  /\ contractNative \in InitNative
  /\ last = [op |-> "instantiate", caller |-> None, msgs |-> <<>>]

(* get_number_of_owned_tokens: the owner index scanned with take(limit).   *)
NumberOfOwnedTokens(address, limit) ==
  LET n == Cardinality({k \in Keys : tokens[k] # None /\ tokens[k].owner = address})
  IN IF n < limit THEN n ELSE limit

(* The cap check of mint: TokenCapExceeded once the count reaches the cap. *)
UnderCap(address) ==
  LET n == NumberOfOwnedTokens(address, DefaultLimit)
  IN IF fees.token_cap # None THEN n < fees.token_cap ELSE n < DefaultLimit

(* A fault of the lineage block: the two resolved owners swapped.        *)
ResolveLineageSwapped(token_id, ext) ==
  LET pti == ext.parent IN
  IF pti = None
  THEN [ok |-> TRUE, ext |-> ext, parent_address |-> None,
        original_address |-> None, original_image |-> FALSE]
  ELSE IF pti = Empty \/ pti = token_id
  THEN [ok |-> TRUE, ext |-> [ext EXCEPT !.parent = Empty],
        parent_address |-> None, original_address |-> None,
        original_image |-> FALSE]
  ELSE LET parent      == Load(pti)
           original_id == IF parent # None /\ parent.original # None
                          THEN parent.original ELSE pti
           original    == Load(original_id)
       IN IF parent = None \/ original = None THEN [ok |-> FALSE]
          ELSE [ok |-> TRUE, ext |-> [ext EXCEPT !.original = original_id],
                parent_address |-> original.owner,
                original_address |-> parent.owner,
                original_image |-> original.image = TRUE]

(* The lineage block of mint.  With a parent_token_id that is neither     *)
(* empty nor the token's own id, the parent must load; the original is    *)
(* the parent's original_token_id if set (and must load too), else the    *)
(* parent.  The new extension keeps every other field the minter sent.    *)
ResolveLineage(token_id, ext) ==
  LET pti == ext.parent IN
  IF pti = None
  THEN [ok |-> TRUE, ext |-> ext, parent_address |-> None,
        original_address |-> None, original_image |-> FALSE]
  ELSE IF pti = Empty \/ pti = token_id
  THEN [ok |-> TRUE, ext |-> [ext EXCEPT !.parent = Empty],
        parent_address |-> None, original_address |-> None,
        original_image |-> FALSE]
  ELSE LET parent      == Load(pti)
           original_id == IF parent # None /\ parent.original # None
                          THEN parent.original ELSE pti
           original    == Load(original_id)
       IN IF parent = None \/ original = None THEN [ok |-> FALSE]
          ELSE [ok |-> TRUE, ext |-> [ext EXCEPT !.original = original_id],
                parent_address |-> parent.owner,
                original_address |-> original.owner,
                original_image |-> original.image = TRUE]

PaymentCoversAnyDenom(funds, fee) ==
  /\ funds \notin {NoFunds, MultiCoins}
  /\ fee # None => funds.amount >= fee

(* one_coin, then must_pay(native_denom) and the amount check, both only  *)
(* when a base_mint_fee is configured.                                     *)
PaymentCovers(funds, fee) ==
  /\ funds \notin {NoFunds, MultiCoins}
  /\ fee # None => funds.denom = Native /\ funds.amount >= fee

StoreNewTokenUnclaimed(key, token) ==
  /\ tokens' = [tokens EXCEPT ![key] = token]
  /\ tokenCount' = tokenCount + 1

(* tokens.update(username, ...) fails with Claimed if the key is taken;   *)
(* then increment_tokens.                                                  *)
StoreNewToken(key, token) ==
  /\ tokens[key] = None
  /\ tokens' = [tokens EXCEPT ![key] = token]
  /\ tokenCount' = tokenCount + 1

(* The response's BankMsgs run after the contract returns; if one fails   *)
(* the whole transaction is reverted.                                      *)
BankAccepts(msgs, available) ==
  /\ \A i \in 1..Len(msgs) :
       /\ msgs[i].to # BadAddr
       /\ ZeroSendFails => msgs[i].amount > 0
  /\ TotalPaid(msgs) <= available

(* mint: self-mint only, under the cap, lineage resolved, payment checked, *)
(* token stored under the lowercased id, then the whole attached amount   *)
(* (Some(coin.amount)) split by get_mint_response.                         *)
Mint(sender, owner, token_id, ext, funds) ==
  LET lineage  == ResolveLineage(token_id, ext)
      received == IF funds.denom = Native THEN funds.amount ELSE 0
      split    == GetMintResponse(admin, lineage.parent_address,
                    lineage.original_address, funds.amount,
                    fees.parent_percentage, fees.original_percentage,
                    lineage.original_image, fees.dao_address,
                    fees.funds_address)
  IN /\ owner = sender
     /\ UnderCap(sender)
     /\ lineage.ok
     /\ PaymentCovers(funds, fees.base_mint_fee)
     /\ StoreNewToken(Lower[token_id],
          [owner |-> owner, parent |-> lineage.ext.parent,
           original |-> lineage.ext.original, image |-> lineage.ext.image])
     /\ split.ok
     /\ BankAccepts(split.msgs, contractNative + received)
     /\ contractNative' = contractNative + received - TotalPaid(split.msgs)
     /\ Done("mint", sender, split.msgs)
     /\ UNCHANGED <<fees, admin, originAdmins>>

(* update_minting_fees: admin only; every field but the denom replaced.   *)
UpdateMintingFees(sender, msg) ==
  /\ sender = admin
  /\ fees' = msg
  /\ Done("update_minting_fees", sender, <<>>)
  /\ UNCHANGED <<tokens, tokenCount, admin, originAdmins, contractNative>>

SetAdminAddressUnvalidated(sender, admin_address) ==
  /\ sender = admin
  /\ admin' = admin_address
  /\ Done("set_admin_address", sender, <<>>)
  /\ UNCHANGED <<tokens, tokenCount, fees, originAdmins, contractNative>>

(* set_admin_address: admin only; the new address must validate.          *)
SetAdminAddress(sender, admin_address) ==
  /\ sender = admin
  /\ admin_address # BadAddr
  /\ admin' = admin_address
  /\ Done("set_admin_address", sender, <<>>)
  /\ UNCHANGED <<tokens, tokenCount, fees, originAdmins, contractNative>>

(* update_origin_admin: admin only; the three strings saved unvalidated.  *)
UpdateOriginAdmin(sender, msg) ==
  /\ sender = admin
  /\ originAdmins' = msg
  /\ Done("update_origin_admin", sender, <<>>)
  /\ UNCHANGED <<tokens, tokenCount, fees, admin, contractNative>>

IsOriginAdminAnySender(sender) ==
  /\ originAdmins # None
  /\ \A i \in 1..3 : originAdmins[i] # BadAddr

(* update_origin_image's authorisation: ORIGINAL_ADMIN_INFO must load,    *)
(* all three addresses must validate, and the sender must be one of them. *)
IsOriginAdmin(sender) ==
  /\ originAdmins # None
  /\ \A i \in 1..3 : originAdmins[i] # BadAddr
  /\ \E i \in 1..3 : originAdmins[i] = sender

(* update_origin_image: only the original_image field is replaced.        *)
UpdateOriginImage(sender, token_id, original_image) ==
  /\ IsOriginAdmin(sender)
  /\ Load(token_id) # None
  /\ tokens' = [tokens EXCEPT ![token_id].image = original_image]
  /\ Done("update_origin_image", sender, <<>>)
  /\ UNCHANGED <<tokenCount, fees, admin, originAdmins, contractNative>>

BaseTransferUnchecked(sender, recipient, token_id, op) ==
  /\ Load(token_id) # None
  /\ recipient # BadAddr
  /\ tokens' = [tokens EXCEPT ![token_id].owner = recipient]
  /\ Done(op, sender, <<>>)
  /\ UNCHANGED <<tokenCount, fees, admin, originAdmins, contractNative>>

(* cw721-base transfer: check_can_send (the owner; approvals are not      *)
(* modelled), validate the recipient, set the owner.  The extension is    *)
(* kept as it is.                                                          *)
BaseTransfer(sender, recipient, token_id, op) ==
  /\ Load(token_id) # None
  /\ tokens[token_id].owner = sender
  /\ recipient # BadAddr
  /\ tokens' = [tokens EXCEPT ![token_id].owner = recipient]
  /\ Done(op, sender, <<>>)
  /\ UNCHANGED <<tokenCount, fees, admin, originAdmins, contractNative>>

TransferNft(sender, recipient, token_id) ==
  BaseTransfer(sender, recipient, token_id, "transfer_nft")

(* SendNft changes the state as a transfer does and adds a ReceiveNft     *)
(* message; if the receiving contract fails, the whole call reverts.      *)
SendNft(sender, contract, token_id) ==
  BaseTransfer(sender, contract, token_id, "send_nft")

(* cw721-base burn: check_can_send, remove, decrement_tokens.             *)
Burn(sender, token_id) ==
  /\ Load(token_id) # None
  /\ tokens[token_id].owner = sender
  /\ tokens' = [tokens EXCEPT ![token_id] = None]
  /\ tokenCount' = tokenCount - 1
  /\ Done("burn", sender, <<>>)
  /\ UNCHANGED <<fees, admin, originAdmins, contractNative>>

(* The messages entry::execute handles itself (lib.rs).                   *)
ContractNext(sender) ==
  \/ \E owner \in Users, token_id \in RawIds, ext \in Exts, funds \in Payments :
       Mint(sender, owner, token_id, ext, funds)
  \/ \E msg \in FeeSchedules : UpdateMintingFees(sender, msg)
  \/ \E a \in Users \cup {BadAddr} : SetAdminAddress(sender, a)
  \/ \E msg \in OriginAdminSets : UpdateOriginAdmin(sender, msg)
  \/ \E token_id \in RawIds, flag \in ImageFlags :
       UpdateOriginImage(sender, token_id, flag)

(* The messages it hands to cw721-base.                                    *)
BaseNext(sender) ==
  \/ \E to \in Users \cup {BadAddr}, token_id \in RawIds :
       TransferNft(sender, to, token_id)
  \/ \E to \in Users \cup {BadAddr}, token_id \in RawIds :
       SendNft(sender, to, token_id)
  \/ \E token_id \in RawIds : Burn(sender, token_id)

Next == \E sender \in Users : ContractNext(sender) \/ BaseNext(sender)

Spec == Init /\ [][Next]_vars

----------------------------------------------------------------------------
(* query.rs address_of: the owner of the token loaded by the id as given *)
(* (the extension's contract and validator addresses are not modelled).   *)
AddressOf(token_id) == Load(token_id).owner

(* query.rs get_parent_id: load the token, fail NotFound if it has no     *)
(* parent_token_id, and load the parent by the stored id, so a burned     *)
(* parent makes it fail and a re-minted one is returned as is.            *)
GetParentId(token_id) ==
  LET t == Load(token_id) IN
  IF t = None \/ t.parent = None \/ Load(t.parent) = None
  THEN [ok |-> FALSE] ELSE [ok |-> TRUE, parent_token_id |-> t.parent]

----------------------------------------------------------------------------
(* Number of tokens a tokens map assigns to address a.                     *)
OwnedBy(tks, a) == Cardinality({k \in Keys : tks[k] # None /\ tks[k].owner = a})

Stored(tks) == {k \in Keys : tks[k] # None}

(* The cw721 token_count, kept by mint's increment_tokens and burn's       *)
(* decrement_tokens, always equals the number of stored tokens: no mint   *)
(* of a taken id (in any letter case) or failed call shifts it.           *)
SupplyMatchesTokens == tokenCount = Cardinality(Stored(tokens))

(* While a base_mint_fee is configured, a mint leaves the contract's own   *)
(* native balance exactly as it was: every native unit it pays out came   *)
(* in with that mint, and every unit that came in is paid out.            *)
NativeKeptWhenFeeSet ==
  [][(last'.op = "mint" /\ fees.base_mint_fee # None)
       => contractNative' = contractNative]_vars

(* The fee schedule, the admin and the origin-admin triple change only in *)
(* a call by the admin of the state before it, and the original_image flag *)
(* of an existing token changes only in a call by a configured origin     *)
(* admin, whatever sequence of admin rotations precedes it.               *)
PrivilegedChangesAuthorized ==
  [][/\ (fees' # fees \/ admin' # admin \/ originAdmins' # originAdmins)
        => last'.caller = admin
     /\ \A k \in Stored(tokens) \cap Stored(tokens') :
          tokens'[k].image # tokens[k].image
            => originAdmins # None /\ \E i \in 1..3 : originAdmins[i] = last'.caller
    ]_vars

(* The contract implements the name registry: the holder of a name is the *)
(* owner of the token stored under it, and the acting account is the      *)
(* sender of the last committed call.                                     *)
Registry == INSTANCE NameRegistry
              WITH Names <- Keys, Holders <- Users, Free <- None, Nobody <- None,
                   holder <- [k \in Keys |-> IF tokens[k] = None THEN None
                                                 ELSE tokens[k].owner],
                   actor <- last.caller

(* Every behaviour of the contract is a behaviour of the registry: no id  *)
(* is minted while its lowercase form is held, and only the holder moves  *)
(* or frees it.                                                            *)
ImplementsRegistry == Registry!Spec

----------------------------------------------------------------------------
(* Statements of the spec that the code does not keep; each is checked in *)
(* a run that expects TLC to find it violated.                             *)

(* Spec section 3: an original_token_id, once set, names a stored token    *)
(* that is a lineage root, or is the parent when the parent had no         *)
(* original recorded.                                                      *)
OriginalNamesRoot ==
  \A k \in Stored(tokens) :
    tokens[k].original # None =>
      LET o == Load(tokens[k].original)
      IN o # None /\ (o.original = None \/ tokens[k].original = tokens[k].parent)

(* Spec section 3: original_image is settable only by one of the origin    *)
(* admins: no call by anyone else makes a token's flag TRUE, at mint or    *)
(* later.                                                                  *)
OriginImageOnlyByOriginAdmin ==
  [][\A k \in Stored(tokens') :
       (tokens'[k].image = TRUE /\ (tokens[k] = None \/ tokens[k].image # TRUE))
         => originAdmins # None /\ \E i \in 1..3 : originAdmins[i] = last'.caller
    ]_vars

(* Spec section 4.3: with no fee configured a mint makes no transfers, so *)
(* no call ever pays out native coins the contract already held.           *)
ContractNeverPaysFromOwnBalance ==
  [][contractNative' >= contractNative]_vars

(* Spec sections 4.4 and 8: after a transfer or send the token's           *)
(* extension is the default one while its owner is the recipient.          *)
TransferClearsMetadata ==
  [][last'.op \in {"transfer_nft", "send_nft"} =>
       \A k \in Stored(tokens) \cap Stored(tokens') :
         tokens'[k].owner # tokens[k].owner =>
           tokens'[k].parent = None /\ tokens'[k].original = None
           /\ tokens'[k].image = None]_vars

(* Spec sections 4.2 and 4.3: in a mint under a base fee, the owner of   *)
(* the parent token, as AddressOf reports it just before the mint (after  *)
(* any transfers), receives at least the parent share of the split amount; *)
(* and when the resolved original token is flagged original_image, its     *)
(* current owner receives at least the original share.  Payees may        *)
(* coincide, so each receives at least its share.                         *)
MintPaysLineage ==
  [][(last'.op = "mint" /\ fees.base_mint_fee # None) =>
       \A k \in Stored(tokens') \ Stored(tokens) :
         LET amount == TotalPaid(last'.msgs)
             p      == tokens'[k].parent
             o      == tokens'[k].original
         IN p \in Stored(tokens) =>
              /\ PaidTo(last'.msgs, AddressOf(p))
                   >= (amount * fees.parent_percentage) \div 100
              /\ (o \in Stored(tokens) /\ tokens[o].image = TRUE)
                   => PaidTo(last'.msgs, AddressOf(o))
                        >= (amount * fees.original_percentage) \div 100
    ]_vars

(* The graph of the parent links the GetParentId query returns.           *)
ParentGraph ==
  [node |-> Stored(tokens),
   edge |-> {<<k, GetParentId(k).parent_token_id>> :
               k \in {j \in Stored(tokens) : GetParentId(j).ok}}]

(* Spec sections 2 and 9: lineage is an ancestry whose chains end at an   *)
(* original, the root.  So walking GetParentId from any token never comes *)
(* back to a token already visited, however tokens are burned and their   *)
(* ids minted again.                                                       *)
LineageAcyclic == ~HasCycle(ParentGraph)

(* Spec sections 4.1 to 4.3: a mint request from a user below the cap, for *)
(* a free id, with no parent or any stored token as parent, paying the fee *)
(* in the native denom, passes every check of mint and its payouts; so    *)
(* some such request succeeds whatever calls came before.                 *)
WellFormedMintSucceeds ==
  \A u \in Users, k \in Keys, p \in {None} \cup Stored(tokens) :
    tokens[k] = None /\ UnderCap(u) =>
      \E f \in Coin :
        /\ f.denom = Native
        /\ ENABLED Mint(u, u, k, [parent |-> p, original |-> None,
                                  image |-> None], f)

(* Spec section 3: there are up to three origin admins, and each one that *)
(* is configured can set the original_image flag of any stored token.     *)
OriginAdminCanAct ==
  originAdmins # None =>
    \A i \in 1..3 : originAdmins[i] \in Users => IsOriginAdmin(originAdmins[i])

=============================================================================
