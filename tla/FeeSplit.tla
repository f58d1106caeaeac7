------------------------------ MODULE FeeSplit ------------------------------
(***************************************************************************)
(* The fee splitter of memeart: get_mint_response in utils.rs.             *)
(*                                                                         *)
(* Given the amount to split, the lineage payees resolved by mint and the  *)
(* configured percentages and addresses, it builds the list of             *)
(* BankMsg::Send messages of the mint response.  All sends are in the     *)
(* native denomination, so a message is a record [to, amount].             *)
(*                                                                         *)
(* The Rust code panics (and the whole transaction aborts) when a         *)
(* percentage is None (unwrap) or when the two shares exceed the fee      *)
(* (Uint128 subtraction overflow); the result records this as ok = FALSE.  *)
(***************************************************************************)
EXTENDS Naturals, Sequences
LOCAL INSTANCE SequencesExt

CONSTANT None   \* Rust's Option::None, for addresses, amounts and percentages

(* Plausible faults of the splitter, each one a changed copy of the      *)
(* definition that follows it: a product rounded up instead of floored,    *)
(* and the DAO share dropped instead of folded into the funds share.      *)
PercentOfCeil(fee, p) == (fee * p + 99) \div 100

(* fee * Decimal::percent(p): Uint128 * Decimal floors the product.        *)
PercentOf(fee, p) == (fee * p) \div 100

(* The shares neither the original owner nor the parent owner receives.    *)
FeeToDao(original_paid, parent_paid, fee_to_original, fee_to_parent) ==
  (IF original_paid THEN 0 ELSE fee_to_original)
  + (IF parent_paid THEN 0 ELSE fee_to_parent)

FeeToFundsDropDao(fee, fee_to_original, fee_to_parent, fee_to_dao, dao_address) ==
  fee - fee_to_original - fee_to_parent

(* fee - fee_to_original - fee_to_parent, plus the DAO accumulator when    *)
(* there is no DAO address to send it to.                                  *)
FeeToFunds(fee, fee_to_original, fee_to_parent, fee_to_dao, dao_address) ==
  fee - fee_to_original - fee_to_parent
  + (IF fee_to_dao > 0 /\ dao_address = None THEN fee_to_dao ELSE 0)

Send(to, amount) == [to |-> to, amount |-> amount]

(* get_mint_response(admin_address, _, parent_address, original_address,   *)
(* _, fee, parent_percentage, original_percentage, _, original_image,       *)
(* dao_address, funds_address).                                             *)
GetMintResponse(admin_address, parent_address, original_address, fee, parent_percentage, original_percentage, original_image, dao_address, funds_address) ==
  IF fee = None THEN [ok |-> TRUE, msgs |-> <<>>]
  ELSE IF original_percentage = None \/ parent_percentage = None
  THEN [ok |-> FALSE, msgs |-> <<>>]
  ELSE
  LET fee_to_original == PercentOf(fee, original_percentage)
      fee_to_parent   == PercentOf(fee, parent_percentage)
      original_paid   == original_image /\ original_address # None
      parent_paid     == parent_address # None
      fee_to_dao      == FeeToDao(original_paid, parent_paid,
                                  fee_to_original, fee_to_parent)
      dao_paid        == fee_to_dao > 0 /\ dao_address # None
  IN [ok   |-> fee_to_original + fee_to_parent <= fee,
      msgs |-> (IF original_paid
                THEN <<Send(original_address, fee_to_original)>> ELSE <<>>)
               \o (IF parent_paid
                   THEN <<Send(parent_address, fee_to_parent)>> ELSE <<>>)
               \o (IF dao_paid THEN <<Send(dao_address, fee_to_dao)>> ELSE <<>>)
               \o <<Send(IF funds_address # None THEN funds_address
                                               ELSE admin_address,
                         FeeToFunds(fee, fee_to_original, fee_to_parent,
                                    fee_to_dao, dao_address))>>]

(* Total amount of a message list, and the part of it addressed to a.     *)
TotalPaid(msgs) == FoldLeft(LAMBDA acc, m : acc + m.amount, 0, msgs)

PaidTo(msgs, a) ==
  FoldLeft(LAMBDA acc, m : acc + (IF m.to = a THEN m.amount ELSE 0), 0, msgs)

=============================================================================
