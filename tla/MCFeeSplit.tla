----------------------------- MODULE MCFeeSplit -----------------------------
(***************************************************************************)
(* Checks get_mint_response (FeeSplit) over every combination of a small  *)
(* set of inputs against the split that spec section 4.3 describes: the   *)
(* original share to the original owner when the image is flagged, the    *)
(* parent share to the parent owner, unpaid shares to the DAO or, with no *)
(* DAO address, back into the funds share, and the funds share to the     *)
(* funds address or else the admin.  Payees may coincide.                 *)
(***************************************************************************)
EXTENDS FeeSplit, Naturals, FiniteSetsExt

CONSTANTS Admin, ParentOwner, OriginalOwner, Dao, Funds,
          Fees,   \* amounts to split
          Pcts    \* percentages, including ones above 100

VARIABLE in

Inputs == [admin: {Admin}, parent: {None, ParentOwner},
           original: {None, OriginalOwner, ParentOwner},
           fee: Fees \cup {None}, pp: Pcts \cup {None}, op: Pcts \cup {None},
           image: BOOLEAN, dao: {None, Dao, Funds}, funds: {None, Funds, Admin}]

Payees == {Admin, ParentOwner, OriginalOwner, Dao, Funds}

Init == in \in Inputs
Next == UNCHANGED in
Spec == Init /\ [][Next]_in

Result == GetMintResponse(in.admin, in.parent, in.original, in.fee, in.pp,
                          in.op, in.image, in.dao, in.funds)

(* The split of section 4.3, stated per role rather than per message.      *)
FundsPayee == IF in.funds # None THEN in.funds ELSE in.admin
DaoPayee   == IF in.dao # None THEN in.dao ELSE FundsPayee
Share(r) == CASE r = "original" -> (in.fee * in.op) \div 100
              [] r = "parent"   -> (in.fee * in.pp) \div 100
              [] r = "funds"    -> in.fee - (in.fee * in.op) \div 100
                                          - (in.fee * in.pp) \div 100
Payee(r) == CASE r = "original" -> IF in.image /\ in.original # None
                                   THEN in.original ELSE DaoPayee
              [] r = "parent"   -> IF in.parent # None
                                   THEN in.parent ELSE DaoPayee
              [] r = "funds"    -> FundsPayee
Entitled(a) ==
  IF in.fee = None THEN 0
  ELSE MapThenSumSet(LAMBDA r : IF Payee(r) = a THEN Share(r) ELSE 0,
                     {"original", "parent", "funds"})

(* Whenever get_mint_response does not panic, every payee receives, over  *)
(* all the BankMsg::Send messages addressed to it, exactly the amount the *)
(* role-by-role split entitles it to: no unit is lost or created, however *)
(* the payees coincide and whichever shares are redirected.               *)
SplitMatchesReference ==
  Result.ok => \A a \in Payees : PaidTo(Result.msgs, a) = Entitled(a)

(* With both percentages set, each at most 100 and summing to at most     *)
(* 100, get_mint_response never panics on the Uint128 subtraction: the   *)
(* floored shares never exceed the fee.                                   *)
SplitDefinedForValidConfig ==
  (/\ in.fee # None /\ in.op # None /\ in.pp # None
   /\ in.op + in.pp <= 100) => Result.ok

=============================================================================
