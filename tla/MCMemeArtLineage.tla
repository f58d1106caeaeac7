-------------------------- MODULE MCMemeArtLineage --------------------------
(***************************************************************************)
(* MemeArt with three lowercase ids a, b, c: enough for a root, a child    *)
(* and a grandchild, and for burning an id in the middle of a chain and   *)
(* minting it again.  Payloads are honest (only a lineage request), mints *)
(* have one schedule and one coin, so the runs are about lineage alone.   *)
(***************************************************************************)
EXTENDS MemeArt

CONSTANTS u1, u2, a, b, c

LinUsers  == {u1, u2}
LinRawIds == {a, b, c}
LinLower  == [r \in LinRawIds |-> r]
LinExts   == [parent: {None, a, b, c}, original: {None}, image: {None}]

(* No fee, no cap, 10% original, 40% parent, a DAO address.                *)
LinFeeSchedules ==
  {[token_cap |-> None, base_mint_fee |-> None, original_percentage |-> 10,
    parent_percentage |-> 40, dao_address |-> u2, funds_address |-> None]}

(* The spec's example split (fee 10, 10% original, 20% parent) with a DAO *)
(* address and no funds address, so the remainder goes to the admin.       *)
LinFeeSchedulesPaid ==
  {[token_cap |-> None, base_mint_fee |-> 10, original_percentage |-> 10,
    parent_percentage |-> 20, dao_address |-> u2, funds_address |-> None]}

LinOriginAdminSets == {<<u1, u1, u1>>}

=============================================================================
