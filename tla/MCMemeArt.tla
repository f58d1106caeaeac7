----------------------------- MODULE MCMemeArt -----------------------------
(***************************************************************************)
(* Model values and small input sets for checking MemeArt with TLC.        *)
(* Ids a, b, c are lowercase storage keys; A is "A", an upper-case        *)
(* spelling of a.  Three keys allow a root, a child and a grandchild.      *)
(***************************************************************************)
EXTENDS MemeArt

CONSTANTS u1, u2, a, A, b

MCUsers  == {u1, u2}
MCRawIds == {a, A, b}
MCLower  == [r \in MCRawIds |-> IF r = A THEN a ELSE r]

(* Payloads with a lineage request only: original_token_id and           *)
(* original_image left unset, as a well-behaved client sends them.        *)
MCExtsHonest == [parent: {None, Empty, a, A, b}, original: {None},
                 image: {None}]

(* Payloads that also preset original_token_id or original_image.          *)
MCExtsForged == [parent: {None, a}, original: {None, b}, image: {None, TRUE}]

Schedule(cap, fee, op, pp, dao, funds) ==
  [token_cap |-> cap, base_mint_fee |-> fee, original_percentage |-> op,
   parent_percentage |-> pp, dao_address |-> dao, funds_address |-> funds]

(* The spec's example schedule (10% original, 20% parent) with a cap of 1, *)
(* and a free-mint schedule with no cap and a DAO address.                 *)
MCFeeSchedules ==
  {Schedule(1, 10, 10, 20, None, u1), Schedule(None, None, 10, 40, u2, None)}

(* A schedule the spec allows (percentages within 0..100, summing to at   *)
(* most 100) whose parent share is 0%.                                     *)
MCFeeSchedulesZeroShare == {Schedule(None, 10, 10, 0, None, u1)}

MCOriginAdminSets == {<<u1, u1, u1>>, <<u2, BadAddr, BadAddr>>}

=============================================================================
