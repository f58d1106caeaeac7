------------------------- MODULE MetadataLifecycle -------------------------
(***************************************************************************)
(* The metadata lifecycle of execute.rs: update_metadata, clear_metadata, *)
(* and the transfer_nft and send_nft that clear the extension before      *)
(* handing the token over.  entry::execute in lib.rs does not call these  *)
(* functions (it hands transfers to cw721-base); this module composes     *)
(* them with the handlers lib.rs does call, as the contract would behave  *)
(* with them dispatched, the way the spec describes the operations.       *)
(***************************************************************************)
EXTENDS MemeArt

CONSTANT EditExts   \* extension payloads an owner may send to update_metadata

(* clear_metadata: the token must load; its extension becomes              *)
(* Metadata::default(), so every lineage field is None.  The owner stays.  *)
ClearMetadata(tks, token_id) ==
  [tks EXCEPT ![token_id].parent = None, ![token_id].original = None,
              ![token_id].image = None]

(* update_metadata: owner only; the extension is replaced by the payload  *)
(* and then parent_token_id is set back to the stored one.                 *)
UpdateMetadata(sender, token_id, metadata) ==
  /\ Load(token_id) # None
  /\ tokens[token_id].owner = sender
  /\ tokens' = [tokens EXCEPT ![token_id] =
                  [owner |-> @.owner, parent |-> @.parent,
                   original |-> metadata.original, image |-> metadata.image]]
  /\ Done("update_metadata", sender, <<>>)
  /\ UNCHANGED <<tokenCount, fees, admin, originAdmins, contractNative>>

(* A fault of transfer_nft / send_nft: check_can_send left out.           *)
ClearingTransferUnchecked(sender, recipient, token_id, op) ==
  /\ Load(token_id) # None
  /\ recipient # BadAddr
  /\ tokens' = [ClearMetadata(tokens, token_id) EXCEPT ![token_id].owner = recipient]
  /\ Done(op, sender, <<>>)
  /\ UNCHANGED <<tokenCount, fees, admin, originAdmins, contractNative>>

(* transfer_nft / send_nft of execute.rs: load, check_can_send (the owner; *)
(* approvals are not modelled), clear_metadata, then cw721-base's         *)
(* _transfer_nft, which validates the recipient and sets the owner.  For  *)
(* send_nft a failing receiving contract reverts the whole call.          *)
ClearingTransfer(sender, recipient, token_id, op) ==
  /\ Load(token_id) # None
  /\ tokens[token_id].owner = sender
  /\ recipient # BadAddr
  /\ tokens' = [ClearMetadata(tokens, token_id) EXCEPT ![token_id].owner = recipient]
  /\ Done(op, sender, <<>>)
  /\ UNCHANGED <<tokenCount, fees, admin, originAdmins, contractNative>>

LifecycleNext ==
  \E sender \in Users :
    \/ ContractNext(sender)
    \/ \E token_id \in RawIds, metadata \in EditExts :
         UpdateMetadata(sender, token_id, metadata)
    \/ \E to \in Users \cup {BadAddr}, token_id \in RawIds :
         ClearingTransfer(sender, to, token_id, "transfer_nft")
    \/ \E to \in Users \cup {BadAddr}, token_id \in RawIds :
         ClearingTransfer(sender, to, token_id, "send_nft")
    \/ \E token_id \in RawIds : Burn(sender, token_id)

LifecycleSpec == Init /\ [][LifecycleNext]_vars

=============================================================================
