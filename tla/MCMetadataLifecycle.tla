------------------------ MODULE MCMetadataLifecycle ------------------------
(***************************************************************************)
(* MetadataLifecycle with the constants of MCMemeArt, and the payloads an  *)
(* owner may send to update_metadata: each lineage field unset or set.     *)
(***************************************************************************)
EXTENDS MCMemeArt, MetadataLifecycle

MCEditExts == [parent: {None, b}, original: {None, b}, image: {None, TRUE}]

=============================================================================
