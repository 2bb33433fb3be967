-------------------------- MODULE MCDefinitionStore --------------------------
(***************************************************************************)
(* Two saves, two acceptable documents and one the validation refuses:     *)
(* two saves overlap at every pair of steps, and one may follow another    *)
(* that died or succeeded.  DefinitionStoreProofs has every number.        *)
(***************************************************************************)
EXTENDS DefinitionStore
==============================================================================
