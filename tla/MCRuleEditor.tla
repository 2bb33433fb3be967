----------------------------- MODULE MCRuleEditor -----------------------------
(***************************************************************************)
(* Two scopes, an empty document and another one, and two calls in flight. *)
(***************************************************************************)
EXTENDS RuleEditor
==============================================================================
