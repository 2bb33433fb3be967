--------------------------- MODULE DefinitionScopes ---------------------------
(***************************************************************************)
(* The scopes that the editor and the rest of the Definitions Studio share *)
(* (DefinitionScope): the user's definitions, which come first, and the    *)
(* system's.                                                               *)
(***************************************************************************)
CONSTANTS Scopes,      \* "user" and "system"
          FirstScope,  \* SCOPE_USER
          Nothing      \* a state not set yet

ASSUME ScopesAssumption == FirstScope \in Scopes
===============================================================================
