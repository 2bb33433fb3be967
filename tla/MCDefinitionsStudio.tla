-------------------------- MODULE MCDefinitionsStudio --------------------------
(* Two states of the rules files, two scopes, one usable catalog and one that is  *)
(* not, two targets, two reloads in flight, two dry runs, two writes.              *)
EXTENDS DefinitionsStudio, TLC

\* States of the rules files are alike, and so are targets and the names of reloads.
Alike == Permutations(Rules) \cup Permutations(Targets) \cup Permutations(ReloadIds)
=============================================================================
