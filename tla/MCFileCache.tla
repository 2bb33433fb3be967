----------------------------- MODULE MCFileCache -----------------------------
(***************************************************************************)
(* Two analyses over three files and a cache of two, so that a third       *)
(* insertion evicts, and one edit, so that a text can be replaced while a  *)
(* call holds it.                                                          *)
(***************************************************************************)
EXTENDS FileCache, TLC

Symmetry == Permutations(Analyses) \cup Permutations(Files) \cup Permutations(Contents)
==============================================================================
