------------------------------ MODULE MCJsonStore ------------------------------
(***************************************************************************)
(* JsonStore for TLC.  Ids, contents of records and workers are alike in   *)
(* it, and its properties are invariants.                                  *)
(***************************************************************************)
EXTENDS JsonStore, TLC

Symmetry == Permutations(Keys) \cup Permutations(Versions) \cup Permutations(Workers)
===============================================================================
