---------------------------- MODULE MC_UrbCopies ----------------------------
(***************************************************************************)
(* Small instances of UrbCopies for TLC.                                   *)
(***************************************************************************)
EXTENDS UrbCopies, TLC

WorkSymmetry == Permutations(Works)
=============================================================================
