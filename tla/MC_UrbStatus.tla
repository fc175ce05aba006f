---------------------------- MODULE MC_UrbStatus ----------------------------
(***************************************************************************)
(* A small instance of UrbStatus for TLC: every status code of the library *)
(* and one value that is none.                                             *)
(***************************************************************************)
EXTENDS UrbStatus

AllValues == Statuses \cup {"OTHER"}
=============================================================================
