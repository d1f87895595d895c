----------------------------- MODULE MCKitchen -----------------------------
(***************************************************************************)
(* Small instances of Kitchen for TLC.                                     *)
(***************************************************************************)
EXTENDS Kitchen

CONSTANT o1
=============================================================================
