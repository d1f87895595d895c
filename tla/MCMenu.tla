------------------------------- MODULE MCMenu -------------------------------
(***************************************************************************)
(* A small instance of Menu for TLC.                                       *)
(***************************************************************************)
EXTENDS Menu

CONSTANTS i1, i2, p1, p2, a, b, x
=============================================================================
