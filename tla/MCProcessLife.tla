--------------------------- MODULE MCProcessLife ---------------------------
(***************************************************************************)
(* A small instance of ProcessLife for TLC.                                *)
(***************************************************************************)
EXTENDS ProcessLife
CONSTANTS q1, h1
=============================================================================
