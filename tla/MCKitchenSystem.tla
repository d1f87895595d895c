-------------------------- MODULE MCKitchenSystem --------------------------
(***************************************************************************)
(* A small instance of KitchenSystem for TLC.                              *)
(***************************************************************************)
EXTENDS KitchenSystem
CONSTANTS o1, w1
=============================================================================
