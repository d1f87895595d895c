-------------------------- MODULE MCStatusConsumer --------------------------
(***************************************************************************)
(* A small instance of StatusConsumer for TLC.                             *)
(***************************************************************************)
EXTENDS StatusConsumer

CONSTANTS o1, w1
=============================================================================
