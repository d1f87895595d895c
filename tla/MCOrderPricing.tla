--------------------------- MODULE MCOrderPricing ---------------------------
(***************************************************************************)
(* Small instances of OrderPricing for TLC: five-bit integers, a four-bit  *)
(* quantity column.                                                        *)
(***************************************************************************)
EXTENDS OrderPricing

CONSTANTS i1, i2

\* Refused, ordinary, the largest the column holds, the largest there is.
Quantities == {-1, 0, 1, 3, 7, 15}
Prices == {0, 2, 5}
=============================================================================
