---------------------------------- MODULE Unit --------------------------------
(***************************************************************************)
(* The fixed-point unit of contracts/fantastic-pool/src/helpers.rs: ratios, *)
(* fees and prices are integers over Precision.                            *)
(***************************************************************************)
EXTENDS Integers

CONSTANT Precision   \* Unit::precision(), 1_000_000 in the code

ASSUME UnitAssumption == Precision \in Nat \ {0}
===============================================================================
