-------------------------------- MODULE Totals --------------------------------
(***************************************************************************)
(* The sum of the values of a function into Nat.  A balance of n is seen   *)
(* as n distinct units and a total as the number of units: TLC counts      *)
(* them, and the laws of a total follow from the laws of Cardinality, with *)
(* no induction over the domain.                                           *)
(***************************************************************************)
EXTENDS Integers, FiniteSets

Units(balance) ==
  UNION {{holder} \X (1 .. balance[holder]) : holder \in DOMAIN balance}

Total(balance) == Cardinality(Units(balance))
===============================================================================
