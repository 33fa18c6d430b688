------------------------------ MODULE MCSynthPool -----------------------------
(***************************************************************************)
(* Small instances of SynthPool for TLC.                                   *)
(***************************************************************************)
EXTENDS SynthPool

CONSTANTS a1, a2, p1, none

Reserves(base, quote) == [i \in 0 .. 1 |-> IF i = 0 THEN base ELSE quote]

MCPairs == {p1}
OneAccount == {a1}
TwoAccounts == {a1, a2}
AtPar == {Reserves(2, 2)}
AroundPar == {Reserves(1, 2), Reserves(2, 1)}
AbovePar == {Reserves(1, 2)}
Tiers == <<0, 6, 12>>
Rates == <<4, 2, 1>>
===============================================================================
