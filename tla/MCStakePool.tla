------------------------------ MODULE MCStakePool -----------------------------
(***************************************************************************)
(* Small instances of StakePool for TLC.                                   *)
(***************************************************************************)
EXTENDS StakePool

CONSTANTS a1, a2, boost

OneAccount == {a1}
TwoAccounts == {a1, a2}
MCBoostTokens == {boost}
===============================================================================
