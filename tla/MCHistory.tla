------------------------------- MODULE MCHistory ------------------------------
(***************************************************************************)
(* SynthPool with a memory of what its state forgets: when the ratio was   *)
(* last changed, and how much synth was credited in the running epoch.     *)
(***************************************************************************)
EXTENDS MCSynthPool

VARIABLES
  lastChange,      \* time of the last change of the ratio, None before it
  mintedInEpoch    \* synth credited by mints since the epoch opened

historyVars == <<vars, lastChange, mintedInEpoch>>

HistoryInit ==
  /\ Init
  /\ lastChange = None
  /\ mintedInEpoch = 0

Credited ==
  IF pool'.total_unclaimed_synth > pool.total_unclaimed_synth
  THEN pool'.total_unclaimed_synth - pool.total_unclaimed_synth
  ELSE 0

HistoryNext ==
  /\ Next
  /\ lastChange' =
       IF pool'.collateral_ratio = pool.collateral_ratio THEN lastChange ELSE now
  /\ mintedInEpoch' =
       IF epoch' = epoch THEN mintedInEpoch + Credited ELSE 0

HistorySpec == HistoryInit /\ [][HistoryNext]_historyVars

\* Two changes of the ratio are a cooldown apart: "Collateral ratio is cooling
\* down" (error.rs:51).
RefreshCoolsDown ==
  [][ lastChange' # lastChange /\ lastChange # None
        => now >= lastChange + Cooldown ]_historyVars

\* With no synth burnt, the mints of an epoch stay within its expansion, "the
\* mintable amount of the next epoch" (epoch.rs:27).
EpochMintsWithinAllowance ==
  epoch.max_supply # None =>
    mintedInEpoch <= epoch.max_supply - epoch.base_supply
===============================================================================
