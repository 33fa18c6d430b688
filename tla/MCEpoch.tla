-------------------------------- MODULE MCEpoch -------------------------------
(***************************************************************************)
(* The epochs on their own: the supply of the synth token is external and  *)
(* moves by collects, burns and mints of any order and size.  `premium`    *)
(* records whether the synth held a price above the ceiling during the     *)
(* epoch that ended last, `held` the prices of the running one.            *)
(***************************************************************************)
EXTENDS Epoch

CONSTANTS p1, none, SupplyChoices, Durations, Ceils, MaxRates

VARIABLES held, premium

ASSUME MCEpochAssumption ==
  /\ SupplyChoices \subseteq Nat
  /\ Durations \subseteq Nat
  /\ Ceils \subseteq Nat \cup {None}
  /\ MaxRates \subseteq Nat \cup {None}

epochVars == <<chainVars, epoch, supply, held, premium>>

Reserves(base, quote) == [i \in 0 .. 1 |-> IF i = 0 THEN base ELSE quote]
MCPairs == {p1}
MCReserves == {Reserves(1, 1), Reserves(1, 3)}
Tiers == <<0, 6, 12>>
Rates == <<4, 2, 1>>

EpochInit ==
  /\ ChainInit
  /\ epoch = DefaultEpoch
  /\ supply \in SupplyChoices
  /\ held = {}
  /\ premium = FALSE

PriceHeld(dt) ==
  IF dt = 0 \/ epoch.pair_addr = None
  THEN {}
  ELSE {PairPrice(pairs[epoch.pair_addr].reserves, epoch.base_index)}

EpochBlock ==
  \E dt \in TimeSteps :
    /\ NextBlock(dt)
    /\ held' = held \cup PriceHeld(dt)
    /\ UNCHANGED <<epoch, supply, premium>>

EpochTrade ==
  /\ \E a \in Pairs, reserves \in ReserveChoices : Trade(a, reserves)
  /\ UNCHANGED <<epoch, supply, held, premium>>

SupplyMoves ==
  /\ supply' \in SupplyChoices
  /\ UNCHANGED <<chainVars, epoch, held, premium>>

UpdateEpoch ==
  /\ NextEpoch
  /\ held' = {}
  /\ premium' = /\ epoch.ceil_price # None
                /\ \E price \in held : price > epoch.ceil_price
  /\ UNCHANGED <<chainVars, supply>>

ConfigSynthOracle ==
  /\ \E pair_addr \in Pairs, base_index \in 0 .. 2 :
       ConfigOracle(pair_addr, base_index)
  /\ held' = {}
  /\ UNCHANGED <<chainVars, supply, premium>>

SetEpochConfig ==
  /\ \E duration \in Durations, ceil \in Ceils, rate \in MaxRates :
       ConfigEpoch(duration, ceil, rate)
  /\ UNCHANGED <<chainVars, supply, held, premium>>

EpochNext ==
  \/ EpochBlock \/ EpochTrade \/ SupplyMoves
  \/ UpdateEpoch \/ ConfigSynthOracle \/ SetEpochConfig

EpochSpec == EpochInit /\ [][EpochNext]_epochVars

\* The maximum exceeds the supply at the start of the epoch only after an
\* epoch in which the synth held a price above the ceiling: no expansion out
\* of a price of an earlier epoch or of another pair (epoch.rs:27, next
\* epoch.rs:90).
ExpansionNeedsPremium ==
  epoch.max_supply # None /\ epoch.max_supply > epoch.base_supply => premium

\* While an epoch runs its allowance never shrinks, starts at the supply of
\* its first block or above, and stops at the maximum (epoch.rs:111).
RampOnlyRises ==
  [][ epoch' = epoch /\ epoch.max_supply # None /\ AllowedSupplyFits
        => /\ epoch.base_supply <= AllowedSupply
           /\ AllowedSupply <= AllowedSupply'
           /\ AllowedSupply' <= epoch.max_supply ]_epochVars

\* Collects and burns of other users never make the contract unable to open
\* the next epoch once the running one has lasted at least a second: no
\* subtraction of next() goes below zero, also over a change of pair.
ElapsedEpochCanEnd ==
  /\ epoch.pair_addr # None
  /\ epoch.epoch_duration > 0
  /\ epoch.start_timestamp + epoch.epoch_duration <= now
  => NextEpochFits(pairs[epoch.pair_addr].cumulative[epoch.base_index])
===============================================================================
