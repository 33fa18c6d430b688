--------------------------------- MODULE Epoch --------------------------------
(***************************************************************************)
(* contracts/fantastic-pool/src/epoch.rs: how much synth may be minted.    *)
(* When an epoch ends, the TWAP of the synth over it and the supply at its *)
(* end fix the largest supply of the next one; the allowance ramps up to   *)
(* it over the first half of the epoch.  `supply` is what the code queries *)
(* from the synth token (TokenInfo.total_supply).                          *)
(***************************************************************************)
EXTENDS Chain, Sequences

CONSTANTS
  None,             \* Option::None, and the empty address of a new epoch
  SupplyTiers,      \* SUPPLY_TIERS, 1-based here: the first tier is 0
  ExpansionRates    \* EXPANSION_RATES, as many as tiers

VARIABLES epoch, supply

ASSUME EpochAssumption ==
  /\ None \notin Nat \cup Pairs
  /\ SupplyTiers \in Seq(Nat)
  /\ ExpansionRates \in Seq(Nat)
  /\ Len(SupplyTiers) = Len(ExpansionRates)
  /\ Len(SupplyTiers) > 0
  /\ SupplyTiers[1] = 0
  /\ \A i, j \in 1 .. Len(SupplyTiers) : i < j => SupplyTiers[i] < SupplyTiers[j]

EpochStates ==
  [ pair_addr : Pairs \cup {None}, base_index : 0 .. 1,
    price_cumulative_last : Nat, start_timestamp : Nat,
    epoch_duration : Nat, base_supply : Nat, max_supply : Nat \cup {None},
    ceil_price : Nat \cup {None}, max_expansion_rate : Nat \cup {None} ]

DefaultEpoch ==
  [ pair_addr |-> None, base_index |-> 0, price_cumulative_last |-> 0,
    start_timestamp |-> 0, epoch_duration |-> 0, base_supply |-> 0,
    max_supply |-> None, ceil_price |-> None, max_expansion_rate |-> None ]

(***************************************************************************)
(* get_expansion_rate, with 0 for the None that next() replaces by 0.      *)
(* There is no rate below a ceiling price, and none for a supply beyond    *)
(* the last tier: the last of the rates is never used.                     *)
(***************************************************************************)
\* The tier a supply falls in, if any: the first larger tier is the next one.
TierOf(s) ==
  {i \in 1 .. Len(SupplyTiers) - 1 : SupplyTiers[i] <= s /\ s < SupplyTiers[i + 1]}

ExpansionRate(s, twap) ==
  IF \/ epoch.ceil_price = None
     \/ twap <= epoch.ceil_price
     \/ TierOf(s) = {}
  THEN 0
  ELSE LET rate == ExpansionRates[CHOOSE i \in TierOf(s) : TRUE]
       IN IF epoch.max_expansion_rate # None /\ epoch.max_expansion_rate > rate
          THEN epoch.max_expansion_rate
          ELSE rate

(***************************************************************************)
(* next_epoch.                                                             *)
(***************************************************************************)
NextEpochFits(cumulative) ==
  epoch.start_timestamp # 0 =>
    /\ now > epoch.start_timestamp
    /\ cumulative >= epoch.price_cumulative_last

\* Mutant: the ended epoch's cumulative price stays the reference.
AfterEpochKeepsCumulative(cumulative) ==
  LET twap == (cumulative - epoch.price_cumulative_last)
                \div (now - epoch.start_timestamp)
  IN [epoch EXCEPT
        !.start_timestamp = now,
        !.base_supply = supply,
        !.max_supply = (supply * (ExpansionRate(supply, twap) + Precision))
                         \div Precision]

AfterEpoch(cumulative) ==
  LET opened == [epoch EXCEPT !.start_timestamp = now,
                              !.price_cumulative_last = cumulative]
      twap == (cumulative - epoch.price_cumulative_last)
                \div (now - epoch.start_timestamp)
  IN IF epoch.start_timestamp = 0
     THEN opened
     ELSE [opened EXCEPT
             !.base_supply = supply,
             !.max_supply = (supply * (ExpansionRate(supply, twap) + Precision))
                              \div Precision]

NextEpoch ==
  /\ epoch.start_timestamp + epoch.epoch_duration <= now
  /\ epoch.pair_addr # None
  /\ LET cumulative == pairs[epoch.pair_addr].cumulative[epoch.base_index]
     IN /\ NextEpochFits(cumulative)
        /\ epoch' = AfterEpoch(cumulative)

(***************************************************************************)
(* get_allowed_supply and assert_mint_amount.  With epoch_duration < 2 the *)
(* ramp divides by zero in the block that opened the epoch.                *)
(***************************************************************************)
Elapsed == now - epoch.start_timestamp
FullyExpanded == epoch.epoch_duration \div 2

AllowedSupplyFits ==
  epoch.max_supply = None \/ Elapsed > FullyExpanded \/ FullyExpanded # 0

\* Mutant: the ramp, as steep as before, goes on to the end of the epoch.
AllowedSupplyFullRamp ==
  IF Elapsed > epoch.epoch_duration \/ FullyExpanded = 0
  THEN epoch.max_supply
  ELSE epoch.base_supply
         + ((epoch.max_supply - epoch.base_supply) * Elapsed)
             \div FullyExpanded

AllowedSupply ==
  IF Elapsed > FullyExpanded
  THEN epoch.max_supply
  ELSE epoch.base_supply
         + ((epoch.max_supply - epoch.base_supply) * Elapsed)
             \div FullyExpanded

\* Mutant: the supply is compared before the minted amount is added to it.
MintAllowedBefore(mint_amount) ==
  /\ AllowedSupplyFits
  /\ epoch.max_supply # None => supply <= AllowedSupply

MintAllowed(mint_amount) ==
  /\ AllowedSupplyFits
  /\ epoch.max_supply # None => supply + mint_amount <= AllowedSupply

(***************************************************************************)
(* config_oracle and config_epoch, by the owner.                           *)
(***************************************************************************)
\* Mutant: the index of the synth in the pair stays that of the old pair.
ConfigOracleKeepsIndex(pair_addr, base_index) ==
  /\ base_index <= 1
  /\ epoch' = [epoch EXCEPT
       !.pair_addr = pair_addr,
       !.start_timestamp = now,
       !.price_cumulative_last = pairs[pair_addr].cumulative[base_index]]

\* Mutant: the new pair is measured from the cumulative price of the old one.
ConfigOracleKeepsCumulative(pair_addr, base_index) ==
  /\ base_index <= 1
  /\ epoch' = [epoch EXCEPT
       !.pair_addr = pair_addr,
       !.base_index = base_index,
       !.start_timestamp = now]

ConfigOracle(pair_addr, base_index) ==
  /\ base_index <= 1
  /\ epoch' = [epoch EXCEPT
       !.pair_addr = pair_addr,
       !.base_index = base_index,
       !.start_timestamp = now,
       !.price_cumulative_last = pairs[pair_addr].cumulative[base_index]]

ConfigEpoch(epoch_duration, ceil_price, max_expansion_rate) ==
  /\ ceil_price # None => ceil_price >= Precision
  /\ epoch' = [epoch EXCEPT !.ceil_price = ceil_price,
                            !.max_expansion_rate = max_expansion_rate,
                            !.epoch_duration = epoch_duration]
===============================================================================
