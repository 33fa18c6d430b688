------------------------------- MODULE EpochProofs ----------------------------
(***************************************************************************)
(* What the epochs promise, for any pairs, tiers, rates and supplies: no   *)
(* expansion without a premium, an epoch that is over can be followed by   *)
(* the next, and the allowance of a running one only rises.                *)
(***************************************************************************)
EXTENDS MCEpoch, ChainProofs

(***************************************************************************)
(* The inductive invariant: once a pair is configured the running epoch    *)
(* started after the clock's zero, and the pair's cumulative price has     *)
(* grown since by the sum of the prices held.                              *)
(***************************************************************************)
EpochOpen ==
  epoch.pair_addr # None =>
    /\ epoch.start_timestamp # 0
    /\ Averages(held,
                pairs[epoch.pair_addr].cumulative[epoch.base_index]
                  - epoch.price_cumulative_last,
                now - epoch.start_timestamp)

EpochInv ==
  /\ ChainTypeOK
  /\ epoch \in EpochStates
  /\ supply \in Nat
  /\ epoch.start_timestamp <= now
  /\ epoch.max_supply # None => epoch.base_supply <= epoch.max_supply
  /\ EpochOpen
  /\ ExpansionNeedsPremium

LEMMA InitEpochInv == EpochInit => EpochInv
<1> SUFFICES ASSUME EpochInit PROVE EpochInv
  OBVIOUS
<1>1. ChainTypeOK
  <2>1. PICK reserves \in [Pairs -> ReserveChoices] :
          pairs = [a \in Pairs |-> [reserves   |-> reserves[a],
                                    cumulative |-> [i \in 0 .. 1 |-> 0]]]
    BY DEF EpochInit, ChainInit
  <2>2. \A a \in Pairs : reserves[a] \in [0 .. 1 -> Nat]
    BY ChainAssumption
  <2>3. pairs \in [Pairs -> PairStates]
    BY <2>1, <2>2 DEF PairStates
  <2> QED
    BY <2>3, ChainAssumption DEF EpochInit, ChainInit, ChainTypeOK
<1>2. epoch = DefaultEpoch /\ supply \in Nat
  BY MCEpochAssumption DEF EpochInit
<1>3. epoch \in EpochStates
  BY <1>2, EpochAssumption DEF DefaultEpoch, EpochStates
<1>4. epoch.start_timestamp = 0 /\ epoch.pair_addr = None /\ epoch.max_supply = None
  BY <1>2 DEF DefaultEpoch
<1> QED
  BY <1>1, <1>2, <1>3, <1>4 DEF EpochInv, EpochOpen, ExpansionNeedsPremium, ChainTypeOK

\* A block lengthens the epoch by the price held in it.
LEMMA EpochBlockKeepsInv ==
  ASSUME EpochInv, EpochBlock
  PROVE  EpochInv' /\ now <= now'
<1>1. PICK dt \in TimeSteps : NextBlock(dt) /\ held' = held \cup PriceHeld(dt)
                              /\ UNCHANGED <<epoch, supply, premium>>
  BY DEF EpochBlock
<1>2. ChainTypeOK'
  BY <1>1, BlockType DEF EpochInv
<1>3. now \in Nat /\ now' \in Nat /\ now <= now'
  BY <1>1, ChainAssumption DEF EpochInv, ChainTypeOK, NextBlock
<1>4. epoch.start_timestamp <= now'
  BY <1>3 DEF EpochInv, EpochStates
<1>5. EpochOpen'
  <2>1. SUFFICES ASSUME epoch.pair_addr # None
                 PROVE  Averages(held', pairs'[epoch.pair_addr].cumulative[epoch.base_index]
                                          - epoch.price_cumulative_last,
                                 now' - epoch.start_timestamp)
    BY <1>1 DEF EpochInv, EpochOpen
  <2>2. /\ epoch.pair_addr \in Pairs /\ epoch.base_index \in 0 .. 1
        /\ epoch.price_cumulative_last \in Nat /\ epoch.start_timestamp \in Nat
        /\ epoch.start_timestamp <= now /\ ChainTypeOK
    BY <2>1 DEF EpochInv, EpochStates
  <2>3. Averages(held, pairs[epoch.pair_addr].cumulative[epoch.base_index]
                         - epoch.price_cumulative_last,
                 now - epoch.start_timestamp)
    BY <2>1 DEF EpochInv, EpochOpen
  <2>4. held' = held \cup (IF dt = 0 THEN {}
          ELSE {PairPrice(pairs[epoch.pair_addr].reserves, epoch.base_index)})
    BY <1>1, <2>1 DEF PriceHeld
  <2> QED
    BY <1>1, <2>2, <2>3, <2>4, BlockAverages
<1> QED
  BY <1>1, <1>2, <1>3, <1>4, <1>5 DEF EpochInv, ExpansionNeedsPremium

\* A trade changes the price to come, never the epoch so far.
LEMMA EpochTradeKeepsInv ==
  ASSUME EpochInv, EpochTrade
  PROVE  EpochInv' /\ now' = now
<1>1. PICK b \in Pairs, reserves \in ReserveChoices : Trade(b, reserves)
  BY DEF EpochTrade
<1>2. \A a \in Pairs, i \in 0 .. 1 :
         pairs'[a].cumulative[i] = pairs[a].cumulative[i]
  BY <1>1, TradeAverages DEF EpochInv
<1>3. ChainTypeOK' /\ now' = now
  BY <1>1, TradeType DEF EpochInv, Trade, ChainTypeOK
<1>4. EpochOpen'
  BY <1>2, <1>3 DEF EpochTrade, EpochInv, EpochOpen, EpochStates
<1> QED
  BY <1>3, <1>4 DEF EpochTrade, EpochInv, ExpansionNeedsPremium

\* A rate is a natural number, and 0 unless the TWAP exceeds the ceiling.
LEMMA RateNeedsPremium ==
  ASSUME EpochInv, NEW s \in Nat, NEW twap \in Nat
  PROVE  /\ ExpansionRate(s, twap) \in Nat
         /\ ExpansionRate(s, twap) # 0 =>
              epoch.ceil_price # None /\ twap > epoch.ceil_price
<1> DEFINE tier == CHOOSE i \in TierOf(s) : TRUE
<1>1. epoch.max_expansion_rate \in Nat \cup {None} /\ epoch.ceil_price \in Nat \cup {None}
  BY DEF EpochInv, EpochStates
<1>2. CASE \/ epoch.ceil_price = None
           \/ twap <= epoch.ceil_price
           \/ TierOf(s) = {}
  BY <1>2 DEF ExpansionRate
<1>3. CASE ~(\/ epoch.ceil_price = None
             \/ twap <= epoch.ceil_price
             \/ TierOf(s) = {})
  <2>1. tier \in TierOf(s)
    BY <1>3
  <2>2. tier \in 1 .. Len(ExpansionRates)
    BY <2>1, EpochAssumption DEF TierOf
  <2>3. ExpansionRates[tier] \in Nat
    BY <2>2, EpochAssumption
  <2>4. ExpansionRate(s, twap) \in Nat
    BY <1>1, <1>3, <2>3 DEF ExpansionRate
  <2>5. twap > epoch.ceil_price
    BY <1>1, <1>3
  <2> QED
    BY <1>3, <2>4, <2>5
<1> QED
  BY <1>2, <1>3

\* The maximum of the next epoch: the supply, or more at a rate above 0.
LEMMA MaximumOfRate ==
  ASSUME NEW s \in Nat, NEW rate \in Nat
  PROVE  /\ (s * (rate + Precision)) \div Precision \in Nat
         /\ s <= (s * (rate + Precision)) \div Precision
         /\ rate = 0 => (s * (rate + Precision)) \div Precision = s
<1>1. Precision \in Nat \ {0} /\ rate + Precision \in Nat
  BY UnitAssumption
<1>2. s * (rate + Precision) \in Nat
  BY <1>1, ProductType
<1>3. (s * (rate + Precision)) \div Precision \in Nat
  BY <1>1, <1>2, QuotientType
<1>4. Precision * s <= s * (rate + Precision)
  <2>1. s * (rate + Precision) = s * rate + s * Precision
    BY <1>1, ProductOfSum
  <2>2. s * rate \in Nat /\ s * Precision \in Nat
    BY <1>1, ProductType
  <2>3. Precision * s = s * Precision
    BY <1>1, SMT
  <2> QED
    BY <2>1, <2>2, <2>3
<1>5. s <= (s * (rate + Precision)) \div Precision
  BY <1>1, <1>2, <1>4, QuotientBound
<1>6. rate = 0 => (s * (rate + Precision)) \div Precision = s
  <2>1. (s * Precision) \div Precision = s
    BY <1>1, QuotientOfProduct
  <2>2. rate = 0 => rate + Precision = Precision
    BY <1>1
  <2> QED
    BY <2>1, <2>2
<1> QED
  BY <1>3, <1>5, <1>6

\* The next epoch: it expands only if the TWAP of the ended one exceeded the
\* ceiling, and then some price held in it did.
LEMMA UpdateEpochKeepsInv ==
  ASSUME EpochInv, UpdateEpoch
  PROVE  EpochInv' /\ now' = now
<1> DEFINE total == pairs[epoch.pair_addr].cumulative[epoch.base_index]
           sum == total - epoch.price_cumulative_last
           time == now - epoch.start_timestamp
           twap == sum \div time
           rate == ExpansionRate(supply, twap)
           most == (supply * (rate + Precision)) \div Precision
<1>1. /\ NextEpochFits(total) /\ epoch' = AfterEpoch(total) /\ held' = {}
      /\ premium' = /\ epoch.ceil_price # None
                    /\ \E price \in held : price > epoch.ceil_price
      /\ UNCHANGED <<chainVars, supply>>
      /\ epoch.pair_addr # None
  BY DEF UpdateEpoch, NextEpoch
<1>2. /\ epoch \in EpochStates /\ epoch.pair_addr \in Pairs /\ now \in Nat
      /\ epoch.base_index \in 0 .. 1 /\ epoch.ceil_price \in Nat \cup {None}
      /\ epoch.start_timestamp \in Nat /\ ChainTypeOK /\ supply \in Nat
      /\ epoch.start_timestamp # 0
  BY <1>1 DEF EpochInv, EpochOpen, EpochStates, ChainTypeOK
<1>3. Averages(held, sum, time)
  BY <1>1 DEF EpochInv, EpochOpen
<1>4. total \in Nat
  BY <1>2 DEF ChainTypeOK, PairStates
<1>5. time # 0
  BY <1>1, <1>2 DEF NextEpochFits
<1>6. twap \in Nat /\ \E high \in held : twap <= high
  BY <1>3, <1>5, AverageBetween
<1>7. epoch' = [epoch EXCEPT !.start_timestamp = now,
                             !.price_cumulative_last = total,
                             !.base_supply = supply,
                             !.max_supply = most]
  BY <1>1, <1>2 DEF AfterEpoch
<1>8. held \subseteq Nat
  BY <1>3 DEF Averages
<1> HIDE DEF twap
<1>9. rate \in Nat /\ (rate # 0 => epoch.ceil_price # None /\ twap > epoch.ceil_price)
  BY <1>2, <1>6, RateNeedsPremium
<1> HIDE DEF rate
<1>10. most \in Nat /\ supply <= most /\ (rate = 0 => most = supply)
  BY <1>2, <1>9, MaximumOfRate
<1>11. pairs' = pairs /\ now' = now /\ ChainTypeOK' /\ supply' = supply
  BY <1>1, <1>2 DEF chainVars, ChainTypeOK
<1> HIDE DEF most, total
<1>12. /\ epoch' \in EpochStates
       /\ epoch'.start_timestamp = now /\ epoch'.price_cumulative_last = total
       /\ epoch'.base_supply = supply /\ epoch'.max_supply = most
       /\ epoch'.pair_addr = epoch.pair_addr /\ epoch'.base_index = epoch.base_index
  BY <1>2, <1>4, <1>7, <1>10 DEF EpochStates
<1>13. EpochOpen'
  <2>1. total - total = 0 /\ now - now = 0
    BY <1>2, <1>4
  <2>2. pairs'[epoch'.pair_addr].cumulative[epoch'.base_index] = total
    BY <1>11, <1>12 DEF total
  <2>3. now # 0
    BY <1>2 DEF ChainTypeOK
  <2> QED
    BY <1>1, <1>11, <1>12, <2>1, <2>2, <2>3, AverageOfNothing DEF EpochOpen
<1>14. ExpansionNeedsPremium'
  <2>1. SUFFICES ASSUME most > supply PROVE premium'
    BY <1>12 DEF ExpansionNeedsPremium
  <2>2. rate # 0
    BY <1>2, <1>10, <2>1
  <2>3. epoch.ceil_price # None /\ twap > epoch.ceil_price
    BY <1>9, <2>2
  <2>4. PICK high \in held : twap <= high
    BY <1>6
  <2>5. high > epoch.ceil_price
    BY <1>2, <1>6, <1>8, <2>3, <2>4
  <2> QED
    BY <1>1, <2>3, <2>5
<1>15. epoch'.max_supply # None => epoch'.base_supply <= epoch'.max_supply
  BY <1>10, <1>12
<1>16. epoch'.start_timestamp <= now'
  BY <1>2, <1>11, <1>12
<1> QED
  BY <1>2, <1>11, <1>12, <1>13, <1>14, <1>15, <1>16 DEF EpochInv

\* A new pair starts a new epoch, at its own cumulative price.
LEMMA ConfigOracleKeepsInv ==
  ASSUME EpochInv, ConfigSynthOracle
  PROVE  EpochInv' /\ now' = now
<1>1. PICK a \in Pairs, i \in 0 .. 2 : ConfigOracle(a, i)
  BY DEF ConfigSynthOracle
<1> DEFINE total == pairs[a].cumulative[i]
<1>2. i \in 0 .. 1 /\ now \in Nat \ {0} /\ epoch \in EpochStates
  BY <1>1 DEF ConfigOracle, EpochInv, ChainTypeOK
<1>3. total \in Nat
  BY <1>2 DEF EpochInv, ChainTypeOK, PairStates
<1>4. epoch' = [epoch EXCEPT !.pair_addr = a,
                             !.base_index = i,
                             !.start_timestamp = now,
                             !.price_cumulative_last = total]
  BY <1>1 DEF ConfigOracle
<1>5. /\ pairs'[a].cumulative[i] = total /\ now' = now /\ held' = {}
      /\ ChainTypeOK' /\ supply' \in Nat /\ premium' = premium
  BY DEF ConfigSynthOracle, chainVars, EpochInv, ChainTypeOK
<1> HIDE DEF total
<1>6. /\ epoch' \in EpochStates
      /\ epoch'.pair_addr = a /\ epoch'.base_index = i
      /\ epoch'.start_timestamp = now /\ epoch'.price_cumulative_last = total
      /\ epoch'.max_supply = epoch.max_supply /\ epoch'.base_supply = epoch.base_supply
  BY <1>2, <1>3, <1>4 DEF EpochStates
<1>7. EpochOpen'
  <2>1. total - total = 0 /\ now - now = 0
    BY <1>2, <1>3
  <2> QED
    BY <1>2, <1>5, <1>6, <2>1, AverageOfNothing DEF EpochOpen
<1> QED
  BY <1>2, <1>5, <1>6, <1>7 DEF EpochInv, ExpansionNeedsPremium

\* A change of the configuration starts no epoch and moves no maximum.
LEMMA ConfigEpochKeepsInv ==
  ASSUME EpochInv, SetEpochConfig
  PROVE  EpochInv' /\ now' = now
<1>1. PICK duration \in Durations, ceil \in Ceils, rate \in MaxRates :
        ConfigEpoch(duration, ceil, rate)
  BY DEF SetEpochConfig
<1>2. /\ duration \in Nat /\ ceil \in Nat \cup {None} /\ rate \in Nat \cup {None}
      /\ epoch \in EpochStates
  BY MCEpochAssumption DEF EpochInv
<1>3. epoch' = [epoch EXCEPT !.ceil_price = ceil,
                             !.max_expansion_rate = rate,
                             !.epoch_duration = duration]
  BY <1>1 DEF ConfigEpoch
<1>4. /\ epoch' \in EpochStates
      /\ epoch'.pair_addr = epoch.pair_addr /\ epoch'.base_index = epoch.base_index
      /\ epoch'.start_timestamp = epoch.start_timestamp
      /\ epoch'.price_cumulative_last = epoch.price_cumulative_last
      /\ epoch'.max_supply = epoch.max_supply /\ epoch'.base_supply = epoch.base_supply
  BY <1>2, <1>3 DEF EpochStates
<1>5. UNCHANGED <<now, pairs, height, supply, held, premium>>
  BY DEF SetEpochConfig, chainVars
<1>6. ChainTypeOK'
  BY <1>5 DEF EpochInv, ChainTypeOK
<1> QED
  BY <1>4, <1>5, <1>6 DEF EpochInv, EpochOpen, ExpansionNeedsPremium

\* No step sets the clock back.
LEMMA NextEpochInv ==
  ASSUME EpochInv, [EpochNext]_epochVars
  PROVE  EpochInv' /\ now' \in Nat /\ now <= now'
<1>1. EpochInv' => now' \in Nat
  BY DEF EpochInv, ChainTypeOK
<1>2. now \in Nat
  BY DEF EpochInv, ChainTypeOK
<1>3. CASE EpochBlock
  BY <1>1, <1>3, EpochBlockKeepsInv
<1>4. CASE EpochTrade
  BY <1>1, <1>2, <1>4, EpochTradeKeepsInv
<1>5. CASE SupplyMoves
  <2>1. supply' \in Nat /\ UNCHANGED <<height, now, pairs, epoch, held, premium>>
    BY <1>5, MCEpochAssumption DEF SupplyMoves, chainVars
  <2>2. EpochInv'
    BY <2>1 DEF EpochInv, EpochOpen, ExpansionNeedsPremium, ChainTypeOK
  <2> QED
    BY <1>2, <2>1, <2>2
<1>6. CASE UpdateEpoch
  BY <1>1, <1>2, <1>6, UpdateEpochKeepsInv
<1>7. CASE ConfigSynthOracle
  BY <1>1, <1>2, <1>7, ConfigOracleKeepsInv
<1>8. CASE SetEpochConfig
  BY <1>1, <1>2, <1>8, ConfigEpochKeepsInv
<1>9. CASE UNCHANGED epochVars
  <2>1. UNCHANGED <<height, now, pairs, epoch, supply, held, premium>>
    BY <1>9 DEF epochVars, chainVars
  <2>2. EpochInv'
    BY <2>1 DEF EpochInv, EpochOpen, ExpansionNeedsPremium, ChainTypeOK
  <2> QED
    BY <1>2, <2>1, <2>2
<1> QED
  BY <1>3, <1>4, <1>5, <1>6, <1>7, <1>8, <1>9 DEF EpochNext

LEMMA AlwaysEpochInv == EpochSpec => []EpochInv
<1>1. EpochInv /\ [EpochNext]_epochVars => EpochInv'
  BY NextEpochInv
<1> QED
  BY InitEpochInv, <1>1, PTL DEF EpochSpec

\* The maximum exceeds the supply the epoch started with only after an epoch
\* in which the synth held a price above the ceiling (next epoch.rs:90).
THEOREM ExpansionsNeedPremium == EpochSpec => []ExpansionNeedsPremium
<1>1. EpochInv => ExpansionNeedsPremium
  BY DEF EpochInv
<1> QED
  BY AlwaysEpochInv, <1>1, PTL

\* No panic of next_epoch once an epoch of at least a second is over, whatever
\* the users minted and burned and the owner configured (next epoch.rs:90).
THEOREM EpochsCanEnd == EpochSpec => []ElapsedEpochCanEnd
<1>1. EpochInv => ElapsedEpochCanEnd
  <2>1. SUFFICES ASSUME EpochInv, epoch.pair_addr # None, epoch.epoch_duration > 0,
                        epoch.start_timestamp + epoch.epoch_duration <= now
                 PROVE  NextEpochFits(pairs[epoch.pair_addr].cumulative[epoch.base_index])
    BY DEF ElapsedEpochCanEnd
  <2>2. /\ epoch.pair_addr \in Pairs /\ epoch.base_index \in 0 .. 1
        /\ epoch.start_timestamp \in Nat /\ epoch.epoch_duration \in Nat
        /\ epoch.price_cumulative_last \in Nat /\ now \in Nat
    BY <2>1 DEF EpochInv, EpochStates, ChainTypeOK
  <2>3. pairs[epoch.pair_addr].cumulative[epoch.base_index] \in Nat
    BY <2>1, <2>2 DEF EpochInv, ChainTypeOK, PairStates
  <2>4. pairs[epoch.pair_addr].cumulative[epoch.base_index]
          - epoch.price_cumulative_last \in Nat
    BY <2>1 DEF EpochInv, EpochOpen, Averages
  <2> QED
    BY <2>1, <2>2, <2>3, <2>4 DEF NextEpochFits
<1> QED
  BY AlwaysEpochInv, <1>1, PTL

\* A step that leaves the epoch alone lowers no allowance.
LEMMA RampStep ==
  ASSUME EpochInv, [EpochNext]_epochVars,
         epoch' = epoch, epoch.max_supply # None, AllowedSupplyFits
  PROVE  /\ epoch.base_supply <= AllowedSupply
         /\ AllowedSupply <= AllowedSupply'
         /\ AllowedSupply' <= epoch.max_supply
<1>1. PICK most \in Nat, base \in Nat, duration \in Nat, start \in Nat :
        /\ most = epoch.max_supply /\ base = epoch.base_supply
        /\ duration = epoch.epoch_duration /\ start = epoch.start_timestamp
        /\ base <= most /\ start <= now
  BY DEF EpochInv, EpochStates
<1>2. now \in Nat /\ now' \in Nat /\ now <= now'
  BY NextEpochInv DEF EpochInv, ChainTypeOK
<1>3. PICK full \in Nat : full = duration \div 2
  BY QuotientType
<1>4. PICK d \in Nat, e \in Nat, later \in Nat :
        d = most - base /\ e = now - start /\ later = now' - start /\ e <= later
  BY <1>1, <1>2
<1>5. e > full \/ full # 0
  BY <1>1, <1>3, <1>4 DEF AllowedSupplyFits, Elapsed, FullyExpanded
<1>6. AllowedSupply = IF e > full THEN most ELSE base + (d * e) \div full
  BY <1>1, <1>3, <1>4 DEF AllowedSupply, Elapsed, FullyExpanded
<1>7. AllowedSupply' = IF later > full THEN most ELSE base + (d * later) \div full
  BY <1>1, <1>3, <1>4 DEF AllowedSupply, Elapsed, FullyExpanded
<1>8. CASE e > full
  BY <1>1, <1>4, <1>6, <1>7, <1>8
<1>9. CASE e <= full
  <2>1. full \in Nat \ {0}
    BY <1>5, <1>9
  <2>2. (d * e) \div full \in 0 .. d
    BY <1>9, <2>1, Fraction
  <2>3. CASE later > full
    BY <1>1, <1>4, <1>6, <1>7, <1>9, <2>2, <2>3
  <2>4. CASE later <= full
    <3>1. (d * later) \div full \in 0 .. d
      BY <2>1, <2>4, Fraction
    <3>2. d * e \in Nat /\ d * later \in Nat /\ d * e <= d * later
      <4>1. e * d <= later * d
        BY <1>4, ProductGrows
      <4> QED
        BY <4>1, ProductType, SMT
    <3>3. (d * e) \div full <= (d * later) \div full
      BY <2>1, <3>2, QuotientGrows
    <3> QED
      BY <1>1, <1>4, <1>6, <1>7, <1>9, <2>2, <2>4, <3>1, <3>3
  <2> QED
    BY <2>3, <2>4
<1> QED
  BY <1>8, <1>9

\* While an epoch runs its allowance starts at the supply of its first block
\* or above, never shrinks, and stops at the maximum (epoch.rs:111).
THEOREM RampAlwaysRises == EpochSpec => RampOnlyRises
<1>1. EpochInv /\ [EpochNext]_epochVars =>
        [ epoch' = epoch /\ epoch.max_supply # None /\ AllowedSupplyFits
            => /\ epoch.base_supply <= AllowedSupply
               /\ AllowedSupply <= AllowedSupply'
               /\ AllowedSupply' <= epoch.max_supply ]_epochVars
  BY RampStep
<1> QED
  BY AlwaysEpochInv, <1>1, PTL DEF EpochSpec, RampOnlyRises
===============================================================================
