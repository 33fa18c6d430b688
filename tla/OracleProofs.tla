------------------------------ MODULE OracleProofs -----------------------------
(***************************************************************************)
(* What a price oracle promises, for any pairs, periods and reserves: a    *)
(* TWAP is a price of its own pair and window, and an oracle whose period  *)
(* is over can be updated.                                                 *)
(***************************************************************************)
EXTENDS MCOracle, ChainProofs

(***************************************************************************)
(* The inductive invariant: the difference between the pair's cumulative   *)
(* price and the one the oracle saved is the sum of the prices held since  *)
(* its last update.                                                        *)
(***************************************************************************)
WindowOpen ==
  oracle.pair_addr # None =>
    Averages(held,
             CumulativePrice(oracle.pair_addr, oracle.base_index)
               - oracle.price_cumulative_last,
             now - oracle.last_update)

OracleInv ==
  /\ ChainTypeOK
  /\ oracle \in OracleStates
  /\ oracle.last_update <= now
  /\ WindowOpen
  /\ TwapInWindow

LEMMA InitOracleInv == OracleInit => OracleInv
<1> SUFFICES ASSUME OracleInit PROVE OracleInv
  OBVIOUS
<1>1. ChainTypeOK
  <2>1. PICK reserves \in [Pairs -> ReserveChoices] :
          pairs = [a \in Pairs |-> [reserves   |-> reserves[a],
                                    cumulative |-> [i \in 0 .. 1 |-> 0]]]
    BY DEF OracleInit, ChainInit
  <2>2. \A a \in Pairs : reserves[a] \in [0 .. 1 -> Nat]
    BY ChainAssumption
  <2>3. pairs \in [Pairs -> PairStates]
    BY <2>1, <2>2 DEF PairStates
  <2> QED
    BY <2>3, ChainAssumption DEF OracleInit, ChainInit, ChainTypeOK
<1>2. oracle = DefaultOracle
  BY DEF OracleInit
<1>3. oracle \in OracleStates
  BY <1>2, PairOracleAssumption DEF DefaultOracle, OracleStates
<1>4. oracle.last_update = 0 /\ oracle.pair_addr = None /\ oracle.twap = None
  BY <1>2 DEF DefaultOracle
<1> QED
  BY <1>1, <1>3, <1>4 DEF OracleInv, WindowOpen, TwapInWindow, ChainTypeOK

\* A block lengthens the window by the price held in it.
LEMMA OracleBlockKeepsInv ==
  ASSUME OracleInv, OracleBlock
  PROVE  OracleInv'
<1>1. PICK dt \in TimeSteps : NextBlock(dt) /\ held' = held \cup PriceHeld(dt)
                              /\ UNCHANGED <<oracle, window>>
  BY DEF OracleBlock
<1>2. ChainTypeOK'
  BY <1>1, BlockType DEF OracleInv
<1>3. now' \in Nat /\ now' >= now
  BY <1>1, ChainAssumption DEF OracleInv, ChainTypeOK, NextBlock
<1>4. oracle.last_update <= now'
  BY <1>3 DEF OracleInv, OracleStates, ChainTypeOK
<1>5. WindowOpen'
  <2>1. SUFFICES ASSUME oracle.pair_addr # None
                 PROVE  Averages(held', pairs'[oracle.pair_addr].cumulative[oracle.base_index]
                                          - oracle.price_cumulative_last,
                                 now' - oracle.last_update)
    BY <1>1 DEF WindowOpen, CumulativePrice
  <2>2. /\ oracle.pair_addr \in Pairs /\ oracle.base_index \in 0 .. 1
        /\ oracle.price_cumulative_last \in Nat /\ oracle.last_update \in Nat
        /\ oracle.last_update <= now /\ ChainTypeOK
    BY <2>1 DEF OracleInv, OracleStates
  <2>3. Averages(held, pairs[oracle.pair_addr].cumulative[oracle.base_index]
                         - oracle.price_cumulative_last,
                 now - oracle.last_update)
    BY <2>1 DEF OracleInv, WindowOpen, CumulativePrice
  <2>4. held' = held \cup (IF dt = 0 THEN {}
          ELSE {PairPrice(pairs[oracle.pair_addr].reserves, oracle.base_index)})
    BY <1>1, <2>1 DEF PriceHeld
  <2> QED
    BY <1>1, <2>2, <2>3, <2>4, BlockAverages
<1> QED
  BY <1>1, <1>2, <1>4, <1>5 DEF OracleInv, TwapInWindow

\* A trade changes the price to come, never the window so far.
LEMMA OracleTradeKeepsInv ==
  ASSUME OracleInv, OracleTrade
  PROVE  OracleInv'
<1>1. PICK b \in Pairs, reserves \in ReserveChoices : Trade(b, reserves)
  BY DEF OracleTrade
<1>2. \A a \in Pairs, i \in 0 .. 1 :
         pairs'[a].cumulative[i] = pairs[a].cumulative[i]
  BY <1>1, TradeAverages DEF OracleInv
<1>3. ChainTypeOK' /\ now' = now
  BY <1>1, TradeType DEF OracleInv, Trade, ChainTypeOK
<1>4. WindowOpen'
  BY <1>2, <1>3 DEF OracleTrade, OracleInv, WindowOpen, CumulativePrice, OracleStates
<1> QED
  BY <1>3, <1>4 DEF OracleTrade, OracleInv, TwapInWindow

\* An update publishes the average of the window and opens the next one.
LEMMA OracleUpdateKeepsInv ==
  ASSUME OracleInv, OracleUpdate
  PROVE  OracleInv'
<1> DEFINE total == CumulativePrice(oracle.pair_addr, oracle.base_index)
           sum == total - oracle.price_cumulative_last
           time == now - oracle.last_update
<1>1. /\ oracle' = UpdatedOracle(total) /\ held' = {} /\ window' = held
      /\ UNCHANGED chainVars
      /\ oracle.pair_addr # None /\ now > oracle.last_update
  BY DEF OracleUpdate, UpdateTwap, UpdateRefused, UpdateFits
<1>2. /\ oracle \in OracleStates /\ oracle.pair_addr \in Pairs /\ now \in Nat
      /\ oracle.base_index \in 0 .. 1
      /\ oracle.last_update \in Nat /\ ChainTypeOK
  BY <1>1 DEF OracleInv, OracleStates, ChainTypeOK
<1>3. Averages(held, sum, time)
  BY <1>1 DEF OracleInv, WindowOpen
<1>4. total \in Nat
  BY <1>2 DEF ChainTypeOK, PairStates, CumulativePrice
<1>5. time # 0
  BY <1>1, <1>2
<1>6. /\ sum \div time \in Nat
      /\ \E low, high \in held : low <= sum \div time /\ sum \div time <= high
  BY <1>3, <1>5, AverageBetween
<1>7. oracle' = [oracle EXCEPT !.twap = sum \div time,
                               !.price_cumulative_last = total,
                               !.last_update = now]
  BY <1>1 DEF UpdatedOracle
<1>8. CumulativePrice(oracle.pair_addr, oracle.base_index)' = total
      /\ now' = now /\ ChainTypeOK'
  <2>1. /\ oracle'.pair_addr = oracle.pair_addr
        /\ oracle'.base_index = oracle.base_index
    BY <1>2, <1>7 DEF OracleStates
  <2> QED
    BY <1>1, <1>2, <2>1 DEF chainVars, CumulativePrice, ChainTypeOK
<1> HIDE DEF total
<1> DEFINE twap == sum \div time
<1>9. twap \in Nat
  BY <1>6
<1>10. \E low, high \in window' : low <= twap /\ twap <= high
  BY <1>1, <1>6
<1>11. oracle' = [oracle EXCEPT !.twap = twap,
                                !.price_cumulative_last = total,
                                !.last_update = now]
  BY <1>7
<1> HIDE DEF twap
<1>12. /\ oracle' \in OracleStates /\ oracle'.twap = twap
       /\ oracle'.price_cumulative_last = total /\ oracle'.last_update = now
  BY <1>2, <1>4, <1>9, <1>11 DEF OracleStates
<1>13. WindowOpen'
  <2>1. total - total = 0 /\ now - now = 0
    BY <1>2, <1>4
  <2> QED
    BY <1>1, <1>8, <1>12, <2>1, AverageOfNothing DEF WindowOpen
<1>14. TwapInWindow'
  BY <1>10, <1>12 DEF TwapInWindow
<1> QED
  BY <1>2, <1>8, <1>12, <1>13, <1>14 DEF OracleInv

\* A configuration drops the old pair's TWAP and opens a window of the new.
LEMMA OracleConfigKeepsInv ==
  ASSUME OracleInv, OracleConfig
  PROVE  OracleInv'
<1>1. PICK a \in Pairs, i \in 0 .. 2, period \in Periods : Config(a, i, period)
  BY DEF OracleConfig
<1> DEFINE total == pairs[a].cumulative[i]
<1>2. i \in 0 .. 1 /\ period \in Nat /\ now \in Nat
  BY <1>1, MCOracleAssumption DEF Config, OracleInv, ChainTypeOK
<1>3. total \in Nat
  BY <1>2 DEF OracleInv, ChainTypeOK, PairStates
<1>4. oracle' = [ pair_addr |-> a, base_index |-> i,
                  price_cumulative_last |-> total, twap |-> None,
                  last_update |-> now, twap_period |-> period ]
  BY <1>1 DEF Config, ConfiguredOracle, CumulativePrice
<1>5. /\ pairs'[a].cumulative[i] = total /\ now' = now /\ held' = {}
      /\ ChainTypeOK'
  BY DEF OracleConfig, chainVars, OracleInv, ChainTypeOK
<1> HIDE DEF total
<1>6. oracle' \in OracleStates
  BY <1>2, <1>3, <1>4 DEF OracleStates
<1>7. WindowOpen'
  <2>1. total - total = 0 /\ now - now = 0
    BY <1>2, <1>3
  <2> QED
    BY <1>4, <1>5, <2>1, AverageOfNothing DEF WindowOpen, CumulativePrice
<1> QED
  BY <1>2, <1>4, <1>5, <1>6, <1>7 DEF OracleInv, TwapInWindow

LEMMA AlwaysOracleInv == OracleSpec => []OracleInv
<1>1. OracleInv /\ [OracleNext]_oracleVars => OracleInv'
  <2> SUFFICES ASSUME OracleInv, [OracleNext]_oracleVars PROVE OracleInv'
    OBVIOUS
  <2>1. CASE OracleBlock
    BY <2>1, OracleBlockKeepsInv
  <2>2. CASE OracleTrade
    BY <2>2, OracleTradeKeepsInv
  <2>3. CASE OracleUpdate
    BY <2>3, OracleUpdateKeepsInv
  <2>4. CASE OracleConfig
    BY <2>4, OracleConfigKeepsInv
  <2>5. CASE UNCHANGED oracleVars
    BY <2>5 DEF oracleVars, chainVars, OracleInv, ChainTypeOK, WindowOpen,
         CumulativePrice, TwapInWindow
  <2> QED
    BY <2>1, <2>2, <2>3, <2>4, <2>5 DEF OracleNext
<1> QED
  BY InitOracleInv, <1>1, PTL DEF OracleSpec

\* A published TWAP lies between two prices its own pair held over its own
\* window, however often the pair traded and the oracle was reconfigured
\* (update_twap oracle.rs:111, config oracle.rs:138).
THEOREM TwapsFromWindow == OracleSpec => []TwapInWindow
<1>1. OracleInv => TwapInWindow
  BY DEF OracleInv
<1> QED
  BY AlwaysOracleInv, <1>1, PTL

\* No panic of update_twap once the period of a configured oracle, other
\* than 0, is over (oracle.rs:111).
THEOREM UpdatableAfterPeriod == OracleSpec => []PeriodOverMeansUpdatable
<1>1. OracleInv => PeriodOverMeansUpdatable
  <2>1. SUFFICES ASSUME OracleInv, oracle.twap_period > 0, ~UpdateRefused
                 PROVE  UpdateFits
    BY DEF PeriodOverMeansUpdatable
  <2>2. /\ oracle.pair_addr \in Pairs /\ oracle.base_index \in 0 .. 1
        /\ oracle.last_update \in Nat /\ oracle.twap_period \in Nat
        /\ oracle.price_cumulative_last \in Nat /\ now \in Nat
        /\ ~(oracle.last_update + oracle.twap_period > now)
    BY <2>1 DEF OracleInv, OracleStates, UpdateRefused, ChainTypeOK
  <2>3. CumulativePrice(oracle.pair_addr, oracle.base_index) \in Nat
    BY <2>1, <2>2 DEF OracleInv, ChainTypeOK, PairStates, CumulativePrice
  <2>4. CumulativePrice(oracle.pair_addr, oracle.base_index)
          - oracle.price_cumulative_last \in Nat
    BY <2>1, <2>2 DEF OracleInv, WindowOpen, Averages, UpdateRefused
  <2> QED
    BY <2>1, <2>2, <2>3, <2>4 DEF UpdateFits
<1> QED
  BY AlwaysOracleInv, <1>1, PTL
===============================================================================
