-------------------------------- MODULE MCOracle ------------------------------
(***************************************************************************)
(* One PairOracle on its own, with a record of the prices its pair really  *)
(* held: `held` since the last update or configuration, `window` over the  *)
(* time the current TWAP averages.  A price counts once a second passes    *)
(* under it.                                                               *)
(***************************************************************************)
EXTENDS PairOracle

CONSTANTS p1, p2, none, Periods

VARIABLES held, window

ASSUME MCOracleAssumption == Periods \subseteq Nat

oracleVars == <<chainVars, oracle, held, window>>

Reserves(base, quote) == [i \in 0 .. 1 |-> IF i = 0 THEN base ELSE quote]
MCPairs == {p1, p2}
MCReserves == {Reserves(1, 2), Reserves(3, 1), Reserves(0, 0)}

OracleInit ==
  /\ ChainInit
  /\ oracle = DefaultOracle
  /\ held = {}
  /\ window = {}

PriceHeld(dt) ==
  IF dt = 0 \/ oracle.pair_addr = None
  THEN {}
  ELSE {PairPrice(pairs[oracle.pair_addr].reserves, oracle.base_index)}

OracleBlock ==
  \E dt \in TimeSteps :
    /\ NextBlock(dt)
    /\ held' = held \cup PriceHeld(dt)
    /\ UNCHANGED <<oracle, window>>

OracleTrade ==
  /\ \E a \in Pairs, reserves \in ReserveChoices : Trade(a, reserves)
  /\ UNCHANGED <<oracle, held, window>>

OracleUpdate ==
  /\ UpdateTwap
  /\ held' = {}
  /\ window' = held
  /\ UNCHANGED chainVars

OracleConfig ==
  /\ \E pair_addr \in Pairs, base_index \in 0 .. 2, period \in Periods :
       Config(pair_addr, base_index, period)
  /\ held' = {}
  /\ window' = {}
  /\ UNCHANGED chainVars

OracleNext == OracleBlock \/ OracleTrade \/ OracleUpdate \/ OracleConfig

OracleSpec == OracleInit /\ [][OracleNext]_oracleVars

\* A published TWAP lies between the lowest and the highest price its own
\* pair held over its own window: never a price of the pair configured
\* before, never of an earlier window, never of a moment nobody held
\* (update_twap oracle.rs:111, config oracle.rs:138).
TwapInWindow ==
  oracle.twap # None =>
    \E low, high \in window : low <= oracle.twap /\ oracle.twap <= high

\* Whenever its period is over a configured oracle can be updated; a panic
\* in update_twap would take both oracles of the pool down with it
\* (contract.rs:281).
PeriodOverMeansUpdatable ==
  oracle.twap_period > 0 /\ ~UpdateRefused => UpdateFits

\* A configured oracle over a pair with reserves has a spot price, whichever
\* asset is the base: the quote asset is the other one "since assets length
\* alway be 2" (oracle.rs:55).
SpotPriceAvailable ==
  /\ oracle.pair_addr # None
  /\ pairs[oracle.pair_addr].reserves[0] # 0
  /\ pairs[oracle.pair_addr].reserves[1] # 0
  => SpotPriceFits
===============================================================================
