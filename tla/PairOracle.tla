------------------------------ MODULE PairOracle ------------------------------
(***************************************************************************)
(* contracts/fantastic-pool/src/oracle.rs: one price oracle over a pair.   *)
(* The pool contract holds two of them.  An operation that returns an      *)
(* error or panics is disabled; the two are told apart only by             *)
(* UpdateRefused, because execute_update_oracle ignores errors.            *)
(***************************************************************************)
EXTENDS Chain

CONSTANTS
  None,                \* Option::None, and the empty address of a new oracle
  DefaultTwapPeriod    \* 600 in the code

VARIABLE oracle

ASSUME PairOracleAssumption ==
  /\ None \notin Nat \cup Pairs
  /\ DefaultTwapPeriod \in Nat

OracleStates ==
  [ pair_addr : Pairs \cup {None}, base_index : 0 .. 1,
    price_cumulative_last : Nat, twap : Nat \cup {None},
    last_update : Nat, twap_period : Nat ]

DefaultOracle ==
  [ pair_addr |-> None, base_index |-> 0, price_cumulative_last |-> 0,
    twap |-> None, last_update |-> 0, twap_period |-> DefaultTwapPeriod ]

CumulativePrice(pair_addr, base_index) == pairs[pair_addr].cumulative[base_index]

(***************************************************************************)
(* get_spot_price.  In the code the quote index is base_index + 1 % 2,     *)
(* which Rust reads as base_index + (1 % 2); an index beyond the two       *)
(* assets is an error, an empty base reserve a division by zero.           *)
(***************************************************************************)
QuoteIndex == oracle.base_index + (1 % 2)

SpotPriceFits ==
  /\ oracle.pair_addr # None
  /\ QuoteIndex \in 0 .. 1
  /\ pairs[oracle.pair_addr].reserves[oracle.base_index] # 0

SpotPrice ==
  LET reserves == pairs[oracle.pair_addr].reserves
  IN (reserves[QuoteIndex] * Precision) \div reserves[oracle.base_index]

(***************************************************************************)
(* update_twap.                                                            *)
(***************************************************************************)
\* The errors update_twap returns: too early, or no pair to query.
UpdateRefused ==
  \/ oracle.last_update + oracle.twap_period > now
  \/ oracle.pair_addr = None

\* The panics: division by zero and subtraction below zero.
UpdateFits ==
  /\ now > oracle.last_update
  /\ CumulativePrice(oracle.pair_addr, oracle.base_index)
       >= oracle.price_cumulative_last

\* Mutant: the cumulative price at the start of the next window is not saved.
UpdatedOracleKeepsCumulative(cumulative) ==
  [oracle EXCEPT
     !.twap = (cumulative - oracle.price_cumulative_last)
                \div (now - oracle.last_update),
     !.last_update = now]

UpdatedOracle(cumulative) ==
  [oracle EXCEPT
     !.twap = (cumulative - oracle.price_cumulative_last)
                \div (now - oracle.last_update),
     !.price_cumulative_last = cumulative,
     !.last_update = now]

UpdateTwap ==
  /\ ~UpdateRefused
  /\ UpdateFits
  /\ oracle' =
       UpdatedOracle(CumulativePrice(oracle.pair_addr, oracle.base_index))

(***************************************************************************)
(* config, by the owner: a new pair opens a new window and drops the TWAP  *)
(* of the old one.                                                         *)
(***************************************************************************)
\* Mutant: the new pair is measured from the cumulative price of the old one.
ConfiguredOracleKeepsCumulative(pair_addr, base_index, twap_period) ==
  [ pair_addr |-> pair_addr, base_index |-> base_index,
    price_cumulative_last |-> oracle.price_cumulative_last,
    twap |-> None, last_update |-> now, twap_period |-> twap_period ]

ConfiguredOracle(pair_addr, base_index, twap_period) ==
  [ pair_addr |-> pair_addr, base_index |-> base_index,
    price_cumulative_last |-> CumulativePrice(pair_addr, base_index),
    twap |-> None, last_update |-> now, twap_period |-> twap_period ]

Config(pair_addr, base_index, twap_period) ==
  /\ base_index <= 1
  /\ oracle' = ConfiguredOracle(pair_addr, base_index, twap_period)
===============================================================================
