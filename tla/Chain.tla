--------------------------------- MODULE Chain --------------------------------
(***************************************************************************)
(* What surrounds the contracts: the blocks of the chain and the Astroport *)
(* pairs the oracles read.  None of this is code of the repository; it is  *)
(* modelled from what the contracts read (env.block.height,                *)
(* env.block.time.seconds(), a pair's reserves and cumulative prices).     *)
(*                                                                         *)
(* Consecutive blocks may carry the same whole second: TimeSteps may       *)
(* contain 0.  Both bounds are the model's: MaxHeight on the block height, *)
(* and through it on the time.                                             *)
(***************************************************************************)
EXTENDS Unit

CONSTANTS
  Pairs,            \* addresses of the pairs
  ReserveChoices,   \* reserves a trade may leave: functions [0..1 -> Nat]
  TimeSteps,        \* seconds a block may add to the clock
  MaxHeight,        \* bound: last block of the model
  StartTime         \* the clock at instantiation

VARIABLES height, now, pairs

chainVars == <<height, now, pairs>>

ASSUME ChainAssumption ==
  /\ ReserveChoices \subseteq [0 .. 1 -> Nat]
  /\ TimeSteps \subseteq Nat
  /\ MaxHeight \in Nat
  /\ StartTime \in Nat \ {0}

PairStates == [reserves : [0 .. 1 -> Nat], cumulative : [0 .. 1 -> Nat]]

ChainTypeOK ==
  /\ height \in Nat
  /\ now \in Nat \ {0}
  /\ pairs \in [Pairs -> PairStates]

ChainInit ==
  /\ height = 1
  /\ now = StartTime
  /\ \E reserves \in [Pairs -> ReserveChoices] :
       pairs = [a \in Pairs |-> [reserves   |-> reserves[a],
                                 cumulative |-> [i \in 0 .. 1 |-> 0]]]

\* The price of asset i in units of the other asset; 0 in an empty pair.
PairPrice(reserves, i) ==
  IF reserves[0] = 0 \/ reserves[1] = 0
  THEN 0
  ELSE (reserves[1 - i] * Precision) \div reserves[i]

\* A block ends; a pair's cumulative prices grow by price * elapsed seconds.
NextBlock(dt) ==
  /\ height < MaxHeight
  /\ height' = height + 1
  /\ now' = now + dt
  /\ pairs' = [a \in Pairs |->
       [pairs[a] EXCEPT !.cumulative = [i \in 0 .. 1 |->
          pairs[a].cumulative[i] + PairPrice(pairs[a].reserves, i) * dt]]]

\* Somebody trades in, or adds liquidity to, a pair.
Trade(a, reserves) ==
  /\ pairs' = [pairs EXCEPT ![a].reserves = reserves]
  /\ UNCHANGED <<height, now>>
===============================================================================
