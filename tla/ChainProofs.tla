------------------------------ MODULE ChainProofs ------------------------------
(***************************************************************************)
(* Facts about the pairs of the chain and about the averages the oracles   *)
(* and the epochs take of their cumulative prices.                         *)
(***************************************************************************)
EXTENDS Chain, TotalsProofs

\* A pair quotes a natural number for each of its two assets.
LEMMA PairPriceType ==
  ASSUME NEW reserves \in [0 .. 1 -> Nat], NEW i \in 0 .. 1
  PROVE  PairPrice(reserves, i) \in Nat
<1>1. 1 - i \in 0 .. 1
  OBVIOUS
<1>2. CASE reserves[0] = 0 \/ reserves[1] = 0
  BY <1>2 DEF PairPrice
<1>3. CASE reserves[0] # 0 /\ reserves[1] # 0
  <2>1. reserves[1 - i] \in Nat /\ reserves[i] \in Nat \ {0}
    BY <1>1, <1>3
  <2>2. reserves[1 - i] * Precision \in Nat
    BY <2>1, UnitAssumption, ProductType
  <2> QED
    BY <1>3, <2>1, <2>2, QuotientType DEF PairPrice
<1> QED
  BY <1>2, <1>3

\* A block keeps the chain well formed.
LEMMA BlockType ==
  ASSUME ChainTypeOK, NEW dt \in TimeSteps, NextBlock(dt)
  PROVE  ChainTypeOK'
<1>1. dt \in Nat
  BY ChainAssumption
<1>2. height' \in Nat /\ now' \in Nat \ {0}
  BY <1>1 DEF ChainTypeOK, NextBlock
<1>3. ASSUME NEW a \in Pairs
      PROVE  [pairs[a] EXCEPT !.cumulative = [i \in 0 .. 1 |->
                pairs[a].cumulative[i] + PairPrice(pairs[a].reserves, i) * dt]]
             \in PairStates
  <2>1. pairs[a] \in PairStates
    BY DEF ChainTypeOK
  <2>2. ASSUME NEW i \in 0 .. 1
        PROVE  pairs[a].cumulative[i] + PairPrice(pairs[a].reserves, i) * dt \in Nat
    <3>1. PairPrice(pairs[a].reserves, i) * dt \in Nat
      BY <1>1, <2>1, PairPriceType, ProductType DEF PairStates
    <3> QED
      BY <2>1, <3>1 DEF PairStates
  <2> QED
    BY <2>1, <2>2 DEF PairStates
<1>4. pairs' \in [Pairs -> PairStates]
  BY <1>3 DEF NextBlock
<1> QED
  BY <1>2, <1>4 DEF ChainTypeOK

\* A trade keeps the chain well formed.
LEMMA TradeType ==
  ASSUME ChainTypeOK, NEW a \in Pairs, NEW reserves \in ReserveChoices
  PROVE  [pairs EXCEPT ![a].reserves = reserves] \in [Pairs -> PairStates]
  BY ChainAssumption DEF ChainTypeOK, PairStates

\* The TWAP over a window that is not empty is a price.
LEMMA TwapType ==
  ASSUME NEW last \in Nat, NEW total \in Nat, total >= last,
         NEW start \in Nat, NEW t \in Nat, t > start
  PROVE  (total - last) \div (t - start) \in Nat
<1>1. total - last \in Nat /\ t - start \in Nat \ {0}
  OBVIOUS
<1> QED
  BY <1>1, QuotientType

(***************************************************************************)
(* A time-weighted sum of prices.  Each second adds the price held in it,  *)
(* so the sum over some time lies between the time's length times any      *)
(* lower and any upper bound of the prices held: no price has to be the    *)
(* lowest or the highest.                                                  *)
(***************************************************************************)
Averages(prices, sum, time) ==
  /\ prices \subseteq Nat /\ sum \in Nat /\ time \in Nat
  /\ \A c \in Nat : (\A p \in prices : c <= p) => c * time <= sum
  /\ \A c \in Nat : (\A p \in prices : p <= c) => sum <= c * time

\* No time has passed.
LEMMA AverageOfNothing == Averages({}, 0, 0)
<1>1. \A c \in Nat : c * 0 = 0
  BY SMT
<1> QED
  BY <1>1 DEF Averages

\* A price holds for some seconds more; over none it does not count.
LEMMA AverageGrows ==
  ASSUME NEW prices, NEW sum, NEW time, Averages(prices, sum, time),
         NEW price \in Nat, NEW dt \in Nat,
         NEW more, more = IF dt = 0 THEN prices ELSE prices \cup {price}
  PROVE  Averages(more, sum + price * dt, time + dt)
<1>1. /\ sum \in Nat /\ time \in Nat /\ prices \subseteq Nat
      /\ more \subseteq Nat
      /\ price * dt \in Nat
      /\ sum + price * dt \in Nat /\ time + dt \in Nat
  BY ProductType DEF Averages
<1>2. ASSUME NEW c \in Nat, \A p \in more : c <= p
      PROVE  c * (time + dt) <= sum + price * dt
  <2>1. c * time <= sum
    BY <1>2 DEF Averages
  <2>2. c * dt <= price * dt
    <3>1. CASE dt = 0
      BY <3>1
    <3>2. CASE dt # 0
      <4>1. c <= price
        BY <1>2, <3>2
      <4> QED
        BY <4>1, ProductGrows
    <3> QED
      BY <3>1, <3>2
  <2>3. c * (time + dt) = c * time + c * dt /\ c * time \in Nat /\ c * dt \in Nat
    BY <1>1, ProductOfSum, ProductType
  <2> QED
    BY <1>1, <2>1, <2>2, <2>3
<1>3. ASSUME NEW c \in Nat, \A p \in more : p <= c
      PROVE  sum + price * dt <= c * (time + dt)
  <2>1. sum <= c * time
    BY <1>3 DEF Averages
  <2>2. price * dt <= c * dt
    <3>1. CASE dt = 0
      BY <3>1
    <3>2. CASE dt # 0
      <4>1. price <= c
        BY <1>3, <3>2
      <4> QED
        BY <4>1, ProductGrows
    <3> QED
      BY <3>1, <3>2
  <2>3. c * (time + dt) = c * time + c * dt /\ c * time \in Nat /\ c * dt \in Nat
    BY <1>1, ProductOfSum, ProductType
  <2> QED
    BY <1>1, <2>1, <2>2, <2>3
<1> QED
  BY <1>1, <1>2, <1>3 DEF Averages

\* An average, rounded down, lies between two of the prices it averages.
LEMMA AverageBetween ==
  ASSUME NEW prices, NEW sum, NEW time, Averages(prices, sum, time), time # 0
  PROVE  /\ sum \div time \in Nat
         /\ \E low, high \in prices : low <= sum \div time /\ sum \div time <= high
<1>1. prices \subseteq Nat /\ sum \in Nat /\ time \in Nat \ {0}
  BY DEF Averages
<1> DEFINE twap == sum \div time
<1>2. twap \in Nat /\ time * twap <= sum
  BY <1>1, QuotientType
<1>3. ASSUME NEW x \in Nat, time * x <= sum
      PROVE  x <= twap
  BY <1>1, <1>3, QuotientBound
<1> HIDE DEF twap
<1>4. \E low \in prices : low <= twap
  <2>1. SUFFICES ASSUME \A p \in prices : twap + 1 <= p PROVE FALSE
    BY <1>1, <1>2
  <2>2. (twap + 1) * time <= sum
    <3>1. twap + 1 \in Nat
      BY <1>2
    <3> QED
      BY <2>1, <3>1 DEF Averages
  <2>3. (twap + 1) * time = time * (twap + 1)
    BY <1>1, <1>2, SMT
  <2> QED
    BY <1>2, <1>3, <2>2, <2>3
<1>5. \E high \in prices : twap <= high
  <2>1. CASE twap = 0
    BY <1>1, <1>4, <2>1
  <2>2. CASE twap # 0
    <3>1. SUFFICES ASSUME \A p \in prices : p <= twap - 1 PROVE FALSE
      BY <1>1, <1>2
    <3>2. twap - 1 \in Nat
      BY <1>2, <2>2
    <3>3. sum <= (twap - 1) * time
      BY <3>1, <3>2 DEF Averages
    <3>4. (twap - 1) * time = time * twap - time /\ time * twap \in Nat
      BY <1>1, <1>2, ProductType, SMT
    <3> QED
      BY <1>1, <1>2, <3>3, <3>4
  <2> QED
    BY <2>1, <2>2
<1> QED
  BY <1>2, <1>4, <1>5 DEF twap

\* A block adds its price, for the seconds it lasts, to a running average.
LEMMA BlockAverages ==
  ASSUME ChainTypeOK, NEW dt \in TimeSteps, NextBlock(dt),
         NEW a \in Pairs, NEW i \in 0 .. 1,
         NEW last \in Nat, NEW start \in Nat, start <= now,
         NEW prices,
         Averages(prices, pairs[a].cumulative[i] - last, now - start),
         NEW more,
         more = prices \cup (IF dt = 0 THEN {} ELSE {PairPrice(pairs[a].reserves, i)})
  PROVE  Averages(more, pairs'[a].cumulative[i] - last, now' - start)
<1> DEFINE total == pairs[a].cumulative[i]
           price == PairPrice(pairs[a].reserves, i)
<1>1. pairs[a] \in PairStates /\ now \in Nat /\ dt \in Nat
  BY ChainAssumption DEF ChainTypeOK
<1>2. price \in Nat
  BY <1>1, PairPriceType DEF PairStates
<1>3. total \in Nat
  BY <1>1 DEF PairStates
<1>4. pairs'[a].cumulative[i] = total + price * dt /\ now' = now + dt
  BY <1>1 DEF NextBlock, PairStates
<1>5. more = IF dt = 0 THEN prices ELSE prices \cup {price}
  OBVIOUS
<1>6. Averages(prices, total - last, now - start)
  OBVIOUS
<1> HIDE DEF total, price
<1>7. Averages(more, (total - last) + price * dt, (now - start) + dt)
  BY <1>1, <1>2, <1>5, <1>6, AverageGrows
<1>8. price * dt \in Nat
  BY <1>1, <1>2, ProductType
<1>9. (total - last) + price * dt = pairs'[a].cumulative[i] - last
  BY <1>3, <1>4, <1>8
<1>10. (now - start) + dt = now' - start
  BY <1>1, <1>4
<1> QED
  BY <1>7, <1>9, <1>10

\* A trade moves no cumulative price.
LEMMA TradeAverages ==
  ASSUME ChainTypeOK, NEW b \in Pairs, NEW reserves \in ReserveChoices,
         Trade(b, reserves), NEW a \in Pairs, NEW i \in 0 .. 1
  PROVE  ChainTypeOK' /\ now' = now
         /\ pairs'[a].cumulative[i] = pairs[a].cumulative[i]
<1>1. pairs' \in [Pairs -> PairStates]
  BY TradeType DEF Trade
<1>2. pairs'[a].cumulative[i] = pairs[a].cumulative[i]
  BY DEF Trade, ChainTypeOK, PairStates
<1> QED
  BY <1>1, <1>2 DEF Trade, ChainTypeOK
===============================================================================
