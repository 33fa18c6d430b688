---------------------------- MODULE SynthPoolProofs ---------------------------
(***************************************************************************)
(* Theorems about SynthPool, for every number of users and pairs, every    *)
(* amount, every choice of the owner and every movement of the prices: the *)
(* types, the backing at par, the totals, ClaimLedger, and the way ratio,  *)
(* epochs and ownership move.                                              *)
(***************************************************************************)
EXTENDS MCOwnership, ChainProofs

(***************************************************************************)
(* calc_mint and calc_redeem.                                              *)
(***************************************************************************)
\* What calc_mint computes are amounts, and the collateral it spends on
\* shares is part of the collateral that came in.
LEMMA CalcMintType ==
  ASSUME NEW p \in PoolConfigs, NEW c \in Nat, CalcMintFits(p)
  PROVE  /\ CalcMint(p, c) \in [synth_out : Nat, buy_share_value : Nat, fee : Nat]
         /\ CalcMint(p, c).buy_share_value <= c
<1> DEFINE r == p.collateral_ratio
           f == p.minting_fee
<1>1. r \in 0 .. Precision /\ f \in 0 .. Precision /\ Precision \in Nat \ {0}
  BY UnitAssumption DEF PoolConfigs, CalcMintFits
<1>2. /\ Precision - r \in 0 .. Precision
      /\ Precision - f \in 0 .. Precision
  BY <1>1
<1> HIDE DEF r, f
<1>3. (c * (Precision - f)) \div Precision \in 0 .. c
  BY <1>1, <1>2, Fraction
<1>4. (c * (Precision - r)) \div Precision \in 0 .. c
  BY <1>1, <1>2, Fraction
<1>5. c * r * f \in Nat
  <2>1. c * r \in Nat
    BY <1>1, ProductType
  <2> QED
    BY <2>1, <1>1, ProductType
<1>6. ((c * r * f) \div Precision) \div Precision \in Nat
  BY <1>1, <1>5, QuotientType
<1> QED
  BY <1>3, <1>4, <1>6 DEF CalcMint, r, f

\* What calc_redeem computes are amounts, at any price that is not zero.
LEMMA CalcRedeemType ==
  ASSUME NEW p \in PoolConfigs, NEW s \in Nat, NEW price \in Nat,
         CalcRedeemFits(p, price)
  PROVE  CalcRedeem(p, s, price) \in
           [collateral_out : Nat, share_out : Nat, fee : Nat]
<1> DEFINE r == p.collateral_ratio
           f == p.redemption_fee
           g == Precision - f
           b == Precision - r
<1>1. /\ Precision \in Nat \ {0} /\ price \in Nat \ {0}
      /\ r \in Nat /\ f \in Nat /\ g \in Nat /\ b \in Nat
  BY UnitAssumption DEF PoolConfigs, CalcRedeemFits
<1> HIDE DEF r, f, g, b
<1>2. ((s * r * g) \div Precision) \div Precision \in Nat
  <2>1. s * r \in Nat
    BY <1>1, ProductType
  <2>2. s * r * g \in Nat
    BY <2>1, <1>1, ProductType
  <2> QED
    BY <1>1, <2>2, QuotientType
<1>3. ((s * g * b) \div price) \div Precision \in Nat
  <2>1. s * g \in Nat
    BY <1>1, ProductType
  <2>2. s * g * b \in Nat
    BY <2>1, <1>1, ProductType
  <2> QED
    BY <1>1, <2>2, QuotientType
<1>4. (s * f) \div Precision \in Nat
  BY <1>1, ProductType, QuotientType
<1> QED
  BY <1>2, <1>3, <1>4 DEF CalcRedeem, r, f, g, b

\* At a ratio of 1 no share is bought, and the synth credited and the fee
\* booked by a mint are covered by the collateral that came in.
LEMMA CalcMintAtPar ==
  ASSUME NEW p \in PoolConfigs, NEW c \in Nat, CalcMintFits(p),
         p.collateral_ratio = Precision
  PROVE  /\ CalcMint(p, c).buy_share_value = 0
         /\ CalcMint(p, c).synth_out + CalcMint(p, c).fee <= c
<1> DEFINE f == p.minting_fee
<1>1. f \in 0 .. Precision /\ Precision \in Nat \ {0}
  BY UnitAssumption DEF PoolConfigs, CalcMintFits
<1> HIDE DEF f
<1>2. (c * (Precision - Precision)) \div Precision = 0
  <2>1. c * (Precision - Precision) = 0 * Precision
    BY <1>1
  <2> QED
    BY <2>1, <1>1, QuotientOfProduct
<1>3. (c * Precision * f) \div Precision = c * f
  <2>1. c * f \in Nat /\ c * Precision * f = (c * f) * Precision
    BY <1>1
  <2> QED
    BY <2>1, <1>1, QuotientOfProduct
<1>4. (c * (Precision - f)) \div Precision + (c * f) \div Precision <= c
  BY <1>1, TwoFractions
<1> QED
  BY <1>2, <1>3, <1>4 DEF CalcMint, f

\* At a ratio of 1 the collateral credited and the fee booked by a redeem are
\* covered by the synth that came back.
LEMMA CalcRedeemAtPar ==
  ASSUME NEW p \in PoolConfigs, NEW s \in Nat, NEW price \in Nat,
         CalcRedeemFits(p, price), p.collateral_ratio = Precision
  PROVE  CalcRedeem(p, s, price).collateral_out
           + CalcRedeem(p, s, price).fee <= s
<1> DEFINE f == p.redemption_fee
<1>1. f \in 0 .. Precision /\ Precision \in Nat \ {0}
  BY UnitAssumption DEF PoolConfigs, CalcRedeemFits
<1> HIDE DEF f
<1>2. (s * Precision * (Precision - f)) \div Precision = s * (Precision - f)
  <2>1. /\ s * (Precision - f) \in Nat
        /\ s * Precision * (Precision - f) = (s * (Precision - f)) * Precision
    BY <1>1
  <2> QED
    BY <2>1, <1>1, QuotientOfProduct
<1>3. (s * (Precision - f)) \div Precision + (s * f) \div Precision <= s
  BY <1>1, TwoFractions
<1> QED
  BY <1>2, <1>3 DEF CalcRedeem, f

(***************************************************************************)
(* The state changes.                                                      *)
(***************************************************************************)
\* mint keeps both records well formed.
LEMMA AfterMintType ==
  ASSUME NEW p \in PoolConfigs, NEW u \in UserInfos, NEW h \in Nat,
         NEW r \in [synth_out : Nat, buy_share_value : Nat, fee : Nat]
  PROVE  /\ PoolAfterMint(p, r) \in PoolConfigs
         /\ UserAfterMint(u, h, r) \in UserInfos
<1>1. /\ p.total_unclaimed_synth + r.synth_out \in Nat
      /\ p.total_fee + r.fee \in Nat
      /\ u.synth_balance + r.synth_out \in Nat
  BY DEF PoolConfigs, UserInfos
<1>2. PoolAfterMint(p, r) \in PoolConfigs
  BY <1>1 DEF PoolAfterMint, PoolConfigs
<1>3. UserAfterMint(u, h, r) \in UserInfos
  BY <1>1 DEF UserAfterMint, UserInfos
<1> QED
  BY <1>2, <1>3

\* redeem keeps both records well formed.
LEMMA AfterRedeemType ==
  ASSUME NEW p \in PoolConfigs, NEW u \in UserInfos, NEW h \in Nat,
         NEW r \in [collateral_out : Nat, share_out : Nat, fee : Nat]
  PROVE  /\ PoolAfterRedeem(p, r) \in PoolConfigs
         /\ UserAfterRedeem(u, h, r) \in UserInfos
<1>1. /\ p.total_unclaimed_collateral + r.collateral_out \in Nat
      /\ p.total_unclaimed_share + r.share_out \in Nat
      /\ p.total_fee + r.fee \in Nat
      /\ u.share_balance + r.share_out \in Nat
      /\ u.collateral_balance + r.collateral_out \in Nat
  BY DEF PoolConfigs, UserInfos
<1>2. PoolAfterRedeem(p, r) \in PoolConfigs
  BY <1>1 DEF PoolAfterRedeem, PoolConfigs
<1>3. UserAfterRedeem(u, h, r) \in UserInfos
  BY <1>1 DEF UserAfterRedeem, UserInfos
<1> QED
  BY <1>2, <1>3

\* collect keeps both records well formed when its subtractions fit.
LEMMA AfterCollectType ==
  ASSUME NEW p \in PoolConfigs, NEW u \in UserInfos, CollectFits(p, u)
  PROVE  /\ PoolAfterCollect(p, u) \in PoolConfigs
         /\ UserAfterCollect(u) \in UserInfos
<1>1. /\ p.total_unclaimed_collateral - u.collateral_balance \in Nat
      /\ p.total_unclaimed_share - u.share_balance \in Nat
      /\ p.total_unclaimed_synth - u.synth_balance \in Nat
  BY DEF CollectFits, PoolConfigs, UserInfos
<1>2. PoolAfterCollect(p, u) \in PoolConfigs
  BY <1>1 DEF PoolAfterCollect, PoolConfigs
<1>3. UserAfterCollect(u) \in UserInfos
  BY DEF UserAfterCollect, UserInfos
<1> QED
  BY <1>2, <1>3

\* The clamp keeps the ratio between its floor and 1, whatever the TWAP is.
LEMMA AfterRefreshType ==
  ASSUME NEW p \in PoolConfigs, NEW twap \in Nat, RefreshFits(p, twap)
  PROVE  /\ PoolAfterRefresh(p, twap) \in PoolConfigs
         /\ PoolAfterRefresh(p, twap).collateral_ratio
              \in p.min_collateral_ratio .. Precision
<1>1. /\ Precision \in Nat /\ CollateralRatioStep \in Nat
      /\ p.min_collateral_ratio \in 0 .. Precision
  BY UnitAssumption, PoolConfigAssumption DEF PoolConfigs, RefreshFits
<1>2. SteppedRatio(p, twap) \in Nat
  BY <1>1 DEF SteppedRatio, RefreshFits, PoolConfigs
<1>3. Clamp(SteppedRatio(p, twap), p.min_collateral_ratio, Precision)
        \in p.min_collateral_ratio .. Precision
  BY <1>1, <1>2 DEF Clamp
<1> QED
  BY <1>1, <1>3 DEF PoolAfterRefresh, PoolConfigs

(***************************************************************************)
(* Types.                                                                  *)
(***************************************************************************)
\* instantiate leaves a well-formed state.
LEMMA InitType == Init => TypeOK
<1> SUFFICES ASSUME Init PROVE TypeOK
  OBVIOUS
<1> USE DEF Init
<1>1. pool \in PoolConfigs
  BY UnitAssumption, PoolConfigAssumption DEF InitialPool, PoolConfigs
<1>2. user \in [Accounts -> UserInfos]
  BY DEF DefaultUser, UserInfos
<1>3. ownable \in OwnableStates
  BY SynthPoolAssumption DEF InitialOwnable, OwnableStates
<1>4. epoch \in SynthEpoch!EpochStates
  BY DEF SynthEpoch!DefaultEpoch, SynthEpoch!EpochStates
<1>5. synthOracle \in SynthOracle!OracleStates
  BY SynthPoolAssumption DEF SynthOracle!DefaultOracle, SynthOracle!OracleStates
<1>6. shareOracle \in ShareOracle!OracleStates
  BY SynthPoolAssumption DEF ShareOracle!DefaultOracle, ShareOracle!OracleStates
<1>7. vault \in Nat /\ synth \in Tokens /\ share \in Tokens
  BY SynthPoolAssumption DEF NewToken, Tokens
<1>8. ChainTypeOK
  BY ChainAssumption DEF ChainInit, ChainTypeOK, PairStates
<1> QED
  BY <1>1, <1>2, <1>3, <1>4, <1>5, <1>6, <1>7, <1>8 DEF TypeOK

\* A mint keeps every part of the state well formed: in particular it buys
\* back no more than it took.
LEMMA MintTypeOK ==
  ASSUME TypeOK, NEW u \in Accounts, NEW c \in Nat, NEW m \in Nat, Mint(u, c, m)
  PROVE  TypeOK'
<1> DEFINE result == CalcMint(pool, c)
<1>1. /\ result \in [synth_out : Nat, buy_share_value : Nat, fee : Nat]
      /\ result.buy_share_value <= c
  BY CalcMintType DEF TypeOK, Mint
<1>2. pool' \in PoolConfigs
  BY <1>1, AfterMintType DEF TypeOK, Mint, ChainTypeOK
<1>3. user' \in [Accounts -> UserInfos]
  BY <1>1, AfterMintType DEF TypeOK, Mint, ChainTypeOK
<1>4. vault' \in Nat
  BY <1>1 DEF TypeOK, Mint
<1>5. BuyShareAndBurn(result.buy_share_value)
  BY DEF Mint
<1>6. share' \in Tokens
  <2>1. CASE UNCHANGED share
    BY <2>1 DEF TypeOK, Tokens
  <2>2. ASSUME NEW n \in SwapOutputs, n <= Circulating(share),
               share' = BurnHeld(ReceiveTokens(share, n))
        PROVE  share' \in Tokens
    <3>1. n \in Nat /\ share.supply \in Nat /\ share.held \in Nat
      BY SynthPoolAssumption DEF TypeOK, Tokens
    <3>2. share' = [supply |-> share.supply - (share.held + n), held |-> 0]
      BY <2>2 DEF TypeOK, Tokens, BurnHeld, ReceiveTokens
    <3> QED
      BY <2>2, <3>1, <3>2 DEF Circulating, Tokens
  <2> QED
    BY <1>5, <2>1, <2>2 DEF BuyShareAndBurn
<1>7. pairs' \in [Pairs -> PairStates]
  BY <1>5, TradeType DEF BuyShareAndBurn, TypeOK, ChainTypeOK
<1> QED
  BY <1>2, <1>3, <1>4, <1>6, <1>7
     DEF TypeOK, Mint, adminVars, ChainTypeOK

\* A redeem reads a price.
LEMMA RedeemPriceType ==
  ASSUME TypeOK, NEW u, NEW s, NEW m, NEW n, Redeem(u, s, m, n)
  PROVE  ShareOracle!SpotPrice \in Nat
<1> DEFINE reserves == pairs[shareOracle.pair_addr].reserves
<1>1. /\ shareOracle.pair_addr \in Pairs
      /\ shareOracle.base_index \in 0 .. 1
      /\ ShareOracle!QuoteIndex \in 0 .. 1
      /\ reserves[shareOracle.base_index] # 0
  BY DEF TypeOK, ShareOracle!OracleStates, Redeem, ShareOracle!SpotPriceFits
<1>2. reserves \in [0 .. 1 -> Nat]
  BY <1>1 DEF TypeOK, ChainTypeOK, PairStates
<1> HIDE DEF reserves
<1>3. /\ reserves[ShareOracle!QuoteIndex] * Precision \in Nat
      /\ reserves[shareOracle.base_index] \in Nat \ {0}
  BY <1>1, <1>2, UnitAssumption, ProductType
<1> QED
  BY <1>3, QuotientType DEF reserves, ShareOracle!SpotPrice

\* A redeem keeps every part of the state well formed.
LEMMA RedeemTypeOK ==
  ASSUME TypeOK, NEW u \in Accounts, NEW s \in Nat, NEW m \in Nat, NEW n \in Nat,
         Redeem(u, s, m, n)
  PROVE  TypeOK'
<1> DEFINE price == ShareOracle!SpotPrice
           result == CalcRedeem(pool, s, price)
<1>1. price \in Nat
  BY RedeemPriceType
<1> HIDE DEF price
<1>2. result \in [collateral_out : Nat, share_out : Nat, fee : Nat]
  BY <1>1, CalcRedeemType DEF TypeOK, Redeem, price
<1>3. pool' \in PoolConfigs
  BY <1>2, AfterRedeemType DEF TypeOK, Redeem, ChainTypeOK, price
<1>4. user' \in [Accounts -> UserInfos]
  BY <1>2, AfterRedeemType DEF TypeOK, Redeem, ChainTypeOK, price
<1>5. synth' \in Tokens
  BY DEF TypeOK, Redeem, Tokens, Circulating, ReceiveTokens
<1> QED
  BY <1>3, <1>4, <1>5 DEF TypeOK, Redeem, adminVars, chainVars, ChainTypeOK

\* A payment keeps the state well formed: nothing it subtracts from is less
\* than what it subtracts.
LEMMA CollectTypeOK ==
  ASSUME TypeOK, NEW u \in Accounts, Collect(u)
  PROVE  TypeOK'
<1>1. user[u] \in UserInfos
  BY DEF TypeOK
<1>2. pool' \in PoolConfigs /\ user' \in [Accounts -> UserInfos]
  BY <1>1, AfterCollectType DEF TypeOK, Collect
<1>3. vault' \in Nat /\ synth' \in Tokens /\ share' \in Tokens
  BY <1>1 DEF TypeOK, Collect, UserInfos, Tokens, MintTokens
<1> QED
  BY <1>2, <1>3 DEF TypeOK, Collect, adminVars, chainVars, ChainTypeOK

\* An update of the oracle of the share keeps its record well formed.
LEMMA ShareOracleUpdateType ==
  ASSUME TypeOK, ShareOracle!UpdateTwap \/ UNCHANGED shareOracle
  PROVE  shareOracle' \in ShareOracle!OracleStates
<1> DEFINE total == ShareOracle!CumulativePrice(shareOracle.pair_addr,
                                                shareOracle.base_index)
<1>1. CASE UNCHANGED shareOracle
  BY <1>1 DEF TypeOK, ShareOracle!OracleStates
<1>2. CASE ShareOracle!UpdateTwap
  <2>1. /\ shareOracle \in ShareOracle!OracleStates
        /\ shareOracle.pair_addr \in Pairs
        /\ shareOracle.last_update \in Nat
        /\ shareOracle.price_cumulative_last \in Nat
        /\ now \in Nat /\ now > shareOracle.last_update
        /\ total >= shareOracle.price_cumulative_last
    BY <1>2 DEF TypeOK, ChainTypeOK, ShareOracle!UpdateTwap,
         ShareOracle!UpdateRefused, ShareOracle!UpdateFits,
         ShareOracle!OracleStates
  <2>2. total \in Nat
    BY <2>1 DEF TypeOK, ChainTypeOK, PairStates,
         ShareOracle!CumulativePrice, ShareOracle!OracleStates
  <2> HIDE DEF total
  <2>3. (total - shareOracle.price_cumulative_last)
           \div (now - shareOracle.last_update) \in Nat
    BY <2>1, <2>2, TwapType
  <2>4. ShareOracle!UpdatedOracle(total) \in ShareOracle!OracleStates
    BY <2>1, <2>2, <2>3
       DEF ShareOracle!UpdatedOracle, ShareOracle!OracleStates
  <2> QED
    BY <1>2, <2>4 DEF ShareOracle!UpdateTwap, total
<1> QED
  BY <1>1, <1>2

\* The same for the oracle of the synth.
LEMMA SynthOracleUpdateType ==
  ASSUME TypeOK, SynthOracle!UpdateTwap \/ UNCHANGED synthOracle
  PROVE  synthOracle' \in SynthOracle!OracleStates
<1> DEFINE total == SynthOracle!CumulativePrice(synthOracle.pair_addr,
                                                synthOracle.base_index)
<1>1. CASE UNCHANGED synthOracle
  BY <1>1 DEF TypeOK, SynthOracle!OracleStates
<1>2. CASE SynthOracle!UpdateTwap
  <2>1. /\ synthOracle \in SynthOracle!OracleStates
        /\ synthOracle.pair_addr \in Pairs
        /\ synthOracle.last_update \in Nat
        /\ synthOracle.price_cumulative_last \in Nat
        /\ now \in Nat /\ now > synthOracle.last_update
        /\ total >= synthOracle.price_cumulative_last
    BY <1>2 DEF TypeOK, ChainTypeOK, SynthOracle!UpdateTwap,
         SynthOracle!UpdateRefused, SynthOracle!UpdateFits,
         SynthOracle!OracleStates
  <2>2. total \in Nat
    BY <2>1 DEF TypeOK, ChainTypeOK, PairStates,
         SynthOracle!CumulativePrice, SynthOracle!OracleStates
  <2> HIDE DEF total
  <2>3. (total - synthOracle.price_cumulative_last)
           \div (now - synthOracle.last_update) \in Nat
    BY <2>1, <2>2, TwapType
  <2>4. SynthOracle!UpdatedOracle(total) \in SynthOracle!OracleStates
    BY <2>1, <2>2, <2>3
       DEF SynthOracle!UpdatedOracle, SynthOracle!OracleStates
  <2> QED
    BY <1>2, <2>4 DEF SynthOracle!UpdateTwap, total
<1> QED
  BY <1>1, <1>2

\* The rate of the tier of a supply is one of the table, or the maximum.
LEMMA ExpansionRateType ==
  ASSUME TypeOK, NEW s \in Nat, NEW twap \in Nat
  PROVE  SynthEpoch!ExpansionRate(s, twap) \in Nat
<1> DEFINE tier == CHOOSE i \in SynthEpoch!TierOf(s) : TRUE
<1>1. CASE SynthEpoch!TierOf(s) = {}
  BY <1>1 DEF SynthEpoch!ExpansionRate
<1>2. CASE SynthEpoch!TierOf(s) # {}
  <2>1. tier \in SynthEpoch!TierOf(s)
    BY <1>2
  <2>2. tier \in 1 .. Len(ExpansionRates)
    BY <2>1, SynthPoolAssumption DEF SynthEpoch!TierOf
  <2>3. ExpansionRates[tier] \in Nat
    BY <2>2, SynthPoolAssumption
  <2>4. epoch.max_expansion_rate \in Nat \cup {None}
    BY DEF TypeOK, SynthEpoch!EpochStates
  <2> QED
    BY <2>3, <2>4 DEF SynthEpoch!ExpansionRate
<1> QED
  BY <1>1, <1>2

\* The next epoch is well formed.
LEMMA NextEpochType ==
  ASSUME TypeOK, SynthEpoch!NextEpoch
  PROVE  epoch' \in SynthEpoch!EpochStates
<1> DEFINE total == pairs[epoch.pair_addr].cumulative[epoch.base_index]
           twap == (total - epoch.price_cumulative_last)
                      \div (now - epoch.start_timestamp)
           rate == SynthEpoch!ExpansionRate(synth.supply, twap)
           max == (synth.supply * (rate + Precision)) \div Precision
<1>1. /\ epoch \in SynthEpoch!EpochStates
      /\ epoch.pair_addr \in Pairs
      /\ SynthEpoch!NextEpochFits(total)
      /\ epoch' = SynthEpoch!AfterEpoch(total)
  BY DEF TypeOK, SynthEpoch!NextEpoch, SynthEpoch!EpochStates
<1>2. total \in Nat /\ now \in Nat /\ synth.supply \in Nat
  BY <1>1 DEF TypeOK, ChainTypeOK, PairStates, SynthEpoch!EpochStates, Tokens
<1> HIDE DEF total
<1>3. CASE epoch.start_timestamp = 0
  BY <1>1, <1>2, <1>3 DEF SynthEpoch!AfterEpoch, SynthEpoch!EpochStates
<1>4. CASE epoch.start_timestamp # 0
  <2>1. twap \in Nat
    BY <1>1, <1>2, <1>4, TwapType
       DEF SynthEpoch!NextEpochFits, SynthEpoch!EpochStates
  <2> HIDE DEF twap
  <2>2. rate \in Nat
    BY <1>2, <2>1, ExpansionRateType
  <2> HIDE DEF rate
  <2>3. max \in Nat
    <3>1. rate + Precision \in Nat
      BY <2>2, UnitAssumption
    <3> QED
      BY <3>1, <1>2, UnitAssumption, ProductType, QuotientType
  <2>4. epoch' = [epoch EXCEPT !.start_timestamp = now,
                               !.price_cumulative_last = total,
                               !.base_supply = synth.supply,
                               !.max_supply = max]
    BY <1>1, <1>4 DEF SynthEpoch!AfterEpoch, max, rate, twap
  <2> HIDE DEF max
  <2> QED
    BY <1>1, <1>2, <2>3, <2>4 DEF SynthEpoch!EpochStates
<1> QED
  BY <1>3, <1>4

\* Messages of keepers keep the state well formed.
LEMMA KeeperTypeOK == TypeOK /\ KeeperNext => TypeOK'
<1> SUFFICES ASSUME TypeOK, KeeperNext PROVE TypeOK'
  OBVIOUS
<1>1. CASE RefreshCollateralRatio
  <2>1. synthOracle.twap \in Nat
    BY <1>1 DEF TypeOK, RefreshCollateralRatio, SynthOracle!OracleStates
  <2>2. pool' \in PoolConfigs
    BY <1>1, <2>1, AfterRefreshType DEF TypeOK, RefreshCollateralRatio
  <2> QED
    BY <1>1, <2>2
       DEF TypeOK, RefreshCollateralRatio, adminVars, chainVars, ChainTypeOK
<1>2. CASE UpdateOracle
  BY <1>2, ShareOracleUpdateType, SynthOracleUpdateType
     DEF TypeOK, UpdateOracle, moneyVars, chainVars, ChainTypeOK
<1>3. CASE UpdateEpoch
  BY <1>3, NextEpochType DEF TypeOK, UpdateEpoch, moneyVars, chainVars, ChainTypeOK
<1>4. CASE BurnShare
  BY <1>4 DEF TypeOK, BurnShare, Tokens, BurnHeld, adminVars, chainVars, ChainTypeOK
<1> QED
  BY <1>1, <1>2, <1>3, <1>4 DEF KeeperNext

\* Messages of the owner keep the state well formed.
LEMMA OwnerTypeOK == TypeOK /\ OwnerNext => TypeOK'
<1> SUFFICES ASSUME TypeOK, OwnerNext PROVE TypeOK'
  OBVIOUS
<1>1. ASSUME NEW caller, NEW new_pool \in PoolConfigs, SetPool(caller, new_pool)
      PROVE  TypeOK'
  BY <1>1 DEF TypeOK, SetPool, adminVars, chainVars, ChainTypeOK
<1>2. ASSUME NEW caller \in Accounts, NEW minting_fee \in FeeChoices,
             NEW redemption_fee \in FeeChoices,
             SetFee(caller, minting_fee, redemption_fee)
      PROVE  TypeOK'
  <2>1. minting_fee \in Nat /\ redemption_fee \in Nat
    BY SynthPoolAssumption
  <2>2. [pool EXCEPT !.minting_fee = minting_fee,
                     !.redemption_fee = redemption_fee] \in PoolConfigs
    BY <2>1 DEF TypeOK, PoolConfigs
  <2> QED
    BY <1>1, <1>2, <2>2 DEF SetFee
<1>3. ASSUME NEW caller \in Accounts, NEW mint_paused \in PauseChoices,
             NEW redeem_paused \in PauseChoices,
             Toggle(caller, mint_paused, redeem_paused)
      PROVE  TypeOK'
  <2>1. mint_paused \in BOOLEAN /\ redeem_paused \in BOOLEAN
    BY SynthPoolAssumption
  <2>2. [pool EXCEPT !.mint_paused = mint_paused,
                     !.redeem_paused = redeem_paused] \in PoolConfigs
    BY <2>1 DEF TypeOK, PoolConfigs
  <2> QED
    BY <1>1, <1>3, <2>2 DEF Toggle
<1>4. ASSUME NEW caller \in Accounts, NEW value \in RatioChoices,
             SetMinCollateralRatio(caller, value)
      PROVE  TypeOK'
  <2>1. [pool EXCEPT !.min_collateral_ratio = value] \in PoolConfigs
    BY SynthPoolAssumption DEF TypeOK, PoolConfigs
  <2> QED
    BY <1>1, <1>4, <2>1 DEF SetMinCollateralRatio
<1>5. ASSUME NEW a \in Pairs, NEW i \in Nat, i <= 1
      PROVE  pairs[a].cumulative[i] \in Nat /\ i \in 0 .. 1
  BY <1>5 DEF TypeOK, ChainTypeOK, PairStates
<1>6. ASSUME NEW caller \in Accounts, NEW a \in Pairs, NEW i \in ShareIndexes,
             NEW period \in PeriodChoices, ConfigShareOracle(caller, a, i, period)
      PROVE  TypeOK'
  <2>1. /\ i \in 0 .. 1 /\ period \in Nat /\ now \in Nat
        /\ pairs[a].cumulative[i] \in Nat
    BY <1>5, <1>6, SynthPoolAssumption
       DEF TypeOK, ChainTypeOK, ConfigShareOracle, ShareOracle!Config
  <2>2. shareOracle' \in ShareOracle!OracleStates
    BY <1>6, <2>1
       DEF ConfigShareOracle, ShareOracle!Config, ShareOracle!ConfiguredOracle,
           ShareOracle!CumulativePrice, ShareOracle!OracleStates
  <2> QED
    BY <1>6, <2>2 DEF TypeOK, ConfigShareOracle, moneyVars, chainVars, ChainTypeOK
<1>7. ASSUME NEW caller \in Accounts, NEW a \in Pairs, NEW i \in SynthIndexes,
             NEW period \in PeriodChoices, ConfigSynthOracle(caller, a, i, period)
      PROVE  TypeOK'
  <2>1. /\ i \in 0 .. 1 /\ period \in Nat /\ now \in Nat
        /\ pairs[a].cumulative[i] \in Nat
    BY <1>5, <1>7, SynthPoolAssumption
       DEF TypeOK, ChainTypeOK, ConfigSynthOracle, SynthOracle!Config
  <2>2. synthOracle' \in SynthOracle!OracleStates
    BY <1>7, <2>1
       DEF ConfigSynthOracle, SynthOracle!Config, SynthOracle!ConfiguredOracle,
           SynthOracle!CumulativePrice, SynthOracle!OracleStates
  <2>3. epoch' \in SynthEpoch!EpochStates
    BY <1>7, <2>1
       DEF TypeOK, ConfigSynthOracle, SynthEpoch!ConfigOracle,
           SynthEpoch!EpochStates
  <2> QED
    BY <1>7, <2>2, <2>3
       DEF TypeOK, ConfigSynthOracle, moneyVars, chainVars, ChainTypeOK
<1>8. ASSUME NEW caller \in Accounts, NEW duration \in DurationChoices,
             NEW ceil \in CeilChoices, NEW rate \in MaxRateChoices,
             SetEpochConfig(caller, duration, ceil, rate)
      PROVE  TypeOK'
  <2>1. /\ duration \in Nat /\ ceil \in Nat \cup {None}
        /\ rate \in Nat \cup {None}
    BY SynthPoolAssumption
  <2>2. epoch' \in SynthEpoch!EpochStates
    BY <1>8, <2>1
       DEF TypeOK, SetEpochConfig, SynthEpoch!ConfigEpoch, SynthEpoch!EpochStates
  <2> QED
    BY <1>8, <2>2 DEF TypeOK, SetEpochConfig, moneyVars, chainVars, ChainTypeOK
<1>9. ASSUME NEW caller \in Accounts, NEW to \in NewOwners,
             OfferContract(caller, to)
      PROVE  TypeOK'
  <2>1. ownable' \in OwnableStates
    BY <1>9, SynthPoolAssumption
       DEF TypeOK, OfferContract, TransferOwnership, OwnableStates
  <2> QED
    BY <1>9, <2>1 DEF TypeOK, OfferContract, moneyVars, chainVars, ChainTypeOK
<1>10. ASSUME NEW caller \in NewOwners, AcceptContract(caller)
       PROVE  TypeOK'
  <2>1. ownable' \in OwnableStates
    BY <1>10, SynthPoolAssumption
       DEF TypeOK, AcceptContract, AcceptOwnership, OwnableStates
  <2> QED
    BY <1>10, <2>1 DEF TypeOK, AcceptContract, moneyVars, chainVars, ChainTypeOK
<1> QED
  BY <1>2, <1>3, <1>4, <1>6, <1>7, <1>8, <1>9, <1>10 DEF OwnerNext

\* So do blocks, trades and the holders of the tokens.
LEMMA EnvironmentTypeOK == TypeOK /\ EnvironmentNext => TypeOK'
<1> SUFFICES ASSUME TypeOK, EnvironmentNext PROVE TypeOK'
  OBVIOUS
<1>1. CASE Block
  BY <1>1, BlockType DEF TypeOK, Block, adminVars, moneyVars
<1>2. CASE PairTrade
  <2>1. pairs' \in [Pairs -> PairStates]
    BY <1>2, TradeType DEF TypeOK, PairTrade, Trade
  <2> QED
    BY <1>2, <2>1
       DEF TypeOK, PairTrade, Trade, adminVars, moneyVars, ChainTypeOK
<1>3. ASSUME NEW n \in HolderAmounts,
             \/ HolderBurnsSynth(n) \/ HolderSendsShare(n)
             \/ HolderSendsSynth(n) \/ HolderSendsCollateral(n)
      PROVE  TypeOK'
  <2>1. n \in Nat
    BY SynthPoolAssumption
  <2>2. CASE HolderBurnsSynth(n)
    <3>1. synth' \in Tokens
      BY <2>1, <2>2 DEF TypeOK, HolderBurnsSynth, BurnCirculating, Circulating, Tokens
    <3> QED
      BY <2>2, <3>1 DEF TypeOK, HolderBurnsSynth, adminVars, chainVars, ChainTypeOK
  <2>3. CASE HolderSendsShare(n)
    <3>1. share' \in Tokens
      BY <2>1, <2>3 DEF TypeOK, HolderSendsShare, ReceiveTokens, Circulating, Tokens
    <3> QED
      BY <2>3, <3>1 DEF TypeOK, HolderSendsShare, adminVars, chainVars, ChainTypeOK
  <2>4. CASE HolderSendsSynth(n)
    <3>1. synth' \in Tokens
      BY <2>1, <2>4 DEF TypeOK, HolderSendsSynth, ReceiveTokens, Circulating, Tokens
    <3> QED
      BY <2>4, <3>1 DEF TypeOK, HolderSendsSynth, adminVars, chainVars, ChainTypeOK
  <2>5. CASE HolderSendsCollateral(n)
    BY <2>1, <2>5
       DEF TypeOK, HolderSendsCollateral, adminVars, chainVars, ChainTypeOK
  <2> QED
    BY <1>3, <2>2, <2>3, <2>4, <2>5
<1> QED
  BY <1>1, <1>2, <1>3 DEF EnvironmentNext

\* Every step keeps the state well formed.
LEMMA NextType == TypeOK /\ [Next]_vars => TypeOK'
<1> SUFFICES ASSUME TypeOK, [Next]_vars PROVE TypeOK'
  OBVIOUS
<1>1. CASE UserNext
  <2>1. PICK u \in Accounts :
          \/ \E c \in MintAmounts, m \in MinOuts : Mint(u, c, m)
          \/ \E s \in RedeemAmounts, m, n \in MinOuts : Redeem(u, s, m, n)
          \/ Collect(u)
    BY <1>1 DEF UserNext
  <2>2. CASE \E c \in MintAmounts, m \in MinOuts : Mint(u, c, m)
    BY <2>2, MintTypeOK, SynthPoolAssumption
  <2>3. CASE \E s \in RedeemAmounts, m, n \in MinOuts : Redeem(u, s, m, n)
    BY <2>3, RedeemTypeOK, SynthPoolAssumption
  <2>4. CASE Collect(u)
    BY <2>4, CollectTypeOK
  <2> QED
    BY <2>1, <2>2, <2>3, <2>4
<1>2. CASE UNCHANGED vars
  BY <1>2 DEF TypeOK, vars, moneyVars, adminVars, chainVars, ChainTypeOK
<1> QED
  BY <1>1, <1>2, KeeperTypeOK, OwnerTypeOK, EnvironmentTypeOK DEF Next

\* Every reachable state is well formed: no subtraction of the bookkeeping
\* goes below zero, the ratio stays between 0 and 1, no token balance exceeds
\* its supply, whatever users, keepers, the owner and the traders do.
THEOREM TypeCorrect == Spec => []TypeOK
<1>1. Init => TypeOK
  BY InitType
<1>2. TypeOK /\ [Next]_vars => TypeOK'
  BY NextType
<1> QED
  BY <1>1, <1>2, PTL DEF Spec

(***************************************************************************)
(* Backing.  Backed is inductive when the owner never sets the floor of    *)
(* the ratio below 1: then no refresh can lower the ratio, a mint books no *)
(* more than the collateral it takes, and a redeem no more than the synth  *)
(* it takes out of circulation.                                            *)
(***************************************************************************)
FloorAtPar == \A value \in RatioChoices : value >= Precision

Backed ==
  /\ TypeOK
  /\ pool.min_collateral_ratio >= Precision
  /\ FullyBacked

\* A mint adds to the vault at least what it adds to the obligations.
LEMMA MintBacked ==
  ASSUME Backed, NEW u \in Accounts, NEW c \in Nat, NEW m \in Nat, Mint(u, c, m)
  PROVE  FullyBacked' /\ UNCHANGED pool.min_collateral_ratio
<1> DEFINE result == CalcMint(pool, c)
<1>1. /\ result \in [synth_out : Nat, buy_share_value : Nat, fee : Nat]
      /\ result.buy_share_value = 0
      /\ result.synth_out + result.fee <= c
  BY CalcMintType, CalcMintAtPar DEF Backed, FullyBacked, TypeOK, Mint
<1>2. /\ vault' = vault + c - result.buy_share_value
      /\ pool' = PoolAfterMint(pool, result)
      /\ synth' = synth
  BY DEF Mint
<1> HIDE DEF result
<1>3. /\ pool'.collateral_ratio = pool.collateral_ratio
      /\ pool'.min_collateral_ratio = pool.min_collateral_ratio
      /\ pool'.total_fee = pool.total_fee + result.fee
      /\ pool'.total_unclaimed_collateral = pool.total_unclaimed_collateral
      /\ pool'.total_unclaimed_synth =
           pool.total_unclaimed_synth + result.synth_out
  BY <1>2 DEF Backed, TypeOK, PoolConfigs, PoolAfterMint
<1> QED
  BY <1>1, <1>2, <1>3
     DEF Backed, FullyBacked, Obligations, Circulating, TypeOK, PoolConfigs, Tokens

\* A redeem adds to the claims and the fees at most what it takes out of
\* circulation.
LEMMA RedeemBacked ==
  ASSUME Backed, NEW u \in Accounts, NEW s \in Nat, NEW m \in Nat, NEW n \in Nat,
         Redeem(u, s, m, n)
  PROVE  FullyBacked' /\ UNCHANGED pool.min_collateral_ratio
<1> DEFINE price == ShareOracle!SpotPrice
           result == CalcRedeem(pool, s, price)
<1>1. price \in Nat
  BY RedeemPriceType DEF Backed
<1> HIDE DEF price
<1>2. /\ result \in [collateral_out : Nat, share_out : Nat, fee : Nat]
      /\ result.collateral_out + result.fee <= s
  BY <1>1, CalcRedeemType, CalcRedeemAtPar
     DEF Backed, FullyBacked, TypeOK, Redeem, price
<1>3. /\ vault' = vault
      /\ pool' = PoolAfterRedeem(pool, result)
      /\ synth' = ReceiveTokens(synth, s)
  BY DEF Redeem, price
<1> HIDE DEF result
<1>4. /\ pool'.collateral_ratio = pool.collateral_ratio
      /\ pool'.min_collateral_ratio = pool.min_collateral_ratio
      /\ pool'.total_fee = pool.total_fee + result.fee
      /\ pool'.total_unclaimed_collateral =
           pool.total_unclaimed_collateral + result.collateral_out
      /\ pool'.total_unclaimed_synth = pool.total_unclaimed_synth
  BY <1>3 DEF Backed, TypeOK, PoolConfigs, PoolAfterRedeem
<1>5. synth'.supply = synth.supply /\ synth'.held = synth.held + s
  BY <1>3 DEF Backed, TypeOK, Tokens, ReceiveTokens
<1> QED
  BY <1>2, <1>3, <1>4, <1>5
     DEF Backed, FullyBacked, Obligations, Circulating, TypeOK, PoolConfigs, Tokens

\* A payment moves a claim out of the vault or into circulation.
LEMMA CollectBacked ==
  ASSUME Backed, NEW u \in Accounts, Collect(u)
  PROVE  FullyBacked' /\ UNCHANGED pool.min_collateral_ratio
<1>1. user[u] \in UserInfos /\ CollectFits(pool, user[u])
  BY DEF Backed, TypeOK, Collect
<1>2. /\ vault' = vault - user[u].collateral_balance
      /\ pool' = PoolAfterCollect(pool, user[u])
      /\ synth'.supply = synth.supply + user[u].synth_balance
      /\ synth'.held = synth.held
  BY DEF Collect, Backed, TypeOK, Tokens, MintTokens
<1>3. /\ pool'.collateral_ratio = pool.collateral_ratio
      /\ pool'.min_collateral_ratio = pool.min_collateral_ratio
      /\ pool'.total_fee = pool.total_fee
      /\ pool'.total_unclaimed_collateral =
           pool.total_unclaimed_collateral - user[u].collateral_balance
      /\ pool'.total_unclaimed_synth =
           pool.total_unclaimed_synth - user[u].synth_balance
  BY <1>2 DEF Backed, TypeOK, PoolConfigs, PoolAfterCollect
<1> QED
  BY <1>1, <1>2, <1>3
     DEF Backed, FullyBacked, Obligations, Circulating, TypeOK, PoolConfigs,
         UserInfos, Tokens

\* No message of a keeper touches what backs the synth.
LEMMA KeeperBacked ==
  ASSUME Backed, KeeperNext
  PROVE  FullyBacked' /\ UNCHANGED pool.min_collateral_ratio
<1>1. CASE RefreshCollateralRatio
  <2>1. synthOracle.twap \in Nat /\ RefreshFits(pool, synthOracle.twap)
    BY <1>1 DEF Backed, TypeOK, RefreshCollateralRatio, SynthOracle!OracleStates
  <2>2. pool'.collateral_ratio \in pool.min_collateral_ratio .. Precision
    BY <1>1, <2>1, AfterRefreshType DEF Backed, TypeOK, RefreshCollateralRatio
  <2>3. /\ pool'.min_collateral_ratio = pool.min_collateral_ratio
        /\ pool'.total_fee = pool.total_fee
        /\ pool'.total_unclaimed_collateral = pool.total_unclaimed_collateral
        /\ pool'.total_unclaimed_synth = pool.total_unclaimed_synth
    BY <1>1 DEF Backed, TypeOK, RefreshCollateralRatio, PoolAfterRefresh, PoolConfigs
  <2>4. pool'.collateral_ratio = Precision
    BY <2>2, UnitAssumption DEF Backed, TypeOK, PoolConfigs
  <2> QED
    BY <1>1, <2>3, <2>4
       DEF Backed, FullyBacked, Obligations, Circulating, RefreshCollateralRatio
<1>2. CASE UpdateOracle \/ UpdateEpoch \/ BurnShare
  BY <1>2 DEF Backed, FullyBacked, Obligations, Circulating,
       UpdateOracle, UpdateEpoch, BurnShare, moneyVars
<1> QED
  BY <1>1, <1>2 DEF KeeperNext

\* The owner moves fees, pauses and the floor; the fees apply to later mints
\* and redeems only.
LEMMA OwnerBacked ==
  ASSUME FloorAtPar, Backed, OwnerNext
  PROVE  FullyBacked' /\ (pool.min_collateral_ratio >= Precision)'
<1> USE DEF Backed, FullyBacked, Obligations, Circulating
<1>1. ASSUME NEW caller \in Accounts, NEW minting_fee \in FeeChoices,
             NEW redemption_fee \in FeeChoices,
             SetFee(caller, minting_fee, redemption_fee)
      PROVE  FullyBacked' /\ (pool.min_collateral_ratio >= Precision)'
  BY <1>1 DEF SetFee, SetPool, TypeOK, PoolConfigs
<1>2. ASSUME NEW caller \in Accounts, NEW mint_paused \in PauseChoices,
             NEW redeem_paused \in PauseChoices,
             Toggle(caller, mint_paused, redeem_paused)
      PROVE  FullyBacked' /\ (pool.min_collateral_ratio >= Precision)'
  BY <1>2 DEF Toggle, SetPool, TypeOK, PoolConfigs
<1>3. ASSUME NEW caller \in Accounts, NEW value \in RatioChoices,
             SetMinCollateralRatio(caller, value)
      PROVE  FullyBacked' /\ (pool.min_collateral_ratio >= Precision)'
  BY <1>3 DEF SetMinCollateralRatio, SetPool, TypeOK, PoolConfigs, FloorAtPar
<1>4. CASE UNCHANGED moneyVars
  BY <1>4 DEF moneyVars
<1> QED
  BY <1>1, <1>2, <1>3, <1>4
     DEF OwnerNext, ConfigShareOracle, ConfigSynthOracle, SetEpochConfig,
         OfferContract, AcceptContract

\* Holders can only take synth out of circulation and add collateral.
LEMMA EnvironmentBacked ==
  ASSUME Backed, EnvironmentNext
  PROVE  FullyBacked' /\ UNCHANGED pool.min_collateral_ratio
<1> USE DEF Backed, FullyBacked, Obligations, Circulating
<1>1. CASE Block \/ PairTrade
  BY <1>1 DEF Block, PairTrade, moneyVars
<1>2. ASSUME NEW n \in HolderAmounts, HolderSendsShare(n)
      PROVE  FullyBacked' /\ UNCHANGED pool.min_collateral_ratio
  BY <1>2 DEF HolderSendsShare
<1>3. ASSUME NEW n \in HolderAmounts, HolderBurnsSynth(n)
      PROVE  FullyBacked' /\ UNCHANGED pool.min_collateral_ratio
  <2>1. n \in Nat
    BY SynthPoolAssumption
  <2>2. synth'.supply = synth.supply - n /\ synth'.held = synth.held
    BY <1>3 DEF HolderBurnsSynth, BurnCirculating, TypeOK, Tokens
  <2>3. pool' = pool /\ vault' = vault
    BY <1>3 DEF HolderBurnsSynth
  <2> QED
    BY <2>1, <2>2, <2>3 DEF TypeOK, PoolConfigs, Tokens
<1>4. ASSUME NEW n \in HolderAmounts, HolderSendsSynth(n)
      PROVE  FullyBacked' /\ UNCHANGED pool.min_collateral_ratio
  <2>1. n \in Nat
    BY SynthPoolAssumption
  <2>2. synth'.supply = synth.supply /\ synth'.held = synth.held + n
    BY <1>4 DEF HolderSendsSynth, ReceiveTokens, TypeOK, Tokens
  <2>3. pool' = pool /\ vault' = vault
    BY <1>4 DEF HolderSendsSynth
  <2> QED
    BY <2>1, <2>2, <2>3 DEF TypeOK, PoolConfigs, Tokens
<1>5. ASSUME NEW n \in HolderAmounts, HolderSendsCollateral(n)
      PROVE  FullyBacked' /\ UNCHANGED pool.min_collateral_ratio
  <2>1. n \in Nat
    BY SynthPoolAssumption
  <2>2. pool' = pool /\ synth' = synth /\ vault' = vault + n
    BY <1>5 DEF HolderSendsCollateral
  <2> QED
    BY <2>1, <2>2 DEF TypeOK, PoolConfigs, Tokens
<1> QED
  BY <1>1, <1>2, <1>3, <1>4, <1>5 DEF EnvironmentNext

\* While the floor of the ratio is at least 1, the collateral of the contract
\* covers its fees, its claims and every synth in circulation or still to be
\* collected: for every fee the owner may set, through every rounding, over
\* any number of users and steps.
THEOREM BackedAtPar ==
  ASSUME FloorAtPar
  PROVE  Spec => []FullyBacked
<1>1. Init => Backed
  <2> SUFFICES ASSUME Init PROVE Backed
    OBVIOUS
  <2>1. TypeOK
    BY InitType
  <2>2. /\ pool.collateral_ratio = Precision
        /\ pool.min_collateral_ratio = Precision
        /\ Obligations = vault
    BY <2>1 DEF Init, InitialPool, NewToken, Obligations, Circulating, TypeOK
  <2> QED
    BY <2>1, <2>2, UnitAssumption DEF Backed, FullyBacked, TypeOK
<1>2. TypeOK' /\ Backed /\ [Next]_vars => Backed'
  <2> SUFFICES ASSUME TypeOK', Backed, [Next]_vars
               PROVE  FullyBacked' /\ (pool.min_collateral_ratio >= Precision)'
    BY DEF Backed
  <2>1. CASE UserNext
    <3>1. PICK u \in Accounts :
            \/ \E c \in MintAmounts, m \in MinOuts : Mint(u, c, m)
            \/ \E s \in RedeemAmounts, m, n \in MinOuts : Redeem(u, s, m, n)
            \/ Collect(u)
      BY <2>1 DEF UserNext
    <3>2. CASE \E c \in MintAmounts, m \in MinOuts : Mint(u, c, m)
      BY <3>2, MintBacked, SynthPoolAssumption DEF Backed
    <3>3. CASE \E s \in RedeemAmounts, m, n \in MinOuts : Redeem(u, s, m, n)
      BY <3>3, RedeemBacked, SynthPoolAssumption DEF Backed
    <3>4. CASE Collect(u)
      BY <3>4, CollectBacked DEF Backed
    <3> QED
      BY <3>1, <3>2, <3>3, <3>4
  <2>2. CASE KeeperNext
    BY <2>2, KeeperBacked DEF Backed
  <2>3. CASE OwnerNext
    BY <2>3, OwnerBacked, FloorAtPar
  <2>4. CASE EnvironmentNext
    BY <2>4, EnvironmentBacked DEF Backed
  <2>5. CASE UNCHANGED vars
    BY <2>5 DEF Backed, FullyBacked, Obligations, Circulating, vars, moneyVars
  <2> QED
    BY <2>1, <2>2, <2>3, <2>4, <2>5 DEF Next
<1>3. Backed => FullyBacked
  BY DEF Backed
<1> QED
  BY <1>1, <1>2, <1>3, TypeCorrect, PTL DEF Spec

(***************************************************************************)
(* The totals.  The set of accounts need not be finite: at every moment    *)
(* finitely many users have been credited, and that is part of the         *)
(* inductive invariant.                                                    *)
(***************************************************************************)
SynthBalances == [u \in Accounts |-> user[u].synth_balance]
ShareBalances == [u \in Accounts |-> user[u].share_balance]
CollateralBalances == [u \in Accounts |-> user[u].collateral_balance]

Reconciled ==
  /\ Counts(Accounts, pool.total_unclaimed_synth, SynthBalances)
  /\ Counts(Accounts, pool.total_unclaimed_share, ShareBalances)
  /\ Counts(Accounts, pool.total_unclaimed_collateral, CollateralBalances)

\* Nothing is owed by a new contract.
LEMMA InitReconciled == Init => Reconciled
<1> SUFFICES ASSUME Init PROVE Reconciled
  OBVIOUS
<1> DEFINE nothing == [u \in Accounts |-> 0]
<1>1. /\ SynthBalances = nothing /\ ShareBalances = nothing
      /\ CollateralBalances = nothing
  BY DEF Init, DefaultUser, SynthBalances, ShareBalances, CollateralBalances
<1>2. /\ pool.total_unclaimed_synth = 0 /\ pool.total_unclaimed_share = 0
      /\ pool.total_unclaimed_collateral = 0
  BY DEF Init, InitialPool
<1>3. Counts(Accounts, 0, nothing)
  BY TotalOfNothing DEF Counts
<1> QED
  BY <1>1, <1>2, <1>3 DEF Reconciled

\* A step that replaces the record of one user and moves the three totals by
\* the differences keeps them right.
LEMMA ChangeReconciled ==
  ASSUME TypeOK, Reconciled, NEW u \in Accounts, NEW info \in UserInfos,
         user' = [user EXCEPT ![u] = info],
         pool'.total_unclaimed_synth =
           pool.total_unclaimed_synth + info.synth_balance - user[u].synth_balance,
         pool'.total_unclaimed_share =
           pool.total_unclaimed_share + info.share_balance - user[u].share_balance,
         pool'.total_unclaimed_collateral =
           pool.total_unclaimed_collateral + info.collateral_balance
             - user[u].collateral_balance
  PROVE  Reconciled'
<1>1. /\ info.synth_balance \in Nat /\ info.share_balance \in Nat
      /\ info.collateral_balance \in Nat
  BY DEF UserInfos
<1>2. /\ SynthBalances' = [SynthBalances EXCEPT ![u] = info.synth_balance]
      /\ ShareBalances' = [ShareBalances EXCEPT ![u] = info.share_balance]
      /\ CollateralBalances' =
           [CollateralBalances EXCEPT ![u] = info.collateral_balance]
  BY DEF TypeOK, SynthBalances, ShareBalances, CollateralBalances
<1>3. /\ SynthBalances[u] = user[u].synth_balance
      /\ ShareBalances[u] = user[u].share_balance
      /\ CollateralBalances[u] = user[u].collateral_balance
  BY DEF SynthBalances, ShareBalances, CollateralBalances
<1>4. Counts(Accounts, pool.total_unclaimed_synth + info.synth_balance - SynthBalances[u],
             [SynthBalances EXCEPT ![u] = info.synth_balance])
  BY <1>1, CountsAfter DEF Reconciled
<1>5. Counts(Accounts, pool.total_unclaimed_share + info.share_balance - ShareBalances[u],
             [ShareBalances EXCEPT ![u] = info.share_balance])
  BY <1>1, CountsAfter DEF Reconciled
<1>6. Counts(Accounts, pool.total_unclaimed_collateral + info.collateral_balance
               - CollateralBalances[u],
             [CollateralBalances EXCEPT ![u] = info.collateral_balance])
  BY <1>1, CountsAfter DEF Reconciled
<1>7. /\ Counts(Accounts, pool'.total_unclaimed_synth, SynthBalances')
      /\ Counts(Accounts, pool'.total_unclaimed_share, ShareBalances')
      /\ Counts(Accounts, pool'.total_unclaimed_collateral, CollateralBalances')
  BY <1>2, <1>3, <1>4, <1>5, <1>6
<1> QED
  BY <1>7 DEF Reconciled, Counts

\* mint credits synth to the user and to the pool.
LEMMA MintReconciled ==
  ASSUME TypeOK, Reconciled, NEW u \in Accounts, NEW c \in Nat, NEW m \in Nat,
         Mint(u, c, m)
  PROVE  Reconciled'
<1> DEFINE result == CalcMint(pool, c)
           info == UserAfterMint(user[u], height, result)
<1>1. result \in [synth_out : Nat, buy_share_value : Nat, fee : Nat]
  BY CalcMintType DEF TypeOK, Mint
<1>2. pool' = PoolAfterMint(pool, result) /\ user' = [user EXCEPT ![u] = info]
  BY DEF Mint
<1> HIDE DEF result
<1>3. user[u] \in UserInfos /\ pool \in PoolConfigs /\ height \in Nat
  BY DEF TypeOK, ChainTypeOK
<1>4. /\ info \in UserInfos
      /\ info.synth_balance = user[u].synth_balance + result.synth_out
      /\ info.share_balance = user[u].share_balance
      /\ info.collateral_balance = user[u].collateral_balance
  <2>1. info \in UserInfos
    BY <1>1, <1>3, AfterMintType
  <2>2. /\ info.synth_balance = user[u].synth_balance + result.synth_out
        /\ info.share_balance = user[u].share_balance
        /\ info.collateral_balance = user[u].collateral_balance
    BY <1>3 DEF UserAfterMint, UserInfos
  <2> QED
    BY <2>1, <2>2
<1>5. /\ pool'.total_unclaimed_synth = pool.total_unclaimed_synth + result.synth_out
      /\ pool'.total_unclaimed_share = pool.total_unclaimed_share
      /\ pool'.total_unclaimed_collateral = pool.total_unclaimed_collateral
  BY <1>2, <1>3 DEF PoolAfterMint, PoolConfigs
<1> HIDE DEF info
<1>6. /\ pool'.total_unclaimed_synth =
           pool.total_unclaimed_synth + info.synth_balance - user[u].synth_balance
      /\ pool'.total_unclaimed_share =
           pool.total_unclaimed_share + info.share_balance - user[u].share_balance
      /\ pool'.total_unclaimed_collateral =
           pool.total_unclaimed_collateral + info.collateral_balance
             - user[u].collateral_balance
  BY <1>1, <1>3, <1>4, <1>5 DEF UserInfos, PoolConfigs
<1> QED
  BY <1>2, <1>4, <1>6, ChangeReconciled

\* redeem credits collateral and shares to the user and to the pool.
LEMMA RedeemReconciled ==
  ASSUME TypeOK, Reconciled, NEW u \in Accounts, NEW s \in Nat, NEW m \in Nat,
         NEW n \in Nat, Redeem(u, s, m, n)
  PROVE  Reconciled'
<1> DEFINE price == ShareOracle!SpotPrice
           result == CalcRedeem(pool, s, price)
           info == UserAfterRedeem(user[u], height, result)
<1>1. price \in Nat
  BY RedeemPriceType
<1>2. /\ CalcRedeemFits(pool, price)
      /\ pool' = PoolAfterRedeem(pool, result)
      /\ user' = [user EXCEPT ![u] = info]
  BY DEF Redeem
<1> HIDE DEF price
<1>3. result \in [collateral_out : Nat, share_out : Nat, fee : Nat]
  BY <1>1, <1>2, CalcRedeemType DEF TypeOK
<1> HIDE DEF result
<1>4. user[u] \in UserInfos /\ pool \in PoolConfigs /\ height \in Nat
  BY DEF TypeOK, ChainTypeOK
<1>5. /\ info \in UserInfos
      /\ info.synth_balance = user[u].synth_balance
      /\ info.share_balance = user[u].share_balance + result.share_out
      /\ info.collateral_balance = user[u].collateral_balance + result.collateral_out
  <2>1. info \in UserInfos
    BY <1>3, <1>4, AfterRedeemType
  <2>2. /\ info.synth_balance = user[u].synth_balance
        /\ info.share_balance = user[u].share_balance + result.share_out
        /\ info.collateral_balance = user[u].collateral_balance + result.collateral_out
    BY <1>4 DEF UserAfterRedeem, UserInfos
  <2> QED
    BY <2>1, <2>2
<1>6. /\ pool'.total_unclaimed_synth = pool.total_unclaimed_synth
      /\ pool'.total_unclaimed_share = pool.total_unclaimed_share + result.share_out
      /\ pool'.total_unclaimed_collateral =
           pool.total_unclaimed_collateral + result.collateral_out
  BY <1>2, <1>4 DEF PoolAfterRedeem, PoolConfigs
<1> HIDE DEF info
<1>7. /\ pool'.total_unclaimed_synth =
           pool.total_unclaimed_synth + info.synth_balance - user[u].synth_balance
      /\ pool'.total_unclaimed_share =
           pool.total_unclaimed_share + info.share_balance - user[u].share_balance
      /\ pool'.total_unclaimed_collateral =
           pool.total_unclaimed_collateral + info.collateral_balance
             - user[u].collateral_balance
  <2>1. /\ user[u].synth_balance \in Nat /\ user[u].share_balance \in Nat
        /\ user[u].collateral_balance \in Nat
        /\ pool.total_unclaimed_synth \in Nat /\ pool.total_unclaimed_share \in Nat
        /\ pool.total_unclaimed_collateral \in Nat
    BY <1>4 DEF UserInfos, PoolConfigs
  <2> QED
    BY <1>3, <1>5, <1>6, <2>1
<1> QED
  BY <1>2, <1>5, <1>7, ChangeReconciled

\* collect takes the user's three balances out of the totals.
LEMMA CollectReconciled ==
  ASSUME TypeOK, Reconciled, NEW u \in Accounts, Collect(u)
  PROVE  Reconciled'
<1> DEFINE info == UserAfterCollect(user[u])
<1>1. /\ pool' = PoolAfterCollect(pool, user[u])
      /\ user' = [user EXCEPT ![u] = info]
  BY DEF Collect
<1>2. user[u] \in UserInfos /\ pool \in PoolConfigs
  BY DEF TypeOK
<1>3. /\ info \in UserInfos
      /\ info.synth_balance = 0 /\ info.share_balance = 0
      /\ info.collateral_balance = 0
  BY <1>2 DEF UserAfterCollect, UserInfos
<1>4. /\ pool'.total_unclaimed_synth =
           pool.total_unclaimed_synth - user[u].synth_balance
      /\ pool'.total_unclaimed_share =
           pool.total_unclaimed_share - user[u].share_balance
      /\ pool'.total_unclaimed_collateral =
           pool.total_unclaimed_collateral - user[u].collateral_balance
  BY <1>1, <1>2 DEF PoolAfterCollect, PoolConfigs
<1> HIDE DEF info
<1>5. /\ pool'.total_unclaimed_synth =
           pool.total_unclaimed_synth + info.synth_balance - user[u].synth_balance
      /\ pool'.total_unclaimed_share =
           pool.total_unclaimed_share + info.share_balance - user[u].share_balance
      /\ pool'.total_unclaimed_collateral =
           pool.total_unclaimed_collateral + info.collateral_balance
             - user[u].collateral_balance
  BY <1>2, <1>3, <1>4 DEF UserInfos, PoolConfigs
<1> QED
  BY <1>1, <1>3, <1>5, ChangeReconciled

\* Every other message leaves the users and the totals alone.
LEMMA OthersReconciled ==
  ASSUME TypeOK, Reconciled, KeeperNext \/ OwnerNext \/ EnvironmentNext
  PROVE  Reconciled'
<1>1. /\ UNCHANGED user
      /\ UNCHANGED pool.total_unclaimed_synth
      /\ UNCHANGED pool.total_unclaimed_share
      /\ UNCHANGED pool.total_unclaimed_collateral
  <2>1. CASE KeeperNext
    BY <2>1 DEF TypeOK, PoolConfigs, KeeperNext, RefreshCollateralRatio,
         PoolAfterRefresh, UpdateOracle, UpdateEpoch, BurnShare, moneyVars
  <2>2. CASE OwnerNext
    BY <2>2 DEF TypeOK, PoolConfigs, OwnerNext, SetFee, Toggle,
         SetMinCollateralRatio, SetPool, ConfigShareOracle, ConfigSynthOracle,
         SetEpochConfig, OfferContract, AcceptContract, moneyVars
  <2>3. CASE EnvironmentNext
    BY <2>3 DEF EnvironmentNext, Block, PairTrade, HolderBurnsSynth,
         HolderSendsShare, HolderSendsSynth, HolderSendsCollateral, moneyVars
  <2> QED
    BY <2>1, <2>2, <2>3
<1> QED
  BY <1>1 DEF Reconciled, Counts, SynthBalances, ShareBalances, CollateralBalances

\* Finitely many users are owed anything, and the totals are their sums.
LEMMA AlwaysReconciled == Spec => []Reconciled
<1>1. Init => Reconciled
  BY InitReconciled
<1>2. TypeOK /\ Reconciled /\ [Next]_vars => Reconciled'
  <2> SUFFICES ASSUME TypeOK, Reconciled, [Next]_vars PROVE Reconciled'
    OBVIOUS
  <2>1. CASE UserNext
    <3>1. PICK u \in Accounts :
            \/ \E c \in MintAmounts, m \in MinOuts : Mint(u, c, m)
            \/ \E s \in RedeemAmounts, m, n \in MinOuts : Redeem(u, s, m, n)
            \/ Collect(u)
      BY <2>1 DEF UserNext
    <3>2. CASE \E c \in MintAmounts, m \in MinOuts : Mint(u, c, m)
      BY <3>2, MintReconciled, SynthPoolAssumption
    <3>3. CASE \E s \in RedeemAmounts, m, n \in MinOuts : Redeem(u, s, m, n)
      BY <3>3, RedeemReconciled, SynthPoolAssumption
    <3>4. CASE Collect(u)
      BY <3>4, CollectReconciled
    <3> QED
      BY <3>1, <3>2, <3>3, <3>4
  <2>2. CASE UNCHANGED vars
    BY <2>2 DEF Reconciled, Counts, SynthBalances, ShareBalances,
         CollateralBalances, vars, moneyVars
  <2> QED
    BY <2>1, <2>2, OthersReconciled DEF Next
<1> QED
  BY <1>1, <1>2, TypeCorrect, PTL DEF Spec

\* The running totals of the pool are the sums of the users' balances,
\* whatever the order in which any number of users mint, redeem and collect.
THEOREM TotalsAreSums == Spec => []UnclaimedTotals
<1>1. Reconciled => UnclaimedTotals
  BY DEF Reconciled, Counts, UnclaimedTotals, SynthBalances, ShareBalances,
     CollateralBalances
<1> QED
  BY <1>1, AlwaysReconciled, PTL

\* No subtraction of collect (pool.rs:157) can abort it, for any user.
THEOREM ClaimsAlwaysFit == Spec => [](\A u \in Accounts : CollectFits(pool, user[u]))
<1>1. Reconciled => \A u \in Accounts : CollectFits(pool, user[u])
  <2> SUFFICES ASSUME Reconciled, NEW u \in Accounts
               PROVE  CollectFits(pool, user[u])
    OBVIOUS
  <2>1. /\ SynthBalances[u] <= pool.total_unclaimed_synth
        /\ ShareBalances[u] <= pool.total_unclaimed_share
        /\ CollateralBalances[u] <= pool.total_unclaimed_collateral
    BY CountsCovers DEF Reconciled
  <2> QED
    BY <2>1 DEF CollectFits, SynthBalances, ShareBalances, CollateralBalances
<1> QED
  BY <1>1, AlwaysReconciled, PTL

\* At par nobody's payment is refused for lack of money either: the vault
\* covers the collateral of every claim, so once the block of the claim is
\* over every guard of Collect holds.
THEOREM ClaimsPayableAtPar ==
  ASSUME FloorAtPar
  PROVE  Spec => [](\A u \in Accounts :
                      /\ CollectFits(pool, user[u])
                      /\ user[u].collateral_balance <= vault)
<1>1. TypeOK /\ FullyBacked /\ (\A u \in Accounts : CollectFits(pool, user[u]))
        => \A u \in Accounts : /\ CollectFits(pool, user[u])
                               /\ user[u].collateral_balance <= vault
  <2> SUFFICES ASSUME TypeOK, FullyBacked, NEW u \in Accounts,
                      CollectFits(pool, user[u])
               PROVE  user[u].collateral_balance <= vault
    OBVIOUS
  <2> QED
    BY DEF TypeOK, PoolConfigs, UserInfos, Tokens, FullyBacked, Obligations,
       Circulating, CollectFits
<1> QED
  BY <1>1, TypeCorrect, BackedAtPar, ClaimsAlwaysFit, PTL

(***************************************************************************)
(* SynthPool implements ClaimLedger: initial states map to initial states, *)
(* and every step maps to a step of the ledger or to a stutter.            *)
(***************************************************************************)
\* No user is stamped with a block that has not come yet.
StampsInPast == \A u \in Accounts : user[u].last_action_block <= height

claims == [u \in Accounts |-> Claim(u)]
fresh == {u \in Accounts : user[u].last_action_block = height}

\* A step that raises the balances of one user and stamps it is a Credit.
LEMMA CreditStep ==
  ASSUME TypeOK, TypeOK', NEW u \in Accounts, NEW info \in UserInfos,
         user' = [user EXCEPT ![u] = info],
         info.last_action_block = height,
         info.synth_balance >= user[u].synth_balance,
         info.share_balance >= user[u].share_balance,
         info.collateral_balance >= user[u].collateral_balance,
         height' = height, vault' >= vault,
         synth'.supply = synth.supply, share'.supply <= share.supply
  PROVE  Ledger!Credit(u)
<1>1. /\ user'[u] = info
      /\ \A v \in Accounts \ {u} : user'[v] = user[v]
  BY DEF TypeOK
<1>2. \A k \in Ledger!Kinds : claims'[u][k] >= claims[u][k]
  BY <1>1 DEF claims, Claim, Ledger!Kinds
<1>3. \A v \in Accounts \ {u} : claims'[v] = claims[v]
  BY <1>1 DEF claims, Claim
<1>4. fresh' = fresh \cup {u}
  BY <1>1 DEF fresh
<1> QED
  BY <1>2, <1>3, <1>4 DEF Ledger!Credit, claims, fresh

\* A collect is a payment: the claim is paid in full, and not in its block.
LEMMA CollectStep ==
  ASSUME TypeOK, TypeOK', NEW u \in Accounts, Collect(u)
  PROVE  Ledger!Pay(u)
<1>1. user' = [user EXCEPT ![u] = UserAfterCollect(user[u])]
  BY DEF Collect
<1>2. /\ user'[u] = UserAfterCollect(user[u])
      /\ \A v \in Accounts \ {u} : user'[v] = user[v]
      /\ \A v \in Accounts :
           user'[v].last_action_block = user[v].last_action_block
  BY <1>1 DEF TypeOK, UserInfos, UserAfterCollect
<1>3. claims' = [claims EXCEPT ![u] = Ledger!NoClaim]
  <2>1. UserAfterCollect(user[u]).synth_balance = 0
        /\ UserAfterCollect(user[u]).share_balance = 0
        /\ UserAfterCollect(user[u]).collateral_balance = 0
    BY DEF TypeOK, UserInfos, UserAfterCollect
  <2>2. Claim(u)' = Ledger!NoClaim
    BY <1>2, <2>1 DEF Claim, Ledger!NoClaim, Ledger!Kinds
  <2> QED
    BY <1>2, <2>2 DEF claims, Claim
<1>4. u \notin fresh /\ fresh' = fresh
  BY <1>2 DEF fresh, Collect, Collectable, chainVars, TypeOK, ChainTypeOK, UserInfos
<1>5. /\ claims[u]["synth"] = user[u].synth_balance
      /\ claims[u]["share"] = user[u].share_balance
      /\ claims[u]["collateral"] = user[u].collateral_balance
  BY DEF claims, Claim
<1>6. /\ vault' = vault - user[u].collateral_balance
      /\ synth'.supply = synth.supply + user[u].synth_balance
      /\ share'.supply = share.supply + user[u].share_balance
  BY DEF Collect, TypeOK, Tokens, MintTokens
<1> QED
  BY <1>3, <1>4, <1>5, <1>6 DEF Ledger!Pay, claims, fresh

\* A mint credits its sender; the shares it buys back are burnt.
LEMMA MintStep ==
  ASSUME TypeOK, TypeOK', NEW u \in Accounts, NEW c \in Nat, NEW m \in Nat,
         Mint(u, c, m)
  PROVE  Ledger!Credit(u)
<1> DEFINE result == CalcMint(pool, c)
           info == UserAfterMint(user[u], height, result)
<1>1. /\ result \in [synth_out : Nat, buy_share_value : Nat, fee : Nat]
      /\ result.buy_share_value <= c
  BY CalcMintType DEF TypeOK, Mint
<1>2. /\ user' = [user EXCEPT ![u] = info]
      /\ height' = height /\ synth' = synth
      /\ vault' = vault + c - result.buy_share_value
      /\ BuyShareAndBurn(result.buy_share_value)
  BY DEF Mint
<1> HIDE DEF result
<1>3. user[u] \in UserInfos /\ height \in Nat /\ vault \in Nat
  BY DEF TypeOK, ChainTypeOK
<1>4. info \in UserInfos
  BY <1>1, <1>3, AfterMintType DEF TypeOK
<1>5. /\ info.last_action_block = height
      /\ info.synth_balance = user[u].synth_balance + result.synth_out
      /\ info.share_balance = user[u].share_balance
      /\ info.collateral_balance = user[u].collateral_balance
  BY <1>3 DEF UserAfterMint, UserInfos
<1> HIDE DEF info
<1>6. /\ info.synth_balance >= user[u].synth_balance
      /\ info.share_balance >= user[u].share_balance
      /\ info.collateral_balance >= user[u].collateral_balance
  BY <1>1, <1>3, <1>5 DEF UserInfos
<1>7. vault' >= vault
  BY <1>1, <1>2, <1>3
<1>8. share'.supply <= share.supply
  <2>1. CASE UNCHANGED share
    BY <2>1 DEF TypeOK, Tokens
  <2>2. ASSUME NEW n \in SwapOutputs, share' = BurnHeld(ReceiveTokens(share, n))
        PROVE  share'.supply <= share.supply
    <3>1. n \in Nat
      BY SynthPoolAssumption
    <3>2. share'.supply = share.supply - (share.held + n)
      BY <2>2 DEF TypeOK, Tokens, BurnHeld, ReceiveTokens
    <3> QED
      BY <3>1, <3>2 DEF TypeOK, Tokens
  <2> QED
    BY <1>2, <2>1, <2>2 DEF BuyShareAndBurn
<1>9. /\ synth'.supply = synth.supply /\ height' = height
      /\ user' = [user EXCEPT ![u] = info]
  BY <1>2 DEF info
<1>10. info.last_action_block = height
  BY <1>5
<1> QED
  BY <1>4, <1>6, <1>7, <1>8, <1>9, <1>10, CreditStep

\* A redeem credits its sender and pays nothing.
LEMMA RedeemStep ==
  ASSUME TypeOK, TypeOK', NEW u \in Accounts, NEW s \in Nat, NEW m \in Nat,
         NEW n \in Nat, Redeem(u, s, m, n)
  PROVE  Ledger!Credit(u)
<1> DEFINE price == ShareOracle!SpotPrice
           result == CalcRedeem(pool, s, price)
           info == UserAfterRedeem(user[u], height, result)
<1>1. price \in Nat
  BY RedeemPriceType
<1>2. result \in [collateral_out : Nat, share_out : Nat, fee : Nat]
  BY <1>1, CalcRedeemType DEF TypeOK, Redeem
<1>3. /\ user' = [user EXCEPT ![u] = info]
      /\ height' = height /\ vault' = vault /\ share' = share
      /\ synth' = ReceiveTokens(synth, s)
  BY DEF Redeem, chainVars
<1> HIDE DEF price, result
<1>4. user[u] \in UserInfos /\ height \in Nat /\ vault \in Nat
  BY DEF TypeOK, ChainTypeOK
<1>5. info \in UserInfos
  BY <1>2, <1>4, AfterRedeemType DEF TypeOK
<1>6. /\ info.last_action_block = height
      /\ info.synth_balance = user[u].synth_balance
      /\ info.share_balance = user[u].share_balance + result.share_out
      /\ info.collateral_balance =
           user[u].collateral_balance + result.collateral_out
  BY <1>4 DEF UserAfterRedeem, UserInfos
<1> HIDE DEF info
<1>7. /\ info.synth_balance >= user[u].synth_balance
      /\ info.share_balance >= user[u].share_balance
      /\ info.collateral_balance >= user[u].collateral_balance
  BY <1>2, <1>4, <1>6 DEF UserInfos
<1>8. synth'.supply = synth.supply /\ share'.supply <= share.supply
  BY <1>3 DEF TypeOK, Tokens, ReceiveTokens
<1>9. /\ user' = [user EXCEPT ![u] = info]
      /\ height' = height /\ vault' >= vault
  BY <1>3, <1>4 DEF info
<1>10. info.last_action_block = height
  BY <1>6
<1> QED
  BY <1>5, <1>7, <1>8, <1>9, <1>10, CreditStep

\* A new block makes every claim collectable.
LEMMA BlockStep ==
  ASSUME TypeOK, StampsInPast, Block
  PROVE  Ledger!NewBlock
<1>1. /\ height' = height + 1
      /\ user' = user /\ vault' = vault /\ synth' = synth /\ share' = share
  BY DEF Block, NextBlock, moneyVars
<1>2. fresh' = {}
  BY <1>1 DEF fresh, StampsInPast, TypeOK, ChainTypeOK, UserInfos
<1>3. claims' = claims
  BY <1>1 DEF claims, Claim
<1> QED
  BY <1>1, <1>2, <1>3 DEF Ledger!NewBlock, claims, fresh

\* Any other step leaves users and blocks alone, pays nothing and issues nothing.
LEMMA OtherStep ==
  ASSUME TypeOK, TypeOK', user' = user, height' = height, vault' >= vault,
         synth'.supply <= synth.supply, share'.supply <= share.supply
  PROVE  Ledger!GiveUp
<1>1. claims' = claims /\ fresh' = fresh
  BY DEF claims, fresh, Claim
<1> QED
  BY <1>1 DEF Ledger!GiveUp, claims, fresh

\* Neither a keeper nor the owner writes a claim or issues a token.
LEMMA AdministrationStep ==
  ASSUME TypeOK, TypeOK', KeeperNext \/ OwnerNext
  PROVE  Ledger!GiveUp
<1>1. CASE KeeperNext
  <2>1. user' = user /\ height' = height /\ vault' = vault /\ synth' = synth
    BY <1>1 DEF KeeperNext, RefreshCollateralRatio, UpdateOracle, UpdateEpoch,
         BurnShare, moneyVars, chainVars
  <2>2. share' = share \/ share' = BurnHeld(share)
    BY <1>1 DEF KeeperNext, RefreshCollateralRatio, UpdateOracle, UpdateEpoch,
         BurnShare, moneyVars
  <2>3. /\ share'.supply <= share.supply /\ synth'.supply <= synth.supply
        /\ vault' >= vault
    BY <2>1, <2>2 DEF BurnHeld, TypeOK, Tokens
  <2> QED
    BY <2>1, <2>3, OtherStep
<1>2. CASE OwnerNext
  <2>1. /\ user' = user /\ height' = height /\ vault' = vault
        /\ synth' = synth /\ share' = share
    BY <1>2 DEF OwnerNext, SetFee, Toggle, SetMinCollateralRatio, SetPool,
         ConfigShareOracle, ConfigSynthOracle, SetEpochConfig,
         OfferContract, AcceptContract,
         moneyVars, chainVars
  <2>2. /\ share'.supply <= share.supply /\ synth'.supply <= synth.supply
        /\ vault' >= vault
    BY <2>1 DEF TypeOK, Tokens
  <2> QED
    BY <2>1, <2>2, OtherStep
<1> QED
  BY <1>1, <1>2

\* Traders and holders write no claim and issue no token.
LEMMA EnvironmentStep ==
  ASSUME TypeOK, TypeOK', StampsInPast, EnvironmentNext
  PROVE  Ledger!GiveUp \/ Ledger!NewBlock
<1>1. CASE Block
  BY <1>1, BlockStep
<1>2. CASE PairTrade
  <2>1. /\ user' = user /\ height' = height /\ vault' = vault
        /\ synth' = synth /\ share' = share
    BY <1>2 DEF PairTrade, Trade, moneyVars
  <2>2. /\ share'.supply <= share.supply /\ synth'.supply <= synth.supply
        /\ vault' >= vault
    BY <2>1 DEF TypeOK, Tokens
  <2> QED
    BY <2>1, <2>2, OtherStep
<1>3. ASSUME NEW n \in HolderAmounts,
             \/ HolderBurnsSynth(n) \/ HolderSendsShare(n)
             \/ HolderSendsSynth(n) \/ HolderSendsCollateral(n)
      PROVE  Ledger!GiveUp
  <2>1. n \in Nat
    BY SynthPoolAssumption
  <2>2. user' = user /\ height' = height
    BY <1>3 DEF HolderBurnsSynth, HolderSendsShare, HolderSendsSynth,
         HolderSendsCollateral, chainVars
  <2>3. /\ synth' \in {synth, BurnCirculating(synth, n), ReceiveTokens(synth, n)}
        /\ share' = share \/ share' = ReceiveTokens(share, n)
        /\ vault' = vault \/ vault' = vault + n
    BY <1>3 DEF HolderBurnsSynth, HolderSendsShare, HolderSendsSynth,
         HolderSendsCollateral
  <2>4. /\ share'.supply <= share.supply /\ synth'.supply <= synth.supply
        /\ vault' >= vault
    BY <2>1, <2>3 DEF TypeOK, Tokens, BurnCirculating, ReceiveTokens
  <2> QED
    BY <2>2, <2>4, OtherStep
<1> QED
  BY <1>1, <1>2, <1>3 DEF EnvironmentNext

\* Every step of the pool is a step of the ledger or a stutter.
LEMMA StepSimulation ==
  ASSUME TypeOK, TypeOK', StampsInPast, [Next]_vars
  PROVE  [Ledger!LedgerNext]_(Ledger!ledgerVars)
<1>1. CASE UserNext
  <2>1. PICK u \in Accounts :
          \/ \E c \in MintAmounts, m \in MinOuts : Mint(u, c, m)
          \/ \E s \in RedeemAmounts, m, n \in MinOuts : Redeem(u, s, m, n)
          \/ Collect(u)
    BY <1>1 DEF UserNext
  <2>2. CASE \E c \in MintAmounts, m \in MinOuts : Mint(u, c, m)
    BY <2>2, MintStep, SynthPoolAssumption DEF Ledger!LedgerNext
  <2>3. CASE \E s \in RedeemAmounts, m, n \in MinOuts : Redeem(u, s, m, n)
    BY <2>3, RedeemStep, SynthPoolAssumption DEF Ledger!LedgerNext
  <2>4. CASE Collect(u)
    BY <2>4, CollectStep DEF Ledger!LedgerNext
  <2> QED
    BY <2>1, <2>2, <2>3, <2>4
<1>2. CASE KeeperNext \/ OwnerNext
  BY <1>2, AdministrationStep DEF Ledger!LedgerNext
<1>3. CASE EnvironmentNext
  BY <1>3, EnvironmentStep DEF Ledger!LedgerNext
<1>4. CASE UNCHANGED vars
  BY <1>4 DEF vars, moneyVars, chainVars, Ledger!ledgerVars, Claim
<1> QED
  BY <1>1, <1>2, <1>3, <1>4 DEF Next

\* A stamp is the height of the block it was written in.
LEMMA StampsStep ==
  ASSUME TypeOK, TypeOK', StampsInPast, [Next]_vars
  PROVE  StampsInPast'
<1>1. /\ height \in Nat /\ height' \in Nat
      /\ \A v \in Accounts : user[v] \in UserInfos
  BY DEF TypeOK, ChainTypeOK
<1>2. ASSUME NEW u \in Accounts, NEW info \in UserInfos,
             user' = [user EXCEPT ![u] = info], height' = height,
             info.last_action_block <= height
      PROVE  StampsInPast'
  <2>1. \A v \in Accounts : user'[v] = IF v = u THEN info ELSE user[v]
    BY <1>2 DEF TypeOK
  <2> QED
    BY <1>2, <2>1 DEF StampsInPast
<1>3. ASSUME NEW u \in Accounts, NEW c \in Nat, NEW m \in Nat, Mint(u, c, m)
      PROVE  StampsInPast'
  <2> DEFINE info == UserAfterMint(user[u], height, CalcMint(pool, c))
  <2>1. user' = [user EXCEPT ![u] = info] /\ height' = height
    BY <1>3 DEF Mint
  <2>2. info = user'[u] /\ info.last_action_block = height
    BY <2>1, <1>1 DEF TypeOK, UserAfterMint, UserInfos
  <2> HIDE DEF info
  <2>3. info \in UserInfos /\ info.last_action_block <= height
    BY <1>1, <2>2 DEF TypeOK
  <2> QED
    BY <1>2, <2>1, <2>3
<1>4. ASSUME NEW u \in Accounts, NEW s \in Nat, NEW m \in Nat, NEW n \in Nat,
             Redeem(u, s, m, n)
      PROVE  StampsInPast'
  <2> DEFINE info == UserAfterRedeem(user[u], height,
                       CalcRedeem(pool, s, ShareOracle!SpotPrice))
  <2>1. user' = [user EXCEPT ![u] = info] /\ height' = height
    BY <1>4 DEF Redeem, chainVars
  <2>2. info = user'[u] /\ info.last_action_block = height
    BY <2>1, <1>1 DEF TypeOK, UserAfterRedeem, UserInfos
  <2> HIDE DEF info
  <2>3. info \in UserInfos /\ info.last_action_block <= height
    BY <1>1, <2>2 DEF TypeOK
  <2> QED
    BY <1>2, <2>1, <2>3
<1>5. ASSUME NEW u \in Accounts, Collect(u)
      PROVE  StampsInPast'
  <2> DEFINE info == UserAfterCollect(user[u])
  <2>1. user' = [user EXCEPT ![u] = info] /\ height' = height
    BY <1>5 DEF Collect, chainVars
  <2>2. info = user'[u] /\ info.last_action_block = user[u].last_action_block
    BY <2>1, <1>1 DEF TypeOK, UserAfterCollect, UserInfos
  <2> HIDE DEF info
  <2>3. info \in UserInfos /\ info.last_action_block <= height
    BY <1>1, <2>2 DEF TypeOK, StampsInPast
  <2> QED
    BY <1>2, <2>1, <2>3
<1>6. CASE UserNext
  <2>1. PICK u \in Accounts :
          \/ \E c \in MintAmounts, m \in MinOuts : Mint(u, c, m)
          \/ \E s \in RedeemAmounts, m, n \in MinOuts : Redeem(u, s, m, n)
          \/ Collect(u)
    BY <1>6 DEF UserNext
  <2>2. CASE \E c \in MintAmounts, m \in MinOuts : Mint(u, c, m)
    BY <2>2, <1>3, SynthPoolAssumption
  <2>3. CASE \E s \in RedeemAmounts, m, n \in MinOuts : Redeem(u, s, m, n)
    BY <2>3, <1>4, SynthPoolAssumption
  <2> QED
    BY <2>1, <2>2, <2>3, <1>5
<1>7. CASE user' = user /\ height' >= height
  BY <1>1, <1>7 DEF StampsInPast, UserInfos
<1>8. CASE KeeperNext \/ OwnerNext \/ UNCHANGED vars
  <2>1. user' = user /\ height' = height
    BY <1>8 DEF KeeperNext, RefreshCollateralRatio, UpdateOracle, UpdateEpoch,
         BurnShare, OwnerNext, SetFee, Toggle, SetMinCollateralRatio, SetPool,
         ConfigShareOracle, ConfigSynthOracle, SetEpochConfig,
         OfferContract, AcceptContract,
         moneyVars, chainVars, vars
  <2> QED
    BY <1>1, <1>7, <2>1
<1>9. CASE EnvironmentNext
  <2>1. user' = user /\ (height' = height \/ height' = height + 1)
    BY <1>9 DEF EnvironmentNext, Block, NextBlock, PairTrade, Trade,
         HolderBurnsSynth, HolderSendsShare, HolderSendsSynth,
         HolderSendsCollateral, moneyVars, chainVars
  <2> QED
    BY <1>1, <1>7, <2>1
<1> QED
  BY <1>6, <1>8, <1>9 DEF Next

\* The pool keeps the promises of the ledger: what a mint or a redeem credits
\* is paid once, in full, in a later block, collateral leaves and tokens are
\* issued only then, for every number of users and every amount.
THEOREM SynthPoolImplementsClaimLedger == Spec => ImplementsClaimLedger
<1>1. Init => Ledger!LedgerInit /\ StampsInPast
  <2> SUFFICES ASSUME Init PROVE Ledger!LedgerInit /\ StampsInPast
    OBVIOUS
  <2>1. TypeOK
    BY InitType
  <2>2. height = 1 /\ user = [u \in Accounts |-> DefaultUser]
    BY DEF Init, ChainInit
  <2> QED
    BY <2>1, <2>2 DEF Ledger!LedgerInit, StampsInPast, Claim, DefaultUser,
         Ledger!NoClaim, Ledger!Kinds, TypeOK, Tokens
<1>2. TypeOK /\ TypeOK' /\ StampsInPast /\ [Next]_vars => StampsInPast'
  BY StampsStep
<1>3. TypeOK /\ TypeOK' /\ StampsInPast /\ [Next]_vars
        => [Ledger!LedgerNext]_(Ledger!ledgerVars)
  BY StepSimulation
<1> QED
  BY <1>1, <1>2, <1>3, TypeCorrect, PTL
     DEF Spec, ImplementsClaimLedger, Ledger!LedgerSpec

(***************************************************************************)
(* The ratio.                                                              *)
(***************************************************************************)
\* One refresh moves the ratio against the price, by a step or to the floor.
LEMMA RefreshFollowsPeg ==
  ASSUME NEW p \in PoolConfigs, NEW twap \in Nat, RefreshFits(p, twap)
  PROVE  LET ratio == p.collateral_ratio
             next == PoolAfterRefresh(p, twap).collateral_ratio
         IN  /\ next < ratio => Above(twap) /\ next >= ratio - CollateralRatioStep
             /\ next > ratio => \/ next = p.min_collateral_ratio
                                \/ Below(twap) /\ next <= ratio + CollateralRatioStep
<1>1. /\ p.collateral_ratio \in 0 .. Precision /\ p.min_collateral_ratio \in Nat
      /\ p.min_collateral_ratio <= Precision
      /\ Precision \in Nat /\ PriceBand \in Nat /\ CollateralRatioStep \in Nat
  BY UnitAssumption, PoolConfigAssumption DEF PoolConfigs, RefreshFits
<1>2. PoolAfterRefresh(p, twap).collateral_ratio
        = Clamp(SteppedRatio(p, twap), p.min_collateral_ratio, Precision)
  BY DEF PoolAfterRefresh, PoolConfigs
<1>3. CASE Above(twap)
  <2>1. ~Below(twap)
    BY <1>1, <1>3 DEF Above, Below
  <2>2. SteppedRatio(p, twap) = p.collateral_ratio - CollateralRatioStep
    BY <1>3, <2>1 DEF SteppedRatio
  <2> QED
    BY <1>1, <1>2, <1>3, <2>2 DEF Clamp
<1>4. CASE ~Above(twap) /\ Below(twap)
  <2>1. SteppedRatio(p, twap) = p.collateral_ratio + CollateralRatioStep
    BY <1>4 DEF SteppedRatio
  <2> QED
    BY <1>1, <1>2, <1>4, <2>1 DEF Clamp
<1>5. CASE ~Above(twap) /\ ~Below(twap)
  <2>1. SteppedRatio(p, twap) = p.collateral_ratio
    BY <1>5 DEF SteppedRatio
  <2> QED
    BY <1>1, <1>2, <2>1 DEF Clamp
<1> QED
  BY <1>3, <1>4, <1>5

\* Only a refresh moves the ratio.
LEMMA OnlyRefreshMovesRatio ==
  ASSUME TypeOK, [Next]_vars
  PROVE  RefreshCollateralRatio \/ UNCHANGED pool.collateral_ratio
<1>1. pool \in PoolConfigs
  BY DEF TypeOK
<1>2. CASE UserNext
  BY <1>1, <1>2 DEF UserNext, Mint, Redeem, Collect, PoolAfterMint,
       PoolAfterRedeem, PoolAfterCollect, PoolConfigs
<1>3. CASE KeeperNext
  BY <1>3 DEF KeeperNext, UpdateOracle, UpdateEpoch, BurnShare, moneyVars
<1>4. CASE OwnerNext
  BY <1>1, <1>4 DEF OwnerNext, SetFee, Toggle, SetMinCollateralRatio, SetPool,
       ConfigShareOracle, ConfigSynthOracle, SetEpochConfig, OfferContract,
       AcceptContract, moneyVars, PoolConfigs
<1>5. CASE EnvironmentNext
  BY <1>5 DEF EnvironmentNext, Block, PairTrade, HolderBurnsSynth,
       HolderSendsShare, HolderSendsSynth, HolderSendsCollateral, moneyVars
<1>6. CASE UNCHANGED vars
  BY <1>6 DEF vars, moneyVars
<1> QED
  BY <1>2, <1>3, <1>4, <1>5, <1>6 DEF Next

\* The ratio only ever moves against the deviation of the synth's price from
\* its target, one step at a time, or up to a floor the owner raised
\* (pool.rs:171), for every band, step and price.
THEOREM RatioAlwaysFollowsPeg == Spec => RatioFollowsPeg
<1> DEFINE Follows ==
      LET twap == synthOracle.twap
          ratio == pool.collateral_ratio
          next == pool'.collateral_ratio
      IN /\ next < ratio => /\ twap # None /\ twap > Precision + PriceBand
                            /\ next >= ratio - CollateralRatioStep
         /\ next > ratio => \/ next = pool.min_collateral_ratio
                            \/ /\ twap # None /\ twap < Precision - PriceBand
                               /\ next <= ratio + CollateralRatioStep
<1>1. ASSUME TypeOK, [Next]_vars
      PROVE  Follows
  <2>1. CASE UNCHANGED pool.collateral_ratio
    <3>1. pool.collateral_ratio \in Nat
      BY <1>1, UnitAssumption DEF TypeOK, PoolConfigs
    <3> QED
      BY <2>1, <3>1
  <2>2. CASE RefreshCollateralRatio
    <3>1. /\ pool \in PoolConfigs /\ synthOracle.twap # None
          /\ RefreshFits(pool, synthOracle.twap)
          /\ pool' = PoolAfterRefresh(pool, synthOracle.twap)
      BY <1>1, <2>2 DEF TypeOK, RefreshCollateralRatio
    <3>2. synthOracle.twap \in Nat
      BY <1>1, <3>1 DEF TypeOK, SynthOracle!OracleStates
    <3> QED
      BY <3>1, <3>2, RefreshFollowsPeg DEF Above, Below
  <2> QED
    BY <1>1, <2>1, <2>2, OnlyRefreshMovesRatio
<1>2. TypeOK /\ [Next]_vars => [Follows]_vars
  BY <1>1
<1> QED
  BY <1>2, TypeCorrect, PTL DEF Spec, RatioFollowsPeg

(***************************************************************************)
(* The pair.                                                               *)
(***************************************************************************)
\* Only a configuration by the owner changes pair or index, of both at once.
LEMMA StepKeepsPair ==
  ASSUME TypeOK, OneSynthPair, [Next]_vars
  PROVE  OneSynthPair'
<1>1. epoch \in SynthEpoch!EpochStates /\ synthOracle \in SynthOracle!OracleStates
  BY DEF TypeOK
<1>2. now \in Nat \ {0}
  BY DEF TypeOK, ChainTypeOK
<1>3. CASE UNCHANGED <<epoch, synthOracle>>
  BY <1>3 DEF OneSynthPair
<1>4. CASE UpdateOracle
  <2>1. UNCHANGED epoch
    BY <1>4 DEF UpdateOracle
  <2>2. UNCHANGED <<synthOracle.pair_addr, synthOracle.base_index>>
    BY <1>1, <1>4 DEF UpdateOracle, SynthOracle!UpdateTwap,
         SynthOracle!UpdatedOracle, SynthOracle!OracleStates
  <2> QED
    BY <2>1, <2>2 DEF OneSynthPair
<1>5. CASE UpdateEpoch
  <2>1. UNCHANGED synthOracle
    BY <1>5 DEF UpdateEpoch
  <2>2. PICK cumulative : epoch' = SynthEpoch!AfterEpoch(cumulative)
    BY <1>5 DEF UpdateEpoch, SynthEpoch!NextEpoch
  <2>3. /\ UNCHANGED <<epoch.pair_addr, epoch.base_index>>
        /\ epoch'.start_timestamp = now
    BY <1>1, <2>2 DEF SynthEpoch!AfterEpoch, SynthEpoch!EpochStates
  <2> QED
    BY <1>2, <2>1, <2>3 DEF OneSynthPair
<1>6. ASSUME NEW caller, NEW a, NEW i, NEW period, ConfigSynthOracle(caller, a, i, period)
      PROVE  OneSynthPair'
  <2>1. synthOracle'.pair_addr = a /\ synthOracle'.base_index = i
    BY <1>6 DEF ConfigSynthOracle, SynthOracle!Config, SynthOracle!ConfiguredOracle
  <2>2. /\ epoch'.pair_addr = a /\ epoch'.base_index = i
        /\ epoch'.start_timestamp = now
    BY <1>1, <1>6 DEF ConfigSynthOracle, SynthEpoch!ConfigOracle, SynthEpoch!EpochStates
  <2> QED
    BY <1>2, <2>1, <2>2 DEF OneSynthPair
<1>7. ASSUME NEW caller, NEW duration, NEW ceil, NEW rate,
             SetEpochConfig(caller, duration, ceil, rate)
      PROVE  OneSynthPair'
  <2>1. /\ UNCHANGED synthOracle
        /\ UNCHANGED <<epoch.pair_addr, epoch.base_index, epoch.start_timestamp>>
    BY <1>1, <1>7 DEF SetEpochConfig, SynthEpoch!ConfigEpoch, SynthEpoch!EpochStates
  <2> QED
    BY <2>1 DEF OneSynthPair
<1>8. CASE UserNext \/ EnvironmentNext \/ UNCHANGED vars
  BY <1>3, <1>8 DEF UserNext, Mint, Redeem, Collect, EnvironmentNext, Block,
       PairTrade, HolderBurnsSynth, HolderSendsShare, HolderSendsSynth,
       HolderSendsCollateral, vars, adminVars
<1>9. CASE KeeperNext
  BY <1>3, <1>4, <1>5, <1>9 DEF KeeperNext, RefreshCollateralRatio, BurnShare, adminVars
<1>10. CASE OwnerNext
  BY <1>3, <1>6, <1>7, <1>10 DEF OwnerNext, SetFee, Toggle, SetMinCollateralRatio,
       SetPool, ConfigShareOracle, OfferContract, AcceptContract, adminVars
<1> QED
  BY <1>8, <1>9, <1>10 DEF Next

\* The synth oracle and the epoch never disagree about the pair, nor about
\* which asset of it is the synth, and an epoch with a pair has begun
\* (contract.rs:330).
THEOREM AlwaysOneSynthPair == Spec => []OneSynthPair
<1>1. Init => OneSynthPair
  BY DEF Init, OneSynthPair, SynthEpoch!DefaultEpoch, SynthOracle!DefaultOracle
<1>2. TypeOK /\ OneSynthPair /\ [Next]_vars => OneSynthPair'
  BY StepKeepsPair
<1> QED
  BY <1>1, <1>2, TypeCorrect, PTL DEF Spec

(***************************************************************************)
(* The maximum of the epoch.                                               *)
(***************************************************************************)
\* An epoch began in the past, and its maximum is no less than its base.
EpochInv ==
  /\ epoch.start_timestamp <= now
  /\ epoch.max_supply # None => epoch.base_supply <= epoch.max_supply

\* The next epoch's maximum is the supply and an expansion of it.
LEMMA NextEpochKeepsInv ==
  ASSUME TypeOK, EpochInv, SynthEpoch!NextEpoch, UNCHANGED now
  PROVE  EpochInv'
<1>1. epoch \in SynthEpoch!EpochStates /\ now \in Nat /\ synth.supply \in Nat
  BY DEF TypeOK, ChainTypeOK, Tokens
<1>2. PICK total : /\ total = pairs[epoch.pair_addr].cumulative[epoch.base_index]
                   /\ SynthEpoch!NextEpochFits(total)
                   /\ epoch' = SynthEpoch!AfterEpoch(total)
  BY DEF SynthEpoch!NextEpoch
<1>3. CASE epoch.start_timestamp = 0
  <2>1. /\ epoch'.start_timestamp = now
        /\ UNCHANGED <<epoch.base_supply, epoch.max_supply>>
    BY <1>1, <1>2, <1>3 DEF SynthEpoch!AfterEpoch, SynthEpoch!EpochStates
  <2> QED
    BY <1>1, <2>1 DEF EpochInv
<1>4. CASE epoch.start_timestamp # 0
  <2> DEFINE twap == (total - epoch.price_cumulative_last)
                       \div (now - epoch.start_timestamp)
             rate == SynthEpoch!ExpansionRate(synth.supply, twap)
             most == (synth.supply * (rate + Precision)) \div Precision
  <2>1. /\ epoch'.start_timestamp = now /\ epoch'.base_supply = synth.supply
        /\ epoch'.max_supply = most
    BY <1>1, <1>2, <1>4 DEF SynthEpoch!AfterEpoch, SynthEpoch!EpochStates
  <2>2. /\ total \in Nat /\ total >= epoch.price_cumulative_last
        /\ now > epoch.start_timestamp
        /\ epoch.price_cumulative_last \in Nat /\ epoch.start_timestamp \in Nat
    <3>1. epoch.pair_addr \in Pairs
      BY <1>1 DEF SynthEpoch!NextEpoch, SynthEpoch!EpochStates
    <3>2. total \in Nat
      BY <1>1, <1>2, <3>1 DEF TypeOK, ChainTypeOK, PairStates, SynthEpoch!EpochStates
    <3> QED
      BY <1>1, <1>2, <1>4, <3>2 DEF SynthEpoch!NextEpochFits, SynthEpoch!EpochStates
  <2>3. twap \in Nat
    BY <1>1, <2>2, TwapType
  <2>4. rate \in Nat
    BY <1>1, <2>3, ExpansionRateType
  <2> HIDE DEF twap, rate
  <2>5. synth.supply <= most
    <3>1. PICK s \in Nat, r \in Nat, d \in Nat \ {0} :
            s = synth.supply /\ r = rate /\ d = Precision
      BY <1>1, <2>4, UnitAssumption
    <3>2. s * (r + d) = s * r + d * s /\ s * r \in Nat /\ s * (r + d) \in Nat
      BY ProductType, SMT
    <3>3. d * s \in Nat
      BY ProductType
    <3>4. d * s <= s * (r + d)
      BY <3>2, <3>3
    <3> QED
      BY <3>1, <3>2, <3>4, QuotientBound
  <2> QED
    BY <1>1, <2>1, <2>5 DEF EpochInv
<1> QED
  BY <1>3, <1>4

\* Every step keeps it: the clock never goes back, and the owner's messages
\* change neither the base nor the maximum.
LEMMA StepKeepsEpochInv ==
  ASSUME TypeOK, EpochInv, [Next]_vars
  PROVE  EpochInv'
<1>1. epoch \in SynthEpoch!EpochStates /\ now \in Nat
  BY DEF TypeOK, ChainTypeOK
<1>2. CASE UNCHANGED epoch /\ now' \in Nat /\ now' >= now
  BY <1>1, <1>2 DEF EpochInv, SynthEpoch!EpochStates
<1>3. CASE UpdateEpoch
  BY <1>3, NextEpochKeepsInv DEF UpdateEpoch, chainVars
<1>4. ASSUME NEW caller, NEW a, NEW i, NEW period, ConfigSynthOracle(caller, a, i, period)
      PROVE  EpochInv'
  <2>1. /\ UNCHANGED now /\ epoch'.start_timestamp = now
        /\ UNCHANGED <<epoch.base_supply, epoch.max_supply>>
    BY <1>1, <1>4 DEF ConfigSynthOracle, SynthEpoch!ConfigOracle,
         SynthEpoch!EpochStates, chainVars
  <2> QED
    BY <1>1, <2>1 DEF EpochInv
<1>5. ASSUME NEW caller, NEW duration, NEW ceil, NEW rate,
             SetEpochConfig(caller, duration, ceil, rate)
      PROVE  EpochInv'
  <2>1. /\ UNCHANGED now
        /\ UNCHANGED <<epoch.start_timestamp, epoch.base_supply, epoch.max_supply>>
    BY <1>1, <1>5 DEF SetEpochConfig, SynthEpoch!ConfigEpoch,
         SynthEpoch!EpochStates, chainVars
  <2> QED
    BY <1>1, <2>1 DEF EpochInv
<1>6. CASE Block
  <2>1. PICK dt \in TimeSteps : NextBlock(dt)
    BY <1>6 DEF Block
  <2>2. dt \in Nat
    BY ChainAssumption
  <2> QED
    BY <1>1, <1>2, <1>6, <2>1, <2>2 DEF Block, NextBlock, adminVars
<1>7. CASE UNCHANGED <<epoch, now>>
  BY <1>1, <1>2, <1>7
<1>8. CASE UserNext \/ UNCHANGED vars
  BY <1>7, <1>8 DEF UserNext, Mint, Redeem, Collect, vars, adminVars, chainVars
<1>9. CASE KeeperNext
  BY <1>3, <1>7, <1>9 DEF KeeperNext, RefreshCollateralRatio, UpdateOracle,
       BurnShare, adminVars, chainVars
<1>10. CASE OwnerNext
  BY <1>4, <1>5, <1>7, <1>10 DEF OwnerNext, SetFee, Toggle, SetMinCollateralRatio,
       SetPool, ConfigShareOracle, OfferContract, AcceptContract, adminVars, chainVars
<1>11. CASE EnvironmentNext
  BY <1>6, <1>7, <1>11 DEF EnvironmentNext, PairTrade, Trade, HolderBurnsSynth,
       HolderSendsShare, HolderSendsSynth, HolderSendsCollateral, adminVars, chainVars
<1> QED
  BY <1>8, <1>9, <1>10, <1>11 DEF Next

\* The ramp stays below the maximum it leads to.
LEMMA AllowanceWithinMaximum ==
  ASSUME TypeOK, EpochInv, epoch.max_supply # None, SynthEpoch!AllowedSupplyFits
  PROVE  /\ SynthEpoch!AllowedSupply \in Nat
         /\ SynthEpoch!AllowedSupply <= epoch.max_supply
<1>1. /\ epoch \in SynthEpoch!EpochStates /\ now \in Nat
      /\ epoch.max_supply \in Nat /\ epoch.base_supply \in Nat
      /\ epoch.base_supply <= epoch.max_supply
      /\ epoch.start_timestamp \in Nat /\ epoch.start_timestamp <= now
      /\ epoch.epoch_duration \in Nat
  BY DEF TypeOK, ChainTypeOK, EpochInv, SynthEpoch!EpochStates
<1>2. SynthEpoch!Elapsed \in Nat /\ SynthEpoch!FullyExpanded \in Nat
  BY <1>1 DEF SynthEpoch!Elapsed, SynthEpoch!FullyExpanded
<1>3. CASE SynthEpoch!Elapsed > SynthEpoch!FullyExpanded
  BY <1>1, <1>3 DEF SynthEpoch!AllowedSupply
<1>4. CASE ~(SynthEpoch!Elapsed > SynthEpoch!FullyExpanded)
  <2>1. PICK f \in Nat \ {0}, e \in Nat, d \in Nat :
          /\ e \in 0 .. f /\ f = SynthEpoch!FullyExpanded /\ e = SynthEpoch!Elapsed
          /\ d = epoch.max_supply - epoch.base_supply
    BY <1>1, <1>2, <1>4 DEF SynthEpoch!AllowedSupplyFits
  <2>2. (d * e) \div f \in 0 .. d
    BY <2>1, Fraction
  <2>3. SynthEpoch!AllowedSupply = epoch.base_supply + (d * e) \div f
    BY <1>4, <2>1 DEF SynthEpoch!AllowedSupply
  <2> QED
    BY <1>1, <2>1, <2>2, <2>3
<1> QED
  BY <1>3, <1>4

\* Only a mint credits synth.
LEMMA OnlyMintCredits ==
  ASSUME TypeOK, [Next]_vars, pool'.total_unclaimed_synth > pool.total_unclaimed_synth
  PROVE  \E u \in Accounts, c \in MintAmounts, m \in MinOuts : Mint(u, c, m)
<1>1. pool \in PoolConfigs /\ pool.total_unclaimed_synth \in Nat
  BY DEF TypeOK, PoolConfigs
<1>2. ~ UNCHANGED pool.total_unclaimed_synth
  BY <1>1
<1>3. CASE UserNext
  <2>1. ASSUME NEW u \in Accounts, Collect(u)
        PROVE  FALSE
    <3>1. user[u].synth_balance \in Nat
      BY DEF TypeOK, UserInfos
    <3>2. pool'.total_unclaimed_synth
            = pool.total_unclaimed_synth - user[u].synth_balance
      BY <1>1, <2>1 DEF Collect, PoolAfterCollect, PoolConfigs
    <3> QED
      BY <1>1, <3>1, <3>2
  <2>2. ASSUME NEW u \in Accounts, NEW s, NEW m, NEW n, Redeem(u, s, m, n)
        PROVE  FALSE
    BY <1>1, <1>2, <2>2 DEF Redeem, PoolAfterRedeem, PoolConfigs
  <2> QED
    BY <1>3, <2>1, <2>2 DEF UserNext
<1>4. CASE KeeperNext
  BY <1>1, <1>2, <1>4 DEF KeeperNext, RefreshCollateralRatio, PoolAfterRefresh,
       UpdateOracle, UpdateEpoch, BurnShare, moneyVars, PoolConfigs
<1>5. CASE OwnerNext
  BY <1>1, <1>2, <1>5 DEF OwnerNext, SetFee, Toggle, SetMinCollateralRatio, SetPool,
       ConfigShareOracle, ConfigSynthOracle, SetEpochConfig, OfferContract,
       AcceptContract, moneyVars, PoolConfigs
<1>6. CASE EnvironmentNext \/ UNCHANGED vars
  BY <1>2, <1>6 DEF EnvironmentNext, Block, PairTrade, HolderBurnsSynth,
       HolderSendsShare, HolderSendsSynth, HolderSendsCollateral, vars, moneyVars
<1> QED
  BY <1>3, <1>4, <1>5, <1>6 DEF Next

\* A mint that is credited fits under the maximum of the epoch together with
\* the supply of that moment (epoch.rs:145), whatever the owner configures.
THEOREM MintsWithinEpochMaximum == Spec => MintWithinEpochMaximum
<1> DEFINE Within ==
      LET minted == pool'.total_unclaimed_synth - pool.total_unclaimed_synth
      IN minted > 0 /\ epoch.max_supply # None
           => synth.supply + minted <= epoch.max_supply
<1>1. ASSUME TypeOK, EpochInv, [Next]_vars, epoch.max_supply # None,
             pool'.total_unclaimed_synth - pool.total_unclaimed_synth > 0
      PROVE  synth.supply + (pool'.total_unclaimed_synth - pool.total_unclaimed_synth)
               <= epoch.max_supply
  <2>1. TypeOK'
    BY <1>1, NextType
  <2>2. /\ pool.total_unclaimed_synth \in Nat /\ pool'.total_unclaimed_synth \in Nat
        /\ pool \in PoolConfigs /\ synth.supply \in Nat
    BY <1>1, <2>1 DEF TypeOK, PoolConfigs, Tokens
  <2>3. pool'.total_unclaimed_synth > pool.total_unclaimed_synth
    BY <1>1, <2>2
  <2>4. PICK u \in Accounts, c \in MintAmounts, m \in MinOuts : Mint(u, c, m)
    BY <1>1, <2>3, OnlyMintCredits
  <2> DEFINE out == CalcMint(pool, c).synth_out
  <2>5. pool'.total_unclaimed_synth = pool.total_unclaimed_synth + out
    BY <2>2, <2>4 DEF Mint, PoolAfterMint, PoolConfigs
  <2>6. out \in Nat
    BY <2>2, <2>4, CalcMintType, SynthPoolAssumption DEF Mint
  <2>7. /\ SynthEpoch!AllowedSupplyFits
        /\ synth.supply + out <= SynthEpoch!AllowedSupply
    BY <1>1, <2>4 DEF Mint, SynthEpoch!MintAllowed
  <2>8. /\ SynthEpoch!AllowedSupply \in Nat /\ epoch.max_supply \in Nat
        /\ SynthEpoch!AllowedSupply <= epoch.max_supply
    BY <1>1, <2>7, AllowanceWithinMaximum DEF TypeOK, SynthEpoch!EpochStates
  <2> HIDE DEF out
  <2> QED
    BY <2>2, <2>5, <2>6, <2>7, <2>8
<1>2. TypeOK /\ EpochInv /\ [Next]_vars => [Within]_vars
  BY <1>1
<1>3. Init => EpochInv
  BY ChainAssumption DEF Init, ChainInit, EpochInv, SynthEpoch!DefaultEpoch
<1>4. TypeOK /\ EpochInv /\ [Next]_vars => EpochInv'
  BY StepKeepsEpochInv
<1> QED
  BY <1>2, <1>3, <1>4, TypeCorrect, PTL DEF Spec, MintWithinEpochMaximum

(***************************************************************************)
(* The owner.                                                              *)
(***************************************************************************)
\* Only an offer by the owner and its acceptance change what is kept of the
\* ownership.
LEMMA OwnershipMoves ==
  ASSUME [Next]_vars
  PROVE  \/ UNCHANGED ownable
         \/ \E caller, to \in Accounts : TransferOwnership(caller, to)
         \/ \E caller \in Accounts : AcceptOwnership(caller)
<1>1. CASE OwnerNext
  BY <1>1, SynthPoolAssumption DEF OwnerNext, SetFee, Toggle, SetMinCollateralRatio,
     SetPool, ConfigShareOracle, ConfigSynthOracle, SetEpochConfig, OfferContract,
     AcceptContract, adminVars
<1>2. CASE UserNext \/ KeeperNext
  BY <1>2 DEF UserNext, Mint, Redeem, Collect, KeeperNext, RefreshCollateralRatio,
       UpdateOracle, UpdateEpoch, BurnShare, adminVars
<1>3. CASE EnvironmentNext \/ UNCHANGED vars
  BY <1>3 DEF EnvironmentNext, Block, PairTrade, HolderBurnsSynth,
       HolderSendsShare, HolderSendsSynth, HolderSendsCollateral, vars, adminVars
<1> QED
  BY <1>1, <1>2, <1>3 DEF Next

\* An offer is made by the owner, and goes when the owner changes.
LEMMA OfferStep ==
  ASSUME TypeOK, OfferFromOwner, [Next]_vars, OfferRecorded
  PROVE  OfferFromOwner'
<1>1. ownable \in OwnableStates
  BY DEF TypeOK
<1>2. CASE UNCHANGED ownable
  BY <1>2 DEF OfferFromOwner, OfferRecorded
<1>3. ASSUME NEW caller \in Accounts, AcceptOwnership(caller)
      PROVE  OfferFromOwner'
  BY <1>3 DEF AcceptOwnership, OfferFromOwner
<1>4. ASSUME NEW caller \in Accounts, NEW to \in Accounts,
             TransferOwnership(caller, to), ownable' # ownable
      PROVE  OfferFromOwner'
  <2>1. ownable'.owner = ownable.owner /\ ownable'.pending_owner = to /\ to # None
    BY <1>1, <1>4, OwnableAssumption DEF TransferOwnership, OwnableStates
  <2>2. PICK offerer \in Accounts :
          TransferOwnership(offerer, ownable'.pending_owner) /\ offeredBy' = offerer
    BY <1>4, <2>1 DEF OfferRecorded
  <2> QED
    BY <2>1, <2>2 DEF TransferOwnership, IsOwner, OfferFromOwner
<1> QED
  BY <1>2, <1>3, <1>4, OwnershipMoves

\* An offer of the contract that can still be accepted was made by whoever
\* owns the contract now (ownable lib.rs:89), for every number of accounts.
THEOREM OffersFromOwner == OwnershipSpec => []OfferFromOwner
<1>1. OwnershipInit => Init /\ OfferFromOwner
  BY DEF OwnershipInit, Init, InitialOwnable, OfferFromOwner
<1>2. [OwnershipNext]_ownershipVars => [Next]_vars
  BY DEF OwnershipNext, ownershipVars
<1>3. TypeOK /\ OfferFromOwner /\ [OwnershipNext]_ownershipVars => OfferFromOwner'
  <2>1. CASE UNCHANGED ownershipVars
    BY <2>1 DEF ownershipVars, vars, adminVars, OfferFromOwner
  <2>2. ASSUME TypeOK, OfferFromOwner, OwnershipNext
        PROVE  OfferFromOwner'
    BY <2>2, OfferStep DEF OwnershipNext
  <2> QED
    BY <2>1, <2>2
<1>4. Init => TypeOK
  BY InitType
<1>5. TypeOK /\ [Next]_vars => TypeOK'
  BY NextType
<1> QED
  BY <1>1, <1>2, <1>3, <1>4, <1>5, PTL DEF OwnershipSpec
===============================================================================
