------------------------------ MODULE PoolConfig ------------------------------
(***************************************************************************)
(* The accounting of contracts/fantastic-pool/src/pool.rs: PoolConfig and  *)
(* UserInfo as records, and every method of `impl PoolConfig` as a         *)
(* function from records to records.  Amounts are natural numbers; a       *)
(* Uint128 subtraction or division that aborts the transaction in the code *)
(* is a condition ("...Fits") here, and SynthPool makes it a guard.        *)
(***************************************************************************)
EXTENDS Unit

CONSTANTS
  CollateralRatioStep,   \* 2_500 in the code
  PriceBand,             \* 5_000 in the code
  InitialMintingFee,     \* 3_000 in the code
  InitialRedemptionFee   \* 5_000 in the code

ASSUME PoolConfigAssumption ==
  /\ CollateralRatioStep \in 0 .. Precision
  /\ PriceBand \in 0 .. Precision
  /\ InitialMintingFee \in 0 .. Precision
  /\ InitialRedemptionFee \in 0 .. Precision

(***************************************************************************)
(* State.  collateral_denom, the two token addresses, the cooldown, the    *)
(* step and the price band are written once, by instantiate: they are      *)
(* constants of the model.                                                 *)
(***************************************************************************)
PoolConfigs ==
  [ collateral_ratio : 0 .. Precision, min_collateral_ratio : Nat,
    last_refresh_collateral_ratio : Nat,
    minting_fee : Nat, redemption_fee : Nat,
    total_fee : Nat, total_unclaimed_synth : Nat,
    total_unclaimed_collateral : Nat, total_unclaimed_share : Nat,
    mint_paused : BOOLEAN, redeem_paused : BOOLEAN ]

UserInfos ==
  [ last_action_block : Nat, synth_balance : Nat,
    share_balance : Nat, collateral_balance : Nat ]

InitialPool ==
  [ collateral_ratio |-> Precision, min_collateral_ratio |-> Precision,
    last_refresh_collateral_ratio |-> 0,
    minting_fee |-> InitialMintingFee,
    redemption_fee |-> InitialRedemptionFee,
    total_fee |-> 0, total_unclaimed_synth |-> 0,
    total_unclaimed_collateral |-> 0, total_unclaimed_share |-> 0,
    mint_paused |-> FALSE, redeem_paused |-> FALSE ]

DefaultUser ==
  [ last_action_block |-> 0, synth_balance |-> 0,
    share_balance |-> 0, collateral_balance |-> 0 ]

(***************************************************************************)
(* calc_mint: what c units of collateral buy.                              *)
(***************************************************************************)
CalcMintFits(p) == p.minting_fee <= Precision

CalcMint(p, c) ==
  [ synth_out       |-> (c * (Precision - p.minting_fee)) \div Precision,
    buy_share_value |-> (c * (Precision - p.collateral_ratio)) \div Precision,
    fee             |-> ((c * p.collateral_ratio * p.minting_fee)
                           \div Precision) \div Precision ]

(***************************************************************************)
(* calc_redeem: what s units of synth return at a given share price.       *)
(***************************************************************************)
CalcRedeemFits(p, share_price) ==
  /\ p.redemption_fee <= Precision
  /\ share_price # 0

\* Mutant: the redemption fee is charged and the payout is not reduced by it.
CalcRedeemGross(p, s, share_price) ==
  [ collateral_out |-> (s * p.collateral_ratio) \div Precision,
    share_out |-> ((s * (Precision - p.collateral_ratio)) \div share_price),
    fee |-> (s * p.redemption_fee) \div Precision ]

CalcRedeem(p, s, share_price) ==
  [ collateral_out |->
      ((s * p.collateral_ratio * (Precision - p.redemption_fee))
         \div Precision) \div Precision,
    share_out |->
      ((s * (Precision - p.redemption_fee) * (Precision - p.collateral_ratio))
         \div share_price) \div Precision,
    fee |-> (s * p.redemption_fee) \div Precision ]

(***************************************************************************)
(* mint and redeem credit the user and the pool's totals; nothing is paid  *)
(* until collect.                                                          *)
(***************************************************************************)
PoolAfterMint(p, r) ==
  [p EXCEPT !.total_unclaimed_synth = @ + r.synth_out,
            !.total_fee = @ + r.fee]

\* Mutant: mint does not stamp the block of the action.
UserAfterMintUnstamped(u, block_height, r) ==
  [u EXCEPT !.synth_balance = @ + r.synth_out]

UserAfterMint(u, block_height, r) ==
  [u EXCEPT !.last_action_block = block_height,
            !.synth_balance = @ + r.synth_out]

PoolAfterRedeem(p, r) ==
  [p EXCEPT !.total_unclaimed_collateral = @ + r.collateral_out,
            !.total_unclaimed_share = @ + r.share_out,
            !.total_fee = @ + r.fee]

UserAfterRedeem(u, block_height, r) ==
  [u EXCEPT !.last_action_block = block_height,
            !.share_balance = @ + r.share_out,
            !.collateral_balance = @ + r.collateral_out]

(***************************************************************************)
(* collect empties the user's three balances.                              *)
(***************************************************************************)
CollectFits(p, u) ==
  /\ u.collateral_balance <= p.total_unclaimed_collateral
  /\ u.share_balance <= p.total_unclaimed_share
  /\ u.synth_balance <= p.total_unclaimed_synth

\* Mutant: the synth and collateral amounts are swapped.
PoolAfterCollectSwapped(p, u) ==
  [p EXCEPT !.total_unclaimed_collateral = @ - u.synth_balance,
            !.total_unclaimed_share = @ - u.share_balance,
            !.total_unclaimed_synth = @ - u.collateral_balance]

PoolAfterCollect(p, u) ==
  [p EXCEPT !.total_unclaimed_collateral = @ - u.collateral_balance,
            !.total_unclaimed_share = @ - u.share_balance,
            !.total_unclaimed_synth = @ - u.synth_balance]

\* Mutant: collect pays the synth balance and does not reset it.
UserAfterCollectKeepsSynth(u) ==
  [u EXCEPT !.collateral_balance = 0, !.share_balance = 0]

UserAfterCollect(u) ==
  [u EXCEPT !.collateral_balance = 0, !.share_balance = 0,
            !.synth_balance = 0]

(***************************************************************************)
(* refresh_collateral_ratio: one step against the deviation of the synth's *)
(* TWAP from the target price 1, then Ord::clamp, which panics when its    *)
(* lower bound exceeds the upper one.                                      *)
(***************************************************************************)
Above(twap) == twap > Precision + PriceBand
Below(twap) == twap < Precision - PriceBand

RefreshFits(p, twap) ==
  /\ Above(twap) => CollateralRatioStep <= p.collateral_ratio
  /\ p.min_collateral_ratio <= Precision

\* Mutant: every deviation from the target moves the ratio, the band is ignored.
SteppedRatioNoBand(p, twap) ==
  CASE twap > Precision -> p.collateral_ratio - CollateralRatioStep
    [] twap < Precision -> p.collateral_ratio + CollateralRatioStep
    [] OTHER            -> p.collateral_ratio

SteppedRatio(p, twap) ==
  CASE Above(twap) -> p.collateral_ratio - CollateralRatioStep
    [] Below(twap) -> p.collateral_ratio + CollateralRatioStep
    [] OTHER       -> p.collateral_ratio

\* Mutant: only the lower bound of the clamp is applied.
ClampLow(x, low, high) == IF x < low THEN low ELSE x

Clamp(x, low, high) == IF x < low THEN low ELSE IF x > high THEN high ELSE x

PoolAfterRefresh(p, twap) ==
  [p EXCEPT !.collateral_ratio =
     Clamp(SteppedRatio(p, twap), p.min_collateral_ratio, Precision)]
===============================================================================
