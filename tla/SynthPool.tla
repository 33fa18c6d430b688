------------------------------- MODULE SynthPool ------------------------------
(***************************************************************************)
(* The contract contracts/fantastic-pool: a synth token minted against     *)
(* collateral, in two transactions.  mint and redeem credit the sender,    *)
(* collect pays what was credited, in a later block.                       *)
(*                                                                         *)
(* An action is one transaction, the messages the contract sends included. *)
(* An error or a panic anywhere in it reverts it whole: such a transaction *)
(* is a disabled action.  Anybody may send anything; what is sent is drawn *)
(* from the sets of choices below.                                         *)
(***************************************************************************)
EXTENDS PoolConfig, Chain, Ownable, Totals, Cw20, Sequences

CONSTANTS
  Deployer,             \* sender of instantiate
  InitialFunds,         \* amounts of collateral instantiate may carry
  ShareMaxCap,          \* InstantiateMsg.share_max_cap
  Cooldown,             \* refresh_collateral_ratio_cooldown, 600 in the code
  DefaultTwapPeriod,    \* 600 in the code
  SupplyTiers, ExpansionRates,
  TotalCollateral,      \* bound: collateral the contract may hold
  MintAmounts, RedeemAmounts, MinOuts, SwapOutputs, HolderAmounts,
  FeeChoices, PauseChoices, RatioChoices, PeriodChoices, DurationChoices,
  CeilChoices, MaxRateChoices, NewOwners,
  ShareIndexes, SynthIndexes    \* base index of either oracle's configuration

VARIABLES
  pool,           \* POOL.pool : PoolConfig
  user,           \* POOL.user : UserInfo of every account
  epoch,          \* EPOCH
  synthOracle,    \* SYNTH_ORACLE
  shareOracle,    \* SHARE_ORACLE
  synth, share,   \* the two cw20 tokens
  vault           \* collateral in the contract's bank account

adminVars == <<ownable, epoch, synthOracle, shareOracle>>
moneyVars == <<pool, user, synth, share, vault>>
vars == <<moneyVars, adminVars, chainVars>>

SynthOracle == INSTANCE PairOracle WITH oracle <- synthOracle
ShareOracle == INSTANCE PairOracle WITH oracle <- shareOracle
SynthEpoch == INSTANCE Epoch WITH supply <- synth.supply

ASSUME SynthPoolAssumption ==
  /\ None \notin Nat \cup Pairs
  /\ DefaultTwapPeriod \in Nat
  /\ SupplyTiers \in Seq(Nat) /\ ExpansionRates \in Seq(Nat)
  /\ Len(SupplyTiers) = Len(ExpansionRates)
  /\ Deployer \in Accounts
  /\ InitialFunds \subseteq Nat
  /\ ShareMaxCap \in Nat \ {0}
  /\ Cooldown \in Nat
  /\ StartTime >= Cooldown
  /\ TotalCollateral \in Nat
  /\ MintAmounts \subseteq Nat /\ RedeemAmounts \subseteq Nat
  /\ MinOuts \subseteq Nat
  /\ SwapOutputs \subseteq Nat \ {0} /\ HolderAmounts \subseteq Nat \ {0}
  /\ FeeChoices \subseteq Nat /\ RatioChoices \subseteq Nat
  /\ PauseChoices \subseteq BOOLEAN /\ NewOwners \subseteq Accounts
  /\ ShareIndexes \subseteq Nat /\ SynthIndexes \subseteq Nat
  /\ PeriodChoices \subseteq Nat /\ DurationChoices \subseteq Nat
  /\ CeilChoices \subseteq Nat \cup {None}
  /\ MaxRateChoices \subseteq Nat \cup {None}

TypeOK ==
  /\ pool \in PoolConfigs
  /\ user \in [Accounts -> UserInfos]
  /\ ownable \in OwnableStates
  /\ epoch \in SynthEpoch!EpochStates
  /\ synthOracle \in SynthOracle!OracleStates
  /\ shareOracle \in ShareOracle!OracleStates
  /\ synth \in Tokens /\ share \in Tokens
  /\ vault \in Nat
  /\ ChainTypeOK

(***************************************************************************)
(* instantiate, with the instantiation of the two tokens and the replies   *)
(* that record their addresses: one transaction.  The collateral sent      *)
(* along becomes synth of the sender one to one, and the sender gets the   *)
(* whole share supply.                                                     *)
(***************************************************************************)
Init ==
  /\ ChainInit
  /\ pool = InitialPool
  /\ user = [u \in Accounts |-> DefaultUser]
  /\ ownable = InitialOwnable(Deployer)
  /\ epoch = SynthEpoch!DefaultEpoch
  /\ synthOracle = SynthOracle!DefaultOracle
  /\ shareOracle = ShareOracle!DefaultOracle
  /\ vault \in InitialFunds
  /\ synth = NewToken(vault)
  /\ share = NewToken(ShareMaxCap)

(***************************************************************************)
(* ExecuteMsg::Mint with c units of collateral in the funds.               *)
(***************************************************************************)
\* Messages of buy_share_and_burn: the router swaps collateral for shares,
\* which moves the reserves of some pair, and then the contract burns its
\* whole share balance.
BuyShareAndBurn(buy_share_value) ==
  \/ /\ buy_share_value = 0
     /\ UNCHANGED <<share, pairs>>
  \/ /\ buy_share_value # 0
     /\ \E n \in SwapOutputs :
          /\ n <= Circulating(share)
          /\ share' = BurnHeld(ReceiveTokens(share, n))
     /\ \E a \in Pairs, reserves \in ReserveChoices :
          pairs' = [pairs EXCEPT ![a].reserves = reserves]

Mint(u, c, min_synth_out) ==
  LET result == CalcMint(pool, c)
  IN /\ ~pool.mint_paused
     /\ c # 0
     /\ CalcMintFits(pool)
     /\ result.synth_out >= min_synth_out
     /\ SynthEpoch!MintAllowed(result.synth_out)
     /\ pool' = PoolAfterMint(pool, result)
     /\ user' = [user EXCEPT ![u] = UserAfterMint(user[u], height, result)]
     /\ vault' = vault + c - result.buy_share_value
     /\ BuyShareAndBurn(result.buy_share_value)
     /\ UNCHANGED <<synth, height, now, adminVars>>

\* ExecuteMsg::BurnShare, which anybody may send.  The token rejects a burn
\* of zero.
BurnShare ==
  /\ share.held # 0
  /\ share' = BurnHeld(share)
  /\ UNCHANGED <<pool, user, synth, vault, adminVars, chainVars>>

(***************************************************************************)
(* Cw20CallbackMsg::Redeem: u sends s synth to the contract, which keeps   *)
(* it.  A callback from any other token is an error.                       *)
(***************************************************************************)
Redeem(u, s, min_collateral_out, min_share_out) ==
  LET result == CalcRedeem(pool, s, ShareOracle!SpotPrice)
  IN /\ ~pool.redeem_paused
     /\ s # 0
     /\ s <= Circulating(synth)
     /\ ShareOracle!SpotPriceFits
     /\ CalcRedeemFits(pool, ShareOracle!SpotPrice)
     /\ result.collateral_out >= min_collateral_out
     /\ result.share_out >= min_share_out
     /\ pool' = PoolAfterRedeem(pool, result)
     /\ user' = [user EXCEPT ![u] = UserAfterRedeem(user[u], height, result)]
     /\ synth' = ReceiveTokens(synth, s)
     /\ UNCHANGED <<share, vault, adminVars, chainVars>>

(***************************************************************************)
(* ExecuteMsg::Collect: the mint and send messages pay what the bookkeeping *)
(* subtracts; the bank rejects a send of more than the contract holds.     *)
(***************************************************************************)
\* Mutant: a pause of redemptions stops the payment of claims as well.
CollectableUnlessPaused(info) ==
  height > info.last_action_block /\ ~pool.redeem_paused

\* Mutant: a claim may be collected in the block that made it.
CollectableInBlock(info) == height >= info.last_action_block

Collectable(info) == height > info.last_action_block

Collect(u) ==
  LET info == user[u]
  IN /\ Collectable(info)
     /\ CollectFits(pool, info)
     /\ info.collateral_balance <= vault
     /\ pool' = PoolAfterCollect(pool, info)
     /\ user' = [user EXCEPT ![u] = UserAfterCollect(info)]
     /\ synth' = MintTokens(synth, info.synth_balance)
     /\ share' = MintTokens(share, info.share_balance)
     /\ vault' = vault - info.collateral_balance
     /\ UNCHANGED <<adminVars, chainVars>>

(***************************************************************************)
(* Messages that keep prices and ratios up to date; anybody may send them. *)
(***************************************************************************)
\* last_refresh_collateral_ratio is read here and written nowhere.
RefreshCollateralRatio ==
  /\ now >= pool.last_refresh_collateral_ratio + Cooldown
  /\ synthOracle.twap # None
  /\ synthOracle.last_update >= pool.last_refresh_collateral_ratio
  /\ RefreshFits(pool, synthOracle.twap)
  /\ pool' = PoolAfterRefresh(pool, synthOracle.twap)
  /\ UNCHANGED <<user, synth, share, vault, adminVars, chainVars>>

\* The error of one oracle does not stop the other; a panic stops both.
UpdateOracle ==
  /\ \/ ShareOracle!UpdateTwap
     \/ ShareOracle!UpdateRefused /\ UNCHANGED shareOracle
  /\ \/ SynthOracle!UpdateTwap
     \/ SynthOracle!UpdateRefused /\ UNCHANGED synthOracle
  /\ UNCHANGED <<ownable, epoch, moneyVars, chainVars>>

UpdateEpoch ==
  /\ SynthEpoch!NextEpoch
  /\ UNCHANGED <<ownable, synthOracle, shareOracle, moneyVars, chainVars>>

(***************************************************************************)
(* Messages of the owner.                                                  *)
(***************************************************************************)
SetPool(caller, new_pool) ==
  /\ IsOwner(caller)
  /\ pool' = new_pool
  /\ UNCHANGED <<user, synth, share, vault, adminVars, chainVars>>

SetFee(caller, minting_fee, redemption_fee) ==
  SetPool(caller, [pool EXCEPT !.minting_fee = minting_fee,
                               !.redemption_fee = redemption_fee])

Toggle(caller, mint_paused, redeem_paused) ==
  SetPool(caller, [pool EXCEPT !.mint_paused = mint_paused,
                               !.redeem_paused = redeem_paused])

SetMinCollateralRatio(caller, min_collateral_ratio) ==
  SetPool(caller,
          [pool EXCEPT !.min_collateral_ratio = min_collateral_ratio])

ConfigShareOracle(caller, pair_addr, base_index, twap_period) ==
  /\ IsOwner(caller)
  /\ ShareOracle!Config(pair_addr, base_index, twap_period)
  /\ UNCHANGED <<ownable, epoch, synthOracle, moneyVars, chainVars>>

ConfigSynthOracle(caller, pair_addr, base_index, twap_period) ==
  /\ IsOwner(caller)
  /\ SynthOracle!Config(pair_addr, base_index, twap_period)
  /\ SynthEpoch!ConfigOracle(pair_addr, base_index)
  /\ UNCHANGED <<ownable, shareOracle, moneyVars, chainVars>>

SetEpochConfig(caller, epoch_duration, ceil_price, max_expansion_rate) ==
  /\ IsOwner(caller)
  /\ SynthEpoch!ConfigEpoch(epoch_duration, ceil_price, max_expansion_rate)
  /\ UNCHANGED <<ownable, synthOracle, shareOracle, moneyVars, chainVars>>

OfferContract(caller, to) ==
  /\ TransferOwnership(caller, to)
  /\ UNCHANGED <<epoch, synthOracle, shareOracle, moneyVars, chainVars>>

AcceptContract(caller) ==
  /\ AcceptOwnership(caller)
  /\ UNCHANGED <<epoch, synthOracle, shareOracle, moneyVars, chainVars>>

(***************************************************************************)
(* The environment: blocks, traders, and holders of the two tokens and of  *)
(* the collateral, who burn tokens or send either to the contract without  *)
(* asking for anything (every message of the contract accepts funds).      *)
(***************************************************************************)
Block ==
  /\ \E dt \in TimeSteps : NextBlock(dt)
  /\ UNCHANGED <<adminVars, moneyVars>>

PairTrade ==
  /\ \E a \in Pairs, reserves \in ReserveChoices : Trade(a, reserves)
  /\ UNCHANGED <<adminVars, moneyVars>>

HolderBurnsSynth(n) ==
  /\ n <= Circulating(synth)
  /\ synth' = BurnCirculating(synth, n)
  /\ UNCHANGED <<pool, user, share, vault, adminVars, chainVars>>

HolderSendsShare(n) ==
  /\ n <= Circulating(share)
  /\ share' = ReceiveTokens(share, n)
  /\ UNCHANGED <<pool, user, synth, vault, adminVars, chainVars>>

HolderSendsSynth(n) ==
  /\ n <= Circulating(synth)
  /\ synth' = ReceiveTokens(synth, n)
  /\ UNCHANGED <<pool, user, share, vault, adminVars, chainVars>>

HolderSendsCollateral(n) ==
  /\ vault + n <= TotalCollateral
  /\ vault' = vault + n
  /\ UNCHANGED <<pool, user, synth, share, adminVars, chainVars>>

(***************************************************************************)
(* The specification.                                                      *)
(***************************************************************************)
UserNext ==
  \E u \in Accounts :
    \/ \E c \in MintAmounts, min_synth_out \in MinOuts :
         /\ vault + c <= TotalCollateral
         /\ Mint(u, c, min_synth_out)
    \/ \E s \in RedeemAmounts, min_collateral_out, min_share_out \in MinOuts :
         Redeem(u, s, min_collateral_out, min_share_out)
    \/ Collect(u)

KeeperNext == RefreshCollateralRatio \/ UpdateOracle \/ UpdateEpoch \/ BurnShare

\* Only who was offered the contract can accept it.
OwnerNext ==
  \/ \E caller \in Accounts :
       \/ \E minting_fee, redemption_fee \in FeeChoices :
            SetFee(caller, minting_fee, redemption_fee)
       \/ \E mint_paused, redeem_paused \in PauseChoices :
            Toggle(caller, mint_paused, redeem_paused)
       \/ \E value \in RatioChoices : SetMinCollateralRatio(caller, value)
       \/ \E pair_addr \in Pairs, period \in PeriodChoices :
            \/ \E base_index \in ShareIndexes :
                 ConfigShareOracle(caller, pair_addr, base_index, period)
            \/ \E base_index \in SynthIndexes :
                 ConfigSynthOracle(caller, pair_addr, base_index, period)
       \/ \E duration \in DurationChoices, ceil_price \in CeilChoices,
             max_expansion_rate \in MaxRateChoices :
            SetEpochConfig(caller, duration, ceil_price, max_expansion_rate)
       \/ \E to \in NewOwners : OfferContract(caller, to)
  \/ \E caller \in NewOwners : AcceptContract(caller)

EnvironmentNext ==
  \/ Block
  \/ PairTrade
  \/ \E n \in HolderAmounts :
       \/ HolderBurnsSynth(n)
       \/ HolderSendsShare(n)
       \/ HolderSendsSynth(n)
       \/ HolderSendsCollateral(n)

Next == UserNext \/ KeeperNext \/ OwnerNext \/ EnvironmentNext

Spec == Init /\ [][Next]_vars

\* The chain goes on producing blocks, and a user with a claim goes on asking
\* for it.  Nothing else is fair: nobody has to trade, refresh or update.
Fairness ==
  /\ WF_vars(Block)
  /\ \A u \in Accounts : WF_vars(Collect(u))

(***************************************************************************)
(* Properties.                                                             *)
(***************************************************************************)
Claim(u) == [ synth      |-> user[u].synth_balance,
              share      |-> user[u].share_balance,
              collateral |-> user[u].collateral_balance ]

\* The three running totals of PoolConfig are the sums of the balances of
\* the users: collect can never fail on one of its three subtractions
\* (pool.rs:157), whatever the order in which users mint, redeem and collect.
UnclaimedTotals ==
  /\ pool.total_unclaimed_synth =
       Total([u \in Accounts |-> user[u].synth_balance])
  /\ pool.total_unclaimed_share =
       Total([u \in Accounts |-> user[u].share_balance])
  /\ pool.total_unclaimed_collateral =
       Total([u \in Accounts |-> user[u].collateral_balance])

\* What the contract owes in collateral if every holder redeems at par: the
\* fees it has booked, the claims, and every synth there is or will be.
Obligations ==
  pool.total_fee + pool.total_unclaimed_collateral
    + pool.total_unclaimed_synth + Circulating(synth)

\* As long as the ratio is held at 1, the collateral covers all obligations
\* at once, through every rounding of mint and redeem and every change of
\* the fees (calc_mint pool.rs:88, calc_redeem pool.rs:102).
FullyBacked ==
  /\ pool.collateral_ratio = Precision
  /\ vault >= Obligations

\* The ratio moves only against the price, by one step at most or up to its
\* floor: it never falls unless the synth traded above the band, and never
\* rises unless the synth traded below the band or the owner raised the floor
\* (pool.rs:171).
RatioFollowsPeg ==
  [][LET twap == synthOracle.twap
         ratio == pool.collateral_ratio
         next == pool'.collateral_ratio
     IN /\ next < ratio => /\ twap # None /\ twap > Precision + PriceBand
                           /\ next >= ratio - CollateralRatioStep
        /\ next > ratio => \/ next = pool.min_collateral_ratio
                           \/ /\ twap # None /\ twap < Precision - PriceBand
                              /\ next <= ratio + CollateralRatioStep]_vars

\* What is credited by a mint fits under the maximum the current epoch set,
\* wherever the mint falls in the ramp, however the supply moved since by
\* collects and burns, and whatever duration the owner gave the epoch in the
\* middle of it (epoch.rs:111, 145).
MintWithinEpochMaximum ==
  [][LET minted == pool'.total_unclaimed_synth - pool.total_unclaimed_synth
     IN minted > 0 /\ epoch.max_supply # None
          => synth.supply + minted <= epoch.max_supply]_vars

\* The synth oracle and the epoch each keep their own copy of the pair and of
\* the index of the synth in it: the two never disagree, so the ratio and the
\* mint allowance follow the price of the same asset.  An epoch with a pair
\* has started: next() never takes its "first epoch" branch (epoch.rs:91).
OneSynthPair ==
  /\ epoch.pair_addr = synthOracle.pair_addr
  /\ epoch.base_index = synthOracle.base_index
  /\ epoch.pair_addr # None => epoch.start_timestamp # 0

\* The contract keeps the promises of ClaimLedger: what is credited is paid
\* once, in full, not in the block of the credit, and money moves only then.
Ledger ==
  INSTANCE ClaimLedger WITH
    claims <- [u \in Accounts |-> Claim(u)],
    fresh <- {u \in Accounts : user[u].last_action_block = height},
    reserve <- vault,
    synthSupply <- synth.supply,
    shareSupply <- share.supply

ImplementsClaimLedger == Ledger!LedgerSpec

\* As long as the ratio stays at 1, a user who keeps asking is paid, whatever
\* the other users do and however often the owner changes the fees, pauses or
\* hands the contract over (collect pool.rs:350).  Once the ratio was
\* below 1 nothing is promised: a mint then leaves less collateral than synth,
\* and when the ratio is back at 1 the claims of redeems may exceed the vault.
\* A claim made in the last block of the model has no later block to be paid in.
ClaimsEventuallyPaid ==
  [](pool.collateral_ratio = Precision) =>
    \A u \in Accounts :
      Claim(u) # Ledger!NoClaim
        ~> (Claim(u) = Ledger!NoClaim \/ user[u].last_action_block = MaxHeight)
===============================================================================
