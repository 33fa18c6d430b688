# Verification of the Fantastic contracts

This directory specifies the CosmWasm contracts of the repository in TLA+, checks the
specifications with TLC on small instances and proves theorems about them with TLAPS.
Everything is translated from the Rust sources; line numbers below and in
`PROJECT.json` refer to them.

## The system

| Component | Source | State | Operations |
|---|---|---|---|
| Pool bookkeeping | `contracts/fantastic-pool/src/pool.rs` | `POOL.pool` (ratio, fees, running totals, pauses), `POOL.user` (claims of every account and the block of its last action) | mint, redeem, collect, refresh_collateral_ratio, the owner's setters |
| Pool entry points | `contracts/fantastic-pool/src/contract.rs` | the contract's bank balance, the synth and share tokens it mints | instantiate and its replies, execute, the cw20 callback, BurnShare, queries |
| Price oracles | `oracle.rs`, `helpers.rs` of the pool | `SYNTH_ORACLE`, `SHARE_ORACLE`: pair, index, last cumulative price, TWAP, time, period | update_twap, config, get_spot_price, get_twap |
| Epochs | `epoch.rs` of the pool | `EPOCH`: pair, index, last cumulative price, start, duration, base and maximum supply, ceiling, maximum rate | next_epoch, assert_mint_amount, config_oracle, config_epoch |
| Stake bookkeeping | `contracts/fantastic-stake/src/pool.rs` | `STAKE.pool` (rate, accumulator, totals, boost tokens), `STAKE.user` (amount, debt, boosts) | deposit, deposit_boost_token, withdraw, harvest, withdraw_and_harvest, the owner's setters |
| Stake entry points | `stake.rs`, `contract.rs` of the stake | token balances of the contract, the position token | instantiate and its reply, the cw20 callbacks, Harvest |
| Ownership | `packages/ownable` | owner, pending owner | transfer, accept, assert_owner |
| Token | `contracts/fantastic-cw20` | that of `cw20_base` | instantiate; every other message is delegated to `cw20_base` |
| Reply decoding | `packages/utils` (`cw-utils` in the manifests) | none | `parse_reply_instantiate_data`, called by `reply` of both contracts |

How they interact:

* A user mints by sending collateral: the pool credits a synth claim, checks the epoch's
  allowance against the supply of the synth token, and, below a ratio of 1, sends the
  router a swap and itself a `BurnShare`, all in one transaction. A redeem arrives as a
  callback of the synth token and reads the spot price from the share oracle. Claims are
  paid by `Collect`, in a later block.
* Keepers (anybody) publish TWAPs with `UpdateOracle`, then move the ratio with
  `RefreshCollateralRatio`, and end epochs with `UpdateEpoch`. One owner message,
  `ConfigSynthOracle`, configures both the synth oracle and the epoch.
* Each contract is created by one transaction: `instantiate` asks the chain for its tokens
  (synth and share, or position), and for each the chain instantiates a `fantastic-cw20` and
  calls `reply` with the bytes of a protobuf message, from which the address is decoded.
* A staker sends the want token with a callback and receives position tokens; sending
  those back withdraws. Boost tokens raise a stake's weight. Rewards accrue by the second
  and are paid from reward tokens somebody sent to the contract.

What is hard. The contracts are single-threaded and a transaction is atomic: an error or a
panic anywhere in it, in a token it calls too, reverts it whole. What a test hardly reaches
is the order of transactions of many parties and the values carried from one to the next:
running totals kept apart from the users they total, a claim written now and paid later
out of a balance that moved, a TWAP or an allowance read after what it measured has
changed, configuration in the middle of a window, and rounding that adds up.
`PROJECT.json` lists these as `hazards`, each with the properties aimed at it.

## Modules

| Module | Models |
|---|---|
| `Unit` | the fixed-point unit (`helpers.rs`) |
| `PoolConfig` | `impl PoolConfig` of `pool.rs`: functions from records to records |
| `Totals` | the sum of a function into the natural numbers (its use is below) |
| `Chain` | external: blocks, time and Astroport pairs with cumulative prices |
| `PairOracle` | `oracle.rs`, one oracle |
| `Epoch` | `epoch.rs`, over a supply given from outside |
| `Ownable` | `packages/ownable` |
| `Cw20` | external: a token as its supply and the part the contract holds |
| `SynthPool` | the pool contract: the modules above composed, one action per message |
| `ClaimLedger` | abstract: what the pool promises about money |
| `StakeInfo` | `impl PoolInfo` of the stake's `pool.rs` |
| `StakePool` | the stake contract: one action per callback and message |
| `StakeVault` | abstract: what the stake contract promises about deposits |
| `ReplyData` | `packages/utils`: the decoder of instantiate replies |
| `Deployment` | `instantiate` and `reply` of both contracts, `instantiate` of the token, submessage by submessage |
| `MCSynthPool`, `MCStakePool`, `MCDeployment` | instances for TLC; the last one states what an encoder writes |
| `MCOwnership`, `MCHistory`, `MCOracle`, `MCEpoch`, `MCStakeRewards` | instances with history variables: who made the ownership offer, what was minted or refreshed, what prices were held, what accrued and was paid |
| `TotalsProofs` | lemmas about sums over a set of accounts, products and quotients |
| `ChainProofs` | lemmas about prices, pairs and averages of cumulative prices |
| `SynthPoolProofs` | the pool: lemmas about `PoolConfig`, types, backing, totals, `ClaimLedger`, the ratio, the pair, the maximum, ownership |
| `OracleProofs`, `EpochProofs` | one oracle and the epochs, each over `MCOracle` and `MCEpoch` |
| `StakePoolProofs` | the stake contract: types, totals, boosts and weights |
| `StakeVaultProofs` | the stake contract: `StakeVault`, principal and rewards |
| `DeploymentProofs` | deployments; numbers in base 128, and the decoding of replies |

Conventions:

* An action is a transaction, with the messages it sends. A transaction that returns an
  error or panics changes nothing and is a disabled action. Conditions under which a
  `Uint128` subtraction or a division aborts are operators ending in `Fits`, and guards.
* `SynthPool` instantiates `PairOracle` twice (`SynthOracle`, `ShareOracle`) and `Epoch`
  once, over its own variables. `UpdateOracle` keeps the code's distinction between an
  error of one oracle, which is ignored, and a panic, which is not.
* Values written once by `instantiate` (denom, token addresses, step, band, cooldown) are
  constants. In the code the step is 2 500, the band 5 000 and the unit 1 000 000.
* `Deployment` is the exception: there a step is what the contract, the token or the chain
  does within the one transaction, because what may go wrong is between these steps. The
  chain writes a reply byte by byte, so the decoder meets every sequence of bytes.
* A token is its supply and the contract's balance, because no contract code reads any
  other balance. Holders may burn tokens, or send tokens and collateral to the contract,
  without asking for anything.
* Operators named in a comment that starts with `Mutant:` are altered forms of the
  operator that follows them. They are used by no specification; they show for each
  property an error in the code that the property would detect.

`ClaimLedger` has claims, the set of accounts that acted in this block, the collateral and
the two supplies. A claim only grows by `Credit`, is only emptied by `Pay`, in full, for an
account that did not act in this block, and collateral leaves and tokens are issued only
then. `SynthPool` implements it: `claims` are the three balances of each user, `fresh` the
users whose `last_action_block` is the current height.

`StakeVault` has what each account is owed and what the contract holds, by token. Tokens put
in are owed to one account or to nobody; a part of a stake goes back without boosts, the rest
of it with all of them; a reward is paid out of what is owed to nobody. `StakePool` implements
it when the reward token is neither the want token nor a boost token: `owed` are the `amount`
and `boost_token` of each user, `held` is the balance. Position tokens, weights, rates, debts
and time are not in it, so none of them may matter to what is returned.

## What TLC checks

Passing runs (sizes are distinct states):

| Run | Instance | Shows |
|---|---|---|
| `pool_claims` (223 000) | 2 users, ratio 1, fees 0 or 1/2, 3 blocks, up to 7 units of collateral, pauses and changes of ownership at any time, with fairness | `UnclaimedTotals`, `FullyBacked`, `ImplementsClaimLedger`, `TypeOK` in every order of mint, redeem and collect; `OfferFromOwner`; `ClaimsEventuallyPaid` at par |
| `pool_ratio` (1 290 000) | 1 user, prices of 1/2 and 2, floor below 1, oracles and epochs configured and updated at will, epochs of 1 and 4 seconds, burns and donations | `RatioFollowsPeg`, `OneSynthPair`, `MintWithinEpochMaximum`, `TypeOK` and the ledger with shares bought and issued |
| `oracle_twap` (919 000) | 2 pairs, empty reserves included, blocks that share a second | `TwapInWindow`, `PeriodOverMeansUpdatable` |
| `epoch_ramp` (179 000) | 3 supply tiers, a supply that jumps at will | `ExpansionNeedsPremium`, `RampOnlyRises`, `ElapsedEpochCanEnd` |
| `stake_sharing` (757 000) | 2 users, 1 boost token, rates and multipliers set, transfers and burns of position tokens | `StakedTotals`, `PrincipalCovered`, `WeightsCovered`, `BoostNeedsStake`, `RewardOnlyByTime`, `StakeTypeOK` |
| `stake_exit` (174 000) | 2 users, 1 boost token, rates 2 and 3, rewards funded or never, 3 seconds, with fairness | `RewardsWithinAccrual`, `ImplementsStakeVault`, `StakerCanLeave` |
| `deployment` (797 000) | either contract, three kinds of funds, replies without data or with up to 5 bytes out of 9 | `DecodesTheEncoded`, `RecordsTheAnswer`, `TokensAsPromised` |

Runs that end in a violation, each a statement of the repository's docs, comments,
error messages or assertions that the code does not keep:

| Run | Property | What the code does |
|---|---|---|
| `refresh_cooldown` | `RefreshCoolsDown` | `last_refresh_collateral_ratio` is read (pool.rs:419) and never written: after the first 600 s there is no cooldown |
| `epoch_allowance` | `EpochMintsWithinAllowance` | the allowance is compared with the token supply (epoch.rs:159), which does not count claims: several mints each pass |
| `oracle_quote` | `SpotPriceAvailable` | `base_index + 1 % 2` (oracle.rs:55) is 2 for index 1: no spot price, no redeem |
| `stake_position` | `PositionRedeemable` | a withdrawal is checked against the sender's own stake (stake.rs:123), not the token's |
| `stake_pending` | `PendingNeverNegative` | `withdraw_and_harvest` keeps the returned boosts' share of the debt (pool.rs:184): the next conversion panics |

### Bounds, and why they are enough

* `MaxHeight`, and through it time, stops the chain; `MaxTime` stops the stake's clock. All
  runs therefore say `CHECK_DEADLOCK FALSE`: the model stops there, the system does not. (A
  deployment does end: it is committed or reverted.) Three or four blocks hold a credit, a
  payment and a second round by another user; windows of a TWAP or an epoch need two configurations and two updates.
* `TotalCollateral`, `MaxStaked`, `MaxBoost`, `MaxFunds` bound what the contracts hold: guards
  on what users send, never on what the contract does. `MaxDebt` is different. It bounds the
  reward debt a transaction may leave, which rounding can move by one on each deposit and
  withdrawal, and so disables a transaction for its outcome. In `stake_sharing`, where it is 3,
  it does cut behaviours: longer series of roundings are left out there. In `stake_exit` it is
  20 and no withdrawal meets it. The theorems about the stake hold for every `MaxDebt`.
* In `pool_ratio` the price may end an epoch of one second with an expansion, and the owner may
  then make the next one four seconds long: a mint meets the maximum within the ramp, where part
  of the expansion is allowed, as well as after it, and is refused by either.
* `Precision` is 2 or 4 instead of 1 000 000. Small units make every division round, which
  is the hard case for `FullyBacked`, `WeightsCovered` and `RewardOnlyByTime`.
  `stake_exit` is the opposite: with a reward precision of 1 and whole multipliers a user's
  share is never rounded, `rounding` stays 0 and `RewardsWithinAccrual` is exact. At other
  precisions it allows what the deposits may have rounded: the theorem is about every precision.
* In `deployment` a length has at most 2 bytes (9 in the code) and an address 8 bits (32 in
  wasm), so that lengths that overflow an address exist within 14 bits. The nine bytes are
  the tags of both fields with either wire type the decoder lets pass, the letter of the two
  valid addresses, small lengths, and one byte with a continuation bit; 5 of them hold an
  address of one or two letters, padded lengths and a second field.
* Amounts that users, traders and the owner may choose are small sets of constants. The
  violation runs have the smallest set that shows the fact, so their traces are short.
* `MCEpoch` and `MCOracle` set `StartTime` above 0: on a chain the clock never is.

### Fairness

Two runs have any, and always of parties outside the contract. In `pool_claims` (`Fairness` of
`SynthPool`) the chain goes on producing blocks, and a user who has a claim goes on sending
`Collect`. Keepers, traders and the owner may never act. A user who mints in every block is
not paid while doing so, but a claim cannot grow forever in a bounded model; the property
excludes claims made in the last block of the model. It has a premise, that the ratio stays
at 1, which holds throughout this run: below par it would be false (see the facts below).

In `stake_exit` (`RewardsSpec`) a user with a stake goes on sending all of it back with
`Withdraw`. Time may stop, and nobody has to fund rewards, harvest or set a rate. Weak fairness
is enough because no step of anybody else disables that withdrawal, which is what the property
is about; who gave position tokens away is excluded (see `PositionRedeemable`).

## What is proved

Each theorem holds for every value of the constants that satisfies the modules' assumptions,
hence for any number of users, tokens, amounts, prices and steps. Every proof has the shape
`Init => IInv`, `IInv /\ [Next]_vars => IInv'`, `IInv => Inv`, with one lemma for each message
of the contract and, under it, one step for each part of the invariant the message can disturb.

The pool (`SynthPoolProofs`):

* `TypeCorrect`: `Spec => []TypeOK`. `TypeOK` is inductive. Its content is that no value
  leaves its range: the ratio stays in `0 .. Precision` through refresh and clamp, the
  running totals stay natural numbers, no token balance exceeds its supply and a mint
  never buys back more than it received.
* `BackedAtPar`: if the owner never sets the floor of the ratio below 1
  (`FloorAtPar`), then `Spec => []FullyBacked`. `FullyBacked` alone is not inductive, since
  a refresh could lower the ratio; `Backed` adds the floor and `TypeOK`. The arguments are
  `CalcMintAtPar` (synth and fee never add up to more than the collateral, through both
  roundings) and `CalcRedeemAtPar` (payout and fee never exceed the synth taken in).
* `SynthPoolImplementsClaimLedger`: `Spec => ImplementsClaimLedger`. The initial state maps
  to an initial state and each step to a step or a stutter, one lemma per kind of message.
  The invariant it needs beyond `TypeOK` is `StampsInPast`: no user's stamp is later than
  the current block, so that a new block clears `fresh`.
* `TotalsAreSums`: `Spec => []UnclaimedTotals`, from the laws of `Total` in `TotalsProofs`:
  a balance of n is n distinct units and a total is a cardinality, so that the law "one
  balance changes, the total moves by the difference" needs no induction over users. The
  inductive invariant `Reconciled` adds that each of the three sets of units is finite; the
  set of accounts need not be.
* `ClaimsAlwaysFit` and `ClaimsPayableAtPar`, its consequences: no subtraction of `collect`
  ever aborts it, and under `FloorAtPar` the vault covers the collateral of every claim, so
  that a claim of an earlier block can always be collected. This is the part of
  `ClaimsEventuallyPaid` that is not liveness.
* `AlwaysOneSynthPair` and `OffersFromOwner` are about two records that must agree: the synth
  oracle and the epoch, the owner and the pending offer. Both are inductive with the types.
* `RatioAlwaysFollowsPeg` and `MintsWithinEpochMaximum` are action properties: given the type
  invariant, each is shown message by message. The second rests on `AllowedSupply` staying
  between the base and the maximum of the epoch.

Prices and epochs (`ChainProofs`, `OracleProofs`, `EpochProofs`):

* `TwapsFromWindow`: `OracleSpec => []TwapInWindow`. A TWAP is the quotient of two cumulative
  prices; what makes it an average is known only when both are taken. The inductive invariant
  `OracleInv` therefore carries `WindowOpen`: what the pair's cumulative price has gained since
  the oracle last looked lies between the lowest and the highest price of the window, times the
  seconds gone by. `Averages` states that relation once, with lemmas for a block that passes
  (`AverageGrows`), a window that starts (`AverageOfNothing`) and the quotient
  (`AverageBetween`); it is shared with the epochs.
* `UpdatableAfterPeriod`: the subtraction in an update never aborts, from the same invariant.
* `ExpansionsNeedPremium`: `EpochSpec => []ExpansionNeedsPremium`. `EpochInv` adds `EpochOpen`,
  the counterpart of `WindowOpen` for the epoch that is running, with the base not above the
  maximum and `premium` set by every price above par.
* `EpochsCanEnd` and `RampAlwaysRises`, from the same invariant and the monotonicity of
  products and quotients.

The stake contract (`StakePoolProofs`, `StakeVaultProofs`):

* `StakeTypeCorrect`, `StakedTotalsCorrect`, `BoostsNeedStake` and `WeightsAlwaysCovered` come
  from one inductive invariant, `StakeInv`: the types, the totals as sums over finite sets of
  units, for each registered token and for the stakes, and no boost without a stake. The weights
  are covered because a weight of one user is a rounded-down product with a common
  multiplier: `ProductOfSum` and `QuotientOfSum` bound the sum of such quotients by the
  quotient of the sum, over any set of users.
* `PrincipalAlwaysCovered`: `CoverInv` relates each balance to what is staked in that token by
  all users. It needs `RewardApart`: the reward token is neither the want token nor a boost
  token. The hypothesis is written in the theorem because the code does not impose it (see the
  facts below), and is that of both stake runs.
* `ImplementsVault`: `RewardApart => (StakeSpec => ImplementsStakeVault)`, one lemma per
  callback. The step that needs an argument is the withdrawal: the whole of a stake leaves with
  exactly the boosts of its owner, none of them twice.
* `RewardsOnlyByTime`: for one transaction and every user, what the user has been paid and may
  still claim grows by no more than the rounding of one debt, and by no more than a boost's
  rounding when a boost arrives.
* `RewardsNeverExceedAccrual`: `RewardApart => (RewardsSpec /\ MultipliersKept =>
  []RewardsWithinAccrual)`. The inductive invariant `AccrualInv` is stated in parts of a token:
  each user's weight times the accumulator, less the precision times the debt, or 0 where that
  is negative, summed over all users, plus what has accrued since the last update, is at most
  the precision times `unspent + rounding`. A tick adds no more on the left than on the right
  because the users' weights sum to no more than the total (`WeightsCovered`); a deposit adds a
  debt rounded by less than a token, and a boost a weight rounded by less than one as well.
  `MultipliersKept` (no multiplier of a registered token changes) is a hypothesis: a new
  multiplier applies to past rewards, see the facts below.
* `StakeAlwaysReturnable`: the part of `StakerCanLeave` that is not liveness. In every reachable
  state every user can withdraw every part of the stake: the subtractions of `withdraw` fit
  (`TotalsFit`), the weight falls, and the balances cover what is paid (`PaymentCovered`).

Deployments (`DeploymentProofs`):

* `DeploysAsPromised`: `Spec => []TokensAsPromised`. The inductive invariant `DeploymentInv`
  ties three things that each step moves apart: the submessages left, the tokens the chain has
  instantiated and the addresses the contract has recorded. A reply that is being written is for
  the first submessage, its token exists and its address does not.
* `ResponsesDecoded`: `Spec => []DecodesTheEncoded`, the parser against the encoder for every
  sequence of bytes. A varint is a recursive function of its bytes; `NumberSteps` gives its
  values step by step, `DigitsOfNumber` and `NumberOfDigits` show that bytes and number
  determine each other in base 128. `WrittenIsRead` and `ReadIsWritten` say of which numbers the
  parser reads a length: that length and a multiple of the addressable size. An encoder writes
  the multiple 0 (`LengthIsRead`, `ReadIsLength`), and any other one is a cut length.
  `PayloadIsField` and `FieldIsPayload` say the same of a field: what an encoder wrote is read
  as written, and what is read was written so, unless it has one of the two forms in
  `Tolerated`. They rest on induction over the
  number of bytes. The induction theorems of the library take an operator as a parameter and
  cannot be instantiated; `EveryNumber` states induction for a set of numbers and follows from
  the well-foundedness of `<`. That 2^n doubles with n is proved by counting subsets
  (`PowerOfTwo`), as the provers do not know it.
* `AnswersRecorded`: `ShortAddresses => (Spec => RecordsTheAnswer)`. The decoder, unfolded on
  a tag, one length byte and an address, returns the address; no other field fits. The
  hypothesis is what makes `ChainAnswer` the encoding of an address: it has less than 128
  bytes (a chain's have 44 or 64), so that its length is one byte.

Only model-checked, and why:

* `ClaimsEventuallyPaid` and `StakerCanLeave` are liveness under fairness, which this prover
  does not reach: it has no rule for `WF_` and `ENABLED`. The safety part of the first at par is
  `ClaimsPayableAtPar`, that of the second `StakeAlwaysReturnable`.
* The five properties of the violation runs are false.

Assumptions the theorems rest on, besides the hypotheses they name: those of the modules'
`ASSUME`s, which TLC evaluates on every instance. Two in `Deployment` are about representation
only: a reply is shorter than the addressable size, as every length is a `usize`, and `None` is
none of the values it stands for the absence of.

## What is not modelled

* The width of `Uint128`: an overflow aborts and changes no state, but amounts that large
  are outside every instance. The 64-bit timestamps are integers too.
* Balances of token holders other than the contract, allowances and marketing of
  `cw20_base`; the router (any number of shares and any new reserves may result).
* Position tokens used as want or boost tokens of the same contract.
* Queries, beyond the operators they evaluate (`CalcMint`, `CalcRedeem`, `PendingReward`,
  `Obligations`): they change nothing. `migrate` of the contracts does nothing.
* `cw20_base` behind `fantastic-cw20`: execute, query and the checks of names and symbols, which
  may refuse an instantiation at will (`RefuseToken`).
* Message declarations, error texts and schema generators: they have no behaviour.

Three places where the code does otherwise than a comment or an error text says, which the
models state outright and no run of its own shows:

* The decoder of replies compares two of the three bits of a wire type (utils lib.rs:83): it
  lets 6, which protobuf does not have, pass for 2, although it has an error "invalid wire type"
  for all but 2 (lib.rs:94).
* A length beyond the addressable size is cut by `as usize` to its low bits (utils lib.rs:138),
  where the comment says "Gently fall back to the arch's max addressable size": with the maximum
  the message would be "too short" (lib.rs:102). These two forms are `Tolerated` in
  `MCDeployment`, and `DecodesTheEncoded` shows that the decoder departs from the encoding in no
  third.
* `BurnShare` is "internal use only" (msg.rs:63 of the pool) and may be sent by anybody: it is
  an action of `KeeperNext`. All it does is burn shares the contract holds.

Facts met while modelling that contradict no statement of the repository, kept by the
models as they are:

* `max_expansion_rate` is applied with `max` (epoch.rs:83), so it is the smallest rate of an
  expansion; the last entry of `EXPANSION_RATES` is never used, and a supply of the last
  tier or above gets no expansion.
* The "first epoch" branch of `next` (epoch.rs:91) is unreachable: an epoch without a pair
  cannot be ended and `config_oracle` sets the start. `config_oracle` also restarts the ramp
  with the maximum of the epoch before.
* `set_fee` and `set_min_collateral_ratio` accept any value; a fee above 1 makes mint or
  redeem abort, a floor above 1 makes the refresh panic, as does a ratio below one step.
* With `epoch_duration` below 2 a mint divides by zero in the block that opens an epoch.
* A redeem keeps the synth in the contract and does not burn it; `total_fee` is never
  withdrawn.
* A mint below par spends part of its collateral on shares and credits synth for all of it.
  Once the ratio is back at 1 the claims of redeems can exceed what the contract holds, and
  `Collect` is then refused until somebody mints or sends collateral. `FullyBacked`,
  `ClaimsPayableAtPar` and `ClaimsEventuallyPaid` are therefore about a ratio that stays at 1.
* A redeem books its fee on the whole synth amount (pool.rs:108) although below par only a
  part of it is collateral: fees and claims can then exceed the balance, and the query
  `GetPoolInfo`, which subtracts them from it (contract.rs:375), aborts.
* The share token has no cap (contract.rs:90): `share_max_cap` is its initial supply, and
  redeems below par mint more.
* A boost token nobody registered is accepted and credited to nobody (pool.rs:108 of the
  stake, `None => ()`).
* The maximum of an epoch is a multiple of the supply at its start: an epoch that starts with
  no synth at all allows no mint, and no message of the owner resets the maximum.
* With the same want and reward token a harvest may be paid from the stakes.
* A deposit rounds its debt down: each deposit may give its owner one unit of reward, and a
  withdrawal may leave a pending reward of -1. A new multiplier applies to past rewards.

## Plan

Written in this order, the core first: `PoolConfig`, `SynthPool` with its parts, the runs of
the pool, `ClaimLedger`, the proofs about them, then `StakeInfo` and `StakePool`. To come:

1. Extend, done: `MCOwnership`, `ReplyData` and `Deployment`, `StakeVault` and
   `MCStakeRewards`. Left: two boost tokens, which only repeat the cases of one at a cost TLC
   notices.
2. Prove, done: every safety invariant and action property of the passing runs and both
   refinements. Left: the two liveness properties, of which only the safety parts are proved,
   and what a changed multiplier does to the bound of `RewardsWithinAccrual`.
