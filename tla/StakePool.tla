------------------------------- MODULE StakePool ------------------------------
(***************************************************************************)
(* The contract contracts/fantastic-stake: users stake a want token, get   *)
(* a position token for it, may add boost tokens to their stake, and earn  *)
(* a reward token by the second.                                           *)
(*                                                                         *)
(* An action is one transaction, the token messages included: deposits and *)
(* withdrawals arrive as callbacks of the token that was sent, payments    *)
(* are transfers the contract sends.  cw20_base rejects a zero amount and  *)
(* a transfer of more than the sender has, which reverts the transaction.  *)
(***************************************************************************)
EXTENDS StakeInfo

CONSTANTS
  Accounts,
  Owner,                     \* sender of instantiate; nothing changes it
  WantToken, RewardToken,
  StartTime, MaxTime,        \* the clock at instantiation; bound
  MaxStaked, MaxBoost, MaxFunds,   \* bounds on what is staked and funded
  MaxDebt,                   \* bound on a reward debt, either way
  Amounts,                   \* amounts of tokens users send to the contract
  FundAmounts, HolderAmounts,   \* reward tokens, position tokens
  RewardRates, Multipliers   \* what the owner may set

VARIABLES
  stake,      \* STAKE.pool : PoolInfo
  staker,     \* STAKE.user : UserInfo of every account
  balance,    \* tokens of the contract
  position,   \* position tokens of every account
  now         \* env.block.time.seconds()

stakeVars == <<stake, staker, balance, position, now>>

StakeTokens == {WantToken, RewardToken} \cup BoostTokens

ASSUME StakePoolAssumption ==
  /\ Owner \in Accounts
  /\ StartTime \in Nat /\ MaxTime \in Nat
  /\ MaxStaked \in Nat /\ MaxBoost \in Nat /\ MaxFunds \in Nat
  /\ MaxDebt \in Nat
  /\ Amounts \subseteq Nat \ {0} /\ FundAmounts \subseteq Nat \ {0}
  /\ HolderAmounts \subseteq Nat \ {0}
  /\ RewardRates \subseteq Nat /\ Multipliers \subseteq Nat

StakeTypeOK ==
  /\ stake \in PoolInfos
  /\ staker \in [Accounts -> StakeUsers]
  /\ balance \in [StakeTokens -> Nat]
  /\ position \in [Accounts -> Nat]
  /\ now \in Nat

\* instantiate, with the reply that records the position token: one
\* transaction.
StakeInit ==
  /\ stake = InitialPoolInfo(StartTime)
  /\ staker = [u \in Accounts |-> DefaultStakeUser]
  /\ balance = [t \in StakeTokens |-> 0]
  /\ position = [u \in Accounts |-> 0]
  /\ now = StartTime

(***************************************************************************)
(* Callbacks of the want token and of boost tokens.                        *)
(***************************************************************************)
Updated == UpdateReward(stake, now)

Receive(token, n) == balance' = [balance EXCEPT ![token] = @ + n]

Deposit(to, n) ==
  /\ stake' = PoolAfterDeposit(Updated, n)
  /\ staker' = [staker EXCEPT ![to] = UserAfterDeposit(Updated, @, n)]
  /\ position' = [position EXCEPT ![to] = @ + n]
  /\ Receive(WantToken, n)
  /\ UNCHANGED now

\* Mutant: the rewards are not brought up to date before the weights change.
DepositBoostTokenLate(to, token, n) ==
  /\ staker[to].amount # 0
  /\ stake' = PoolAfterBoost(stake, token, n)
  /\ staker' = [staker EXCEPT ![to] = UserAfterBoost(stake, @, token, n)]
  /\ Receive(token, n)
  /\ UNCHANGED <<position, now>>

DepositBoostToken(to, token, n) ==
  /\ staker[to].amount # 0
  /\ stake' = PoolAfterBoost(Updated, token, n)
  /\ staker' = [staker EXCEPT ![to] = UserAfterBoost(Updated, @, token, n)]
  /\ Receive(token, n)
  /\ UNCHANGED <<position, now>>

(***************************************************************************)
(* Callbacks of the position token, and harvest.                           *)
(***************************************************************************)
\* What a withdrawal of n pays in a token, with a reward on top.
Payment(u, n, reward) ==
  [t \in StakeTokens |->
     (IF t = WantToken THEN n ELSE 0)
       + (IF t \in BoostTokens THEN Returned(staker[u], n)[t] ELSE 0)
       + (IF t = RewardToken THEN reward ELSE 0)]

Pay(payment) ==
  /\ \A t \in StakeTokens : payment[t] <= balance[t]
  /\ balance' = [t \in StakeTokens |-> balance[t] - payment[t]]

\* The position tokens sent to the contract are burnt.
Surrender(u, n) ==
  /\ n <= position[u]
  /\ position' = [position EXCEPT ![u] = @ - n]

\* Mutant: a withdrawal pays the pending reward too.
WithdrawPaysReward(u, n) ==
  LET reward == PendingReward(stake, staker[u], now)
  IN /\ n # 0
     /\ WithdrawFits(Updated, staker[u], n)
     /\ Surrender(u, n)
     /\ Pay(Payment(u, n, reward))
     /\ stake' = PoolAfterWithdraw(Updated, staker[u], n)
     /\ staker' = [staker EXCEPT ![u] = UserAfterHarvest(Updated, WithoutStake(@, n))]
     /\ UNCHANGED now

Withdraw(u, n) ==
  /\ n # 0
  /\ WithdrawFits(Updated, staker[u], n)
  /\ Surrender(u, n)
  /\ Pay(Payment(u, n, 0))
  /\ stake' = PoolAfterWithdraw(Updated, staker[u], n)
  /\ staker' = [staker EXCEPT ![u] = UserAfterWithdraw(Updated, @, n)]
  /\ UNCHANGED now

WithdrawAndHarvest(u, n) ==
  LET reward == PendingReward(stake, staker[u], now)
  IN /\ n # 0
     /\ reward > 0
     /\ WithdrawFits(Updated, staker[u], n)
     /\ Surrender(u, n)
     /\ Pay(Payment(u, n, reward))
     /\ stake' = PoolAfterWithdraw(Updated, staker[u], n)
     /\ staker' = [staker EXCEPT ![u] = UserAfterWithdrawAndHarvest(Updated, @, n)]
     /\ UNCHANGED now

\* Anybody may harvest for anybody.
Harvest(to) ==
  LET reward == PendingReward(stake, staker[to], now)
  IN /\ reward > 0
     /\ reward <= balance[RewardToken]
     /\ balance' = [balance EXCEPT ![RewardToken] = @ - reward]
     /\ stake' = Updated
     /\ staker' = [staker EXCEPT ![to] = UserAfterHarvest(Updated, @)]
     /\ UNCHANGED <<position, now>>

(***************************************************************************)
(* Messages of the owner.                                                  *)
(***************************************************************************)
\* Mutant: the new rate applies to the time before it was set.
SetRewardPerSecondLate(caller, reward_per_second) ==
  /\ caller = Owner
  /\ stake' = [stake EXCEPT !.reward_per_second = reward_per_second]
  /\ UNCHANGED <<staker, balance, position, now>>

SetRewardPerSecond(caller, reward_per_second) ==
  /\ caller = Owner
  /\ stake' = [Updated EXCEPT !.reward_per_second = reward_per_second]
  /\ UNCHANGED <<staker, balance, position, now>>

SetBoostToken(caller, token, multiplier) ==
  /\ caller = Owner
  /\ stake' = PoolAfterSetBoost(Updated, token, multiplier)
  /\ UNCHANGED <<staker, balance, position, now>>

(***************************************************************************)
(* The environment: time, reward tokens sent to the contract, and holders  *)
(* of position tokens, an ordinary cw20, who transfer or burn them.        *)
(***************************************************************************)
Tick ==
  /\ now < MaxTime
  /\ now' = now + 1
  /\ UNCHANGED <<stake, staker, balance, position>>

FundRewards(n) ==
  /\ balance[RewardToken] + n <= MaxFunds
  /\ Receive(RewardToken, n)
  /\ UNCHANGED <<stake, staker, position, now>>

TransferPosition(from, to, n) ==
  /\ from # to
  /\ n <= position[from]
  /\ position' = [position EXCEPT ![from] = @ - n, ![to] = @ + n]
  /\ UNCHANGED <<stake, staker, balance, now>>

BurnPosition(from, n) ==
  /\ Surrender(from, n)
  /\ UNCHANGED <<stake, staker, balance, now>>

\* The rounding of deposits and withdrawals may move a debt by one each time.
DebtBounded(u) == staker'[u].reward_debt \in -MaxDebt .. MaxDebt

StakerNext ==
  \E u \in Accounts :
    \/ \E n \in Amounts :
         \/ /\ stake.total_staked + n <= MaxStaked
            /\ Deposit(u, n) /\ DebtBounded(u)
         \/ \E token \in BoostTokens :
              /\ balance[token] + n <= MaxBoost
              /\ DepositBoostToken(u, token, n) /\ DebtBounded(u)
         \/ Withdraw(u, n) /\ DebtBounded(u)
         \/ WithdrawAndHarvest(u, n) /\ DebtBounded(u)
    \/ Harvest(u) /\ DebtBounded(u)

StakeOwnerNext ==
  \E caller \in Accounts :
    \/ \E rate \in RewardRates : SetRewardPerSecond(caller, rate)
    \/ \E token \in BoostTokens, multiplier \in Multipliers :
         SetBoostToken(caller, token, multiplier)

StakeEnvironmentNext ==
  \/ Tick
  \/ \E n \in FundAmounts : FundRewards(n)
  \/ \E from \in Accounts, n \in HolderAmounts :
       \/ \E to \in Accounts : TransferPosition(from, to, n)
       \/ BurnPosition(from, n)

StakeNext == StakerNext \/ StakeOwnerNext \/ StakeEnvironmentNext

StakeSpec == StakeInit /\ [][StakeNext]_stakeVars

(***************************************************************************)
(* Properties.                                                             *)
(***************************************************************************)
Principal(token) ==
  (IF token = WantToken THEN Total([u \in Accounts |-> staker[u].amount]) ELSE 0)
    + (IF token \in BoostTokens
       THEN Total([u \in Accounts |-> staker[u].boost_token[token]])
       ELSE 0)

\* The running totals are the sums over the users, for the stake and for each
\* boost token: no withdrawal can abort on one of its subtractions
\* (pool.rs:123, 135, 186, 196), whoever else deposited or left before.
StakedTotals ==
  /\ stake.total_staked = Total([u \in Accounts |-> staker[u].amount])
  /\ \A t \in BoostTokens :
       Total([u \in Accounts |-> staker[u].boost_token[t]]) =
         IF t \in Registered(stake) THEN stake.boost_tokens[t].total_staked ELSE 0

\* With a reward token of its own the contract holds what it must return to
\* all users together, in every token: rewards are never paid out of the
\* stakes, and nothing is returned twice (stake.rs:136, 189).
PrincipalCovered == \A t \in StakeTokens : Principal(t) <= balance[t]

\* The weights the rewards are shared by add up to no more than the weight
\* the reward per share was divided by: rounding is against the users
\* (calc_user_weight pool.rs:241, calc_total_weight pool.rs:258).
WeightsCovered ==
  Total([u \in Accounts |-> UserWeight(stake, staker[u])]) <= TotalWeight(stake)

\* Nobody has boost tokens in the pool without a stake, by any sequence of
\* deposits and withdrawals for oneself or for others: "You must deposit some
\* token before boosting" (error.rs:27).
BoostNeedsStake ==
  \A u \in Accounts :
    staker[u].amount = 0 => \A t \in BoostTokens : staker[u].boost_token[t] = 0

\* Only time and a change of multipliers give anybody a reward.  A step of
\* one user or of the owner leaves what every other user has pending exactly
\* as it was, and gives the user who takes it nothing but the rounding of one
\* entry of the debt; a boost deposit may round a weight as well.
Multiplier == [t \in Registered(stake) |-> stake.boost_tokens[t].multiplier]

Earned(u) == PendingReward(stake, staker[u], now)

RewardOnlyByTime ==
  [][ now' = now /\ (\A t \in Registered(stake) : Multiplier'[t] = Multiplier[t])
        => \A u \in Accounts :
             LET gain == Earned(u)' - Earned(u)
                 paid == IF balance'[RewardToken] < balance[RewardToken]
                         THEN balance[RewardToken] - balance'[RewardToken]
                         ELSE 0
             IN IF staker'[u] = staker[u]
                THEN gain = 0
                ELSE IF \E t \in BoostTokens :
                          staker'[u].boost_token[t] > staker[u].boost_token[t]
                     THEN gain <= 2 + Reward(stake', 1)
                     ELSE gain + paid <= 1 ]_stakeVars

\* What a user has put into the contract in a token.
Deposited(u, t) ==
  (IF t = WantToken THEN u.amount ELSE 0)
    + (IF t \in BoostTokens THEN u.boost_token[t] ELSE 0)

Owed == [u \in Accounts |-> [t \in StakeTokens |-> Deposited(staker[u], t)]]

Vault == INSTANCE StakeVault WITH Tokens <- StakeTokens, owed <- Owed, held <- balance

\* The contract is a StakeVault over what its users staked and boosted with,
\* if the reward token is neither: deposits are returned to who made them, in
\* full and once, the boost tokens exactly with the end of the stake, and
\* rewards are not taken from them, by Deposit, DepositBoostToken, Withdraw
\* and WithdrawAndHarvest in any order (stake.rs:47-212).
ImplementsStakeVault == Vault!VaultSpec

\* Pending rewards fit an unsigned integer: the conversion is an unwrap
\* (to_uint128 pool.rs:276), in harvest, in withdraw_and_harvest and in the
\* queries UserInfo and PendingReward.
PendingNeverNegative == \A u \in Accounts : Earned(u) >= 0

\* Who holds position tokens can redeem them: "they can redeem these token to
\* withdraw their stake. Or transfer to other" (contract.rs:2).
PositionRedeemable == \A u \in Accounts : position[u] <= staker[u].amount
===============================================================================
