--------------------------- MODULE StakeVaultProofs ---------------------------
(***************************************************************************)
(* Money in the staking contract: what it holds covers what it owes        *)
(* (PrincipalCovered), StakePool implements StakeVault, a reward is earned *)
(* by time and by nothing else (RewardOnlyByTime), all rewards together    *)
(* are what was promised and some rounding (RewardsWithinAccrual), and a   *)
(* stake can be withdrawn at any time (StakeAlwaysReturnable).             *)
(*                                                                         *)
(* All of it needs a reward token of its own.  The code does not ask for   *)
(* one, and a contract that pays rewards in a token users staked pays them *)
(* out of the stakes.                                                      *)
(***************************************************************************)
EXTENDS StakePoolProofs, MCStakeRewards

RewardApart == RewardToken # WantToken /\ RewardToken \notin BoostTokens

(***************************************************************************)
(* What is staked in a token by all, and what is put in by one user.       *)
(***************************************************************************)
Staked(p, t) ==
  (IF t = WantToken THEN p.total_staked ELSE 0)
    + (IF t \in BoostTokens THEN BoostStaked(p, t) ELSE 0)

CoverInv ==
  /\ StakeInv
  /\ \A t \in StakeTokens : Staked(stake, t) <= balance[t]

\* What is staked in a token is an amount.
LEMMA StakedType ==
  ASSUME NEW p \in PoolInfos, NEW t
  PROVE  Staked(p, t) \in Nat
<1>1. p.total_staked \in Nat
  BY DEF PoolInfos
<1>2. t \in BoostTokens => BoostStaked(p, t) \in Nat
  BY BoostStakedType
<1> QED
  BY <1>1, <1>2 DEF Staked

\* A user's part is an amount, and none of it is in the reward token.
LEMMA DepositedType ==
  ASSUME NEW u \in StakeUsers, NEW t
  PROVE  Deposited(u, t) \in Nat /\ (RewardApart /\ t = RewardToken => Deposited(u, t) = 0)
  BY DEF StakeUsers, Deposited, RewardApart

\* The total of a token moves by what the user's part moves by.
LEMMA StakedMoves ==
  ASSUME NEW p, Used(p), NEW u \in StakeUsers, NEW q, NEW v, Moves(p, u, q, v), NEW t
  PROVE  Staked(q, t) = Staked(p, t) + Deposited(v, t) - Deposited(u, t)
<1>1. v \in StakeUsers /\ p \in PoolInfos /\ q \in PoolInfos
  BY DEF Moves, Whole, Used
<1>2. /\ p.total_staked \in Nat /\ u.amount \in Nat /\ v.amount \in Nat
      /\ q.total_staked = p.total_staked + v.amount - u.amount
  BY <1>1 DEF PoolInfos, StakeUsers, Moves
<1>3. ASSUME t \in BoostTokens
      PROVE  /\ BoostStaked(p, t) \in Nat
             /\ u.boost_token[t] \in Nat /\ v.boost_token[t] \in Nat
             /\ BoostStaked(q, t)
                  = BoostStaked(p, t) + v.boost_token[t] - u.boost_token[t]
  BY <1>1, <1>3, BoostStakedType DEF Moves, StakeUsers
<1>4. CASE t \in BoostTokens
  BY <1>2, <1>3, <1>4 DEF Staked, Deposited
<1>5. CASE t \notin BoostTokens
  BY <1>2, <1>5 DEF Staked, Deposited
<1> QED
  BY <1>4, <1>5

(***************************************************************************)
(* A step that moves a user's part and the balances together keeps the     *)
(* cover; the reward token needs none.                                     *)
(***************************************************************************)
\* The balances gain at least what the user's part gains.
Backed(u, v) ==
  \A t \in StakeTokens \ {RewardToken} :
    balance'[t] - balance[t] >= Deposited(v, t) - Deposited(staker[u], t)

\* A user's step that is backed.
LEMMA MoveKeepsCover ==
  ASSUME RewardApart, CoverInv, StakeInv', NEW u \in Accounts, NEW v,
         Moves(Updated, staker[u], stake', v), Backed(u, v)
  PROVE  CoverInv'
<1>1. /\ Used(Updated) /\ staker[u] \in StakeUsers /\ v \in StakeUsers
      /\ stake' \in PoolInfos /\ stake \in PoolInfos
      /\ balance \in [StakeTokens -> Nat] /\ balance' \in [StakeTokens -> Nat]
  BY UpdatedPool DEF CoverInv, Moves, Whole, StakeInv, StakeTypeOK, Used
<1>2. ASSUME NEW t \in StakeTokens
      PROVE  Staked(stake', t) <= balance'[t]
  <2>1. CASE t = RewardToken
    BY <1>1, <2>1 DEF RewardApart, Staked
  <2>2. CASE t # RewardToken
    <3>1. Staked(Updated, t) = Staked(stake, t)
      BY UpdatedPool DEF CoverInv, Staked
    <3>2. Staked(stake', t) = Staked(stake, t) + Deposited(v, t) - Deposited(staker[u], t)
      BY <1>1, <3>1, StakedMoves
    <3>3. balance'[t] - balance[t] >= Deposited(v, t) - Deposited(staker[u], t)
      BY <2>2 DEF Backed
    <3>4. /\ Staked(stake, t) \in Nat /\ Deposited(v, t) \in Nat
          /\ Deposited(staker[u], t) \in Nat
          /\ balance[t] \in Nat /\ balance'[t] \in Nat
          /\ Staked(stake, t) <= balance[t]
      BY <1>1, StakedType, DepositedType DEF CoverInv
    <3> QED
      BY <3>2, <3>3, <3>4
  <2> QED
    BY <2>1, <2>2
<1> QED
  BY <1>2 DEF CoverInv

\* A step that moves no stake, and takes nothing but reward tokens.
LEMMA PoolKeepsCover ==
  ASSUME RewardApart, CoverInv, StakeInv',
         stake'.total_staked = stake.total_staked,
         \A t \in BoostTokens : BoostStaked(stake', t) = BoostStaked(stake, t),
         \A t \in StakeTokens \ {RewardToken} : balance'[t] >= balance[t]
  PROVE  CoverInv'
<1>1. /\ stake \in PoolInfos
      /\ balance \in [StakeTokens -> Nat] /\ balance' \in [StakeTokens -> Nat]
  BY DEF CoverInv, StakeInv, StakeTypeOK
<1>2. ASSUME NEW t \in StakeTokens
      PROVE  Staked(stake', t) <= balance'[t]
  <2>1. CASE t = RewardToken
    BY <1>1, <2>1 DEF RewardApart, Staked
  <2>2. CASE t # RewardToken
    <3>1. Staked(stake', t) = Staked(stake, t)
      BY DEF Staked
    <3>2. Staked(stake, t) \in Nat /\ Staked(stake, t) <= balance[t]
      BY <1>1, StakedType DEF CoverInv
    <3>3. balance'[t] >= balance[t]
      BY <2>2
    <3> QED
      BY <1>1, <3>1, <3>2, <3>3
  <2> QED
    BY <2>1, <2>2
<1> QED
  BY <1>2 DEF CoverInv

\* deposit and deposit_boost_token: what is credited was received.
LEMMA DepositBacked ==
  ASSUME RewardApart, StakeInv, NEW u \in Accounts, NEW n \in Nat
  PROVE  /\ Receive(WantToken, n) => Backed(u, UserAfterDeposit(Updated, staker[u], n))
         /\ \A token \in BoostTokens :
              Receive(token, n) => Backed(u, UserAfterBoost(Updated, staker[u], token, n))
<1>1. /\ staker[u] \in StakeUsers /\ balance \in [StakeTokens -> Nat]
      /\ Updated \in PoolInfos
  BY UpdatedPool DEF StakeInv, StakeTypeOK, Used
<1>2. staker[u].amount \in Nat /\ staker[u].boost_token \in [BoostTokens -> Nat]
  BY <1>1 DEF StakeUsers
<1>3. ASSUME Receive(WantToken, n)
      PROVE  Backed(u, UserAfterDeposit(Updated, staker[u], n))
  <2> DEFINE v == UserAfterDeposit(Updated, staker[u], n)
  <2>1. v.amount = staker[u].amount + n /\ v.boost_token = staker[u].boost_token
    BY <1>1 DEF UserAfterDeposit, StakeUsers
  <2> HIDE DEF v
  <2>2. ASSUME NEW t \in StakeTokens
        PROVE  balance'[t] - balance[t] >= Deposited(v, t) - Deposited(staker[u], t)
    <3>1. balance'[t] = balance[t] + (IF t = WantToken THEN n ELSE 0)
      BY <1>1, <1>3 DEF Receive
    <3>2. balance[t] \in Nat
      BY <1>1
    <3> QED
      BY <1>2, <2>1, <3>1, <3>2 DEF Deposited
  <2> QED
    BY <2>2 DEF Backed, v
<1>4. ASSUME NEW token \in BoostTokens, Receive(token, n)
      PROVE  Backed(u, UserAfterBoost(Updated, staker[u], token, n))
  <2> DEFINE v == UserAfterBoost(Updated, staker[u], token, n)
  <2>1. /\ v.amount = staker[u].amount
        /\ \A t \in BoostTokens :
             /\ v.boost_token[t] \in Nat
             /\ v.boost_token[t] <= staker[u].boost_token[t] + (IF t = token THEN n ELSE 0)
    <3>1. CASE token \in Registered(Updated)
      <4>1. v = [staker[u] EXCEPT
                   !.reward_debt = @ + Reward(Updated, Boosted(Updated, token, n)),
                   !.boost_token[token] = @ + n]
        BY <3>1 DEF UserAfterBoost
      <4> HIDE DEF v
      <4>2. /\ v.amount = staker[u].amount
            /\ v.boost_token = [staker[u].boost_token EXCEPT ![token] = @ + n]
        BY <1>1, <4>1 DEF StakeUsers
      <4> QED
        BY <1>2, <4>2
    <3>2. CASE token \notin Registered(Updated)
      BY <1>2, <3>2 DEF UserAfterBoost
    <3> QED
      BY <3>1, <3>2
  <2> HIDE DEF v
  <2>2. ASSUME NEW t \in StakeTokens
        PROVE  balance'[t] - balance[t] >= Deposited(v, t) - Deposited(staker[u], t)
    <3>1. balance'[t] = balance[t] + (IF t = token THEN n ELSE 0)
      BY <1>1, <1>4 DEF Receive
    <3>2. balance[t] \in Nat
      BY <1>1
    <3> QED
      BY <1>2, <2>1, <3>1, <3>2 DEF Deposited
  <2> QED
    BY <2>2 DEF Backed, v
<1> QED
  BY <1>3, <1>4

\* withdraw and withdraw_and_harvest pay what they take off the stake, and
\* the reward in its own token.
LEMMA PaymentBacked ==
  ASSUME RewardApart, StakeInv, NEW u \in Accounts, NEW n \in Nat, NEW reward \in Nat,
         Pay(Payment(u, n, reward)), NEW v,
         v.amount = staker[u].amount - n,
         v.boost_token = WithoutStake(staker[u], n).boost_token
  PROVE  Backed(u, v)
<1>1. /\ staker[u] \in StakeUsers /\ balance \in [StakeTokens -> Nat]
      /\ staker[u].amount \in Nat /\ staker[u].boost_token \in [BoostTokens -> Nat]
  BY DEF StakeInv, StakeTypeOK, StakeUsers
<1> DEFINE r == Returned(staker[u], n)
<1>2. r \in [BoostTokens -> Nat]
  BY <1>1 DEF Returned
<1>3. v.boost_token = [t \in BoostTokens |-> staker[u].boost_token[t] - r[t]]
  BY <1>1 DEF WithoutStake, StakeUsers
<1>4. \A t \in StakeTokens \ {RewardToken} :
        balance'[t] = balance[t] - ((IF t = WantToken THEN n ELSE 0)
                                      + (IF t \in BoostTokens THEN r[t] ELSE 0) + 0)
  BY DEF Pay, Payment
<1> HIDE DEF r
<1>5. ASSUME NEW t \in StakeTokens \ {RewardToken}
      PROVE  balance'[t] - balance[t] >= Deposited(v, t) - Deposited(staker[u], t)
  <2>1. CASE t \in BoostTokens
    BY <1>1, <1>2, <1>3, <1>4, <2>1 DEF Deposited
  <2>2. CASE t \notin BoostTokens
    BY <1>1, <1>4, <2>2 DEF Deposited
  <2> QED
    BY <2>1, <2>2
<1> QED
  BY <1>5 DEF Backed

\* The debts apart, a withdrawal with the reward is one without.
LEMMA ExitParts ==
  ASSUME NEW p, NEW u \in StakeUsers, NEW n
  PROVE  \A v \in {UserAfterWithdraw(p, u, n), UserAfterWithdrawAndHarvest(p, u, n)} :
           /\ v.amount = u.amount - n
           /\ v.boost_token = WithoutStake(u, n).boost_token
<1> DEFINE left == WithoutStake(u, n)
<1>1. left.amount = u.amount - n
  BY DEF WithoutStake, StakeUsers
<1>2. \A debt : /\ [left EXCEPT !.reward_debt = debt].amount = left.amount
                /\ [left EXCEPT !.reward_debt = debt].boost_token = left.boost_token
  BY DEF WithoutStake, StakeUsers
<1> QED
  BY <1>1, <1>2 DEF UserAfterWithdraw, UserAfterWithdrawAndHarvest

\* A step of a user keeps the cover.
LEMMA StakerKeepsCover ==
  ASSUME RewardApart, CoverInv, StakeInv', StakerNext
  PROVE  CoverInv'
<1>1. StakeInv
  BY DEF CoverInv
<1>2. \A n \in Amounts : n \in Nat \ {0} /\ n \in Nat
  BY StakePoolAssumption
<1>3. ASSUME NEW u \in Accounts, NEW n \in Amounts, Deposit(u, n)
      PROVE  CoverInv'
  <2>1. Moves(Updated, staker[u], stake', UserAfterDeposit(Updated, staker[u], n))
    BY <1>1, <1>2, <1>3, UpdatedPool, DepositMoves DEF Deposit
  <2>2. Backed(u, UserAfterDeposit(Updated, staker[u], n))
    BY <1>1, <1>2, <1>3, DepositBacked DEF Deposit
  <2> QED
    BY <2>1, <2>2, MoveKeepsCover
<1>4. ASSUME NEW u \in Accounts, NEW n \in Amounts, NEW token \in BoostTokens,
             DepositBoostToken(u, token, n)
      PROVE  CoverInv'
  <2>1. Moves(Updated, staker[u], stake', UserAfterBoost(Updated, staker[u], token, n))
    BY <1>1, <1>2, <1>4, UpdatedPool, BoostMoves DEF DepositBoostToken
  <2>2. Backed(u, UserAfterBoost(Updated, staker[u], token, n))
    BY <1>1, <1>2, <1>4, DepositBacked DEF DepositBoostToken
  <2> QED
    BY <2>1, <2>2, MoveKeepsCover
<1>5. ASSUME NEW u \in Accounts, NEW n \in Amounts, Withdraw(u, n)
      PROVE  CoverInv'
  <2> DEFINE v == UserAfterWithdraw(Updated, staker[u], n)
  <2>1. Moves(Updated, staker[u], stake', v)
    BY <1>1, <1>2, <1>5, UpdatedPool, ExitMoves DEF Withdraw
  <2>2. staker[u] \in StakeUsers
    BY <1>1 DEF StakeInv, StakeTypeOK
  <2>3. /\ v.amount = staker[u].amount - n
        /\ v.boost_token = WithoutStake(staker[u], n).boost_token
    BY <2>2, ExitParts
  <2> HIDE DEF v
  <2>4. Backed(u, v)
    BY <1>1, <1>2, <1>5, <2>3, PaymentBacked DEF Withdraw
  <2> QED
    BY <2>1, <2>4, MoveKeepsCover
<1>6. ASSUME NEW u \in Accounts, NEW n \in Amounts, WithdrawAndHarvest(u, n)
      PROVE  CoverInv'
  <2> DEFINE v == UserAfterWithdrawAndHarvest(Updated, staker[u], n)
             reward == PendingReward(stake, staker[u], now)
  <2>1. Moves(Updated, staker[u], stake', v)
    BY <1>1, <1>2, <1>6, UpdatedPool, ExitMoves DEF WithdrawAndHarvest
  <2>2. staker[u] \in StakeUsers /\ reward \in Nat
    BY <1>1, <1>6, PendingType DEF StakeInv, StakeTypeOK, WithdrawAndHarvest
  <2>3. /\ v.amount = staker[u].amount - n
        /\ v.boost_token = WithoutStake(staker[u], n).boost_token
    BY <2>2, ExitParts
  <2>4. Pay(Payment(u, n, reward))
    BY <1>6 DEF WithdrawAndHarvest
  <2> HIDE DEF v, reward
  <2>5. Backed(u, v)
    BY <1>1, <1>2, <2>2, <2>3, <2>4, PaymentBacked
  <2> QED
    BY <2>1, <2>5, MoveKeepsCover
<1>7. ASSUME NEW u \in Accounts, Harvest(u)
      PROVE  CoverInv'
  <2>1. /\ stake' = Updated
        /\ balance \in [StakeTokens -> Nat]
        /\ \A t \in StakeTokens \ {RewardToken} : balance'[t] = balance[t]
    BY <1>1, <1>7 DEF Harvest, StakeInv, StakeTypeOK
  <2> QED
    BY <1>1, <2>1, UpdatedPool, PoolKeepsCover
<1> QED
  BY <1>3, <1>4, <1>5, <1>6, <1>7 DEF StakerNext

\* The owner moves no stake, by whatever message, and no balance.
LEMMA OwnerMovesNothing ==
  ASSUME StakeInv, StakeOwnerNext
  PROVE  /\ UNCHANGED <<staker, balance, position, now>>
         /\ stake'.total_staked = stake.total_staked
         /\ \A t \in BoostTokens : BoostStaked(stake', t) = BoostStaked(stake, t)
<1>1. UNCHANGED <<staker, balance, position, now>>
  BY DEF StakeOwnerNext, SetRewardPerSecond, SetBoostToken
<1>2. ASSUME NEW rate \in RewardRates, stake' = [Updated EXCEPT !.reward_per_second = rate]
      PROVE  /\ stake'.total_staked = stake.total_staked
             /\ \A t \in BoostTokens : BoostStaked(stake', t) = BoostStaked(stake, t)
  <2>1. /\ stake'.boost_tokens = Updated.boost_tokens
        /\ stake'.total_staked = Updated.total_staked
    BY <1>2, UpdatedPool DEF Used, PoolInfos
  <2> QED
    BY <2>1, UpdatedPool DEF BoostStaked, Registered
<1>3. ASSUME NEW token \in BoostTokens, NEW multiplier \in Multipliers,
             stake' = PoolAfterSetBoost(Updated, token, multiplier)
      PROVE  /\ stake'.total_staked = stake.total_staked
             /\ \A t \in BoostTokens : BoostStaked(stake', t) = BoostStaked(stake, t)
  <2>1. multiplier \in Nat
    BY StakePoolAssumption
  <2> QED
    BY <1>3, <2>1, UpdatedPool, SetBoostUsed
<1> QED
  BY <1>1, <1>2, <1>3 DEF StakeOwnerNext, SetRewardPerSecond, SetBoostToken

\* The environment moves no stake, and only adds reward tokens.
LEMMA EnvironmentMovesNothing ==
  ASSUME StakeInv, StakeEnvironmentNext
  PROVE  /\ UNCHANGED <<stake, staker>>
         /\ \/ UNCHANGED balance
            \/ \E n \in FundAmounts : Receive(RewardToken, n)
  BY DEF StakeEnvironmentNext, Tick, FundRewards, TransferPosition, BurnPosition

\* Every step keeps the cover.
LEMMA NextCoverInv == RewardApart /\ CoverInv /\ [StakeNext]_stakeVars => CoverInv'
<1> SUFFICES ASSUME RewardApart, CoverInv, [StakeNext]_stakeVars
             PROVE  CoverInv'
  OBVIOUS
<1>1. StakeInv /\ StakeInv'
  BY NextStakeInv DEF CoverInv
<1>2. balance \in [StakeTokens -> Nat]
  BY <1>1 DEF StakeInv, StakeTypeOK
<1>3. CASE StakerNext
  BY <1>1, <1>3, StakerKeepsCover
<1>4. CASE StakeOwnerNext
  <2>1. \A t \in StakeTokens : balance'[t] >= balance[t]
    BY <1>1, <1>2, <1>4, OwnerMovesNothing
  <2> QED
    BY <1>1, <1>4, <2>1, OwnerMovesNothing, PoolKeepsCover
<1>5. CASE StakeEnvironmentNext
  <2>1. \A t \in StakeTokens \ {RewardToken} : balance'[t] = balance[t]
    BY <1>1, <1>2, <1>5, EnvironmentMovesNothing DEF Receive
  <2>2. UNCHANGED stake
    BY <1>1, <1>5, EnvironmentMovesNothing
  <2> QED
    BY <1>1, <1>2, <2>1, <2>2, PoolKeepsCover
<1>6. CASE UNCHANGED stakeVars
  BY <1>6, <1>1 DEF stakeVars, CoverInv, Staked, BoostStaked, Registered
<1> QED
  BY <1>3, <1>4, <1>5, <1>6 DEF StakeNext

\* The cover says of all users together what PrincipalCovered says.
LEMMA CoverPrincipal == CoverInv => PrincipalCovered
<1> SUFFICES ASSUME CoverInv, NEW t \in StakeTokens
             PROVE  Principal(t) <= balance[t]
  BY DEF PrincipalCovered
<1>1. stake.total_staked = Total([u \in Accounts |-> staker[u].amount])
  BY DEF CoverInv, StakeInv, Counts, StakeOf
<1>2. t \in BoostTokens =>
        BoostStaked(stake, t) = Total([u \in Accounts |-> staker[u].boost_token[t]])
  BY DEF CoverInv, StakeInv, Counts, BoostOf
<1>3. Principal(t) = Staked(stake, t)
  BY <1>1, <1>2 DEF Principal, Staked
<1> QED
  BY <1>3 DEF CoverInv

\* At first nothing is staked.
LEMMA InitCoverInv == StakeInit => CoverInv
<1> SUFFICES ASSUME StakeInit PROVE CoverInv
  OBVIOUS
<1>1. StakeInv
  BY InitStakeInv
<1>2. \A t \in StakeTokens : Staked(stake, t) = 0 /\ balance[t] = 0
  BY DEF StakeInit, InitialPoolInfo, Staked, BoostStaked, Registered
<1> QED
  BY <1>1, <1>2 DEF CoverInv

\* With a reward token of its own the contract always holds what it must
\* return to all users together, whether the want token may be a boost token
\* as well or not (stake.rs:136, 189).
THEOREM PrincipalAlwaysCovered == RewardApart => (StakeSpec => []PrincipalCovered)
<1> SUFFICES ASSUME RewardApart PROVE StakeSpec => []PrincipalCovered
  OBVIOUS
<1>1. CoverInv /\ [StakeNext]_stakeVars => CoverInv'
  BY NextCoverInv
<1>2. StakeInit => CoverInv
  BY InitCoverInv
<1>3. CoverInv => PrincipalCovered
  BY CoverPrincipal
<1> QED
  BY <1>1, <1>2, <1>3, PTL DEF StakeSpec

(***************************************************************************)
(* The refinement of StakeVault, step by step.                             *)
(***************************************************************************)
\* The totals of StakeVault are those of StakePool.
LEMMA VaultTotal == \A f : Vault!Total(f) = Total(f)
<1>1. \A f : Vault!Units(f) = Units(f)
  BY Zenon DEF Vault!Units, Units
<1>2. \A S : Vault!Cardinality(S) = Cardinality(S)
  BY Zenon DEF Vault!Cardinality, Cardinality
<1> QED
  BY <1>1, <1>2 DEF Vault!Total, Total

\* Nothing is owed in reward tokens: all that is held of them may be paid.
LEMMA RewardsAreSurplus ==
  ASSUME RewardApart, StakeInv
  PROVE  /\ Owed \in [Accounts -> [StakeTokens -> Nat]]
         /\ \A u \in Accounts : Owed[u][RewardToken] = 0
         /\ Vault!Surplus(RewardToken) = balance[RewardToken]
<1>1. /\ staker \in [Accounts -> StakeUsers] /\ RewardToken \in StakeTokens
      /\ balance[RewardToken] \in Nat
  BY DEF StakeInv, StakeTypeOK, StakeTokens
<1>2. \A u \in Accounts :
        /\ \A t \in StakeTokens : Deposited(staker[u], t) \in Nat
        /\ Deposited(staker[u], RewardToken) = 0
  BY <1>1, DepositedType
<1>3. /\ Owed \in [Accounts -> [StakeTokens -> Nat]]
      /\ \A u \in Accounts : Owed[u][RewardToken] = 0
  BY <1>1, <1>2 DEF Owed
<1>4. [u \in Accounts |-> Owed[u][RewardToken]] = [u \in Accounts |-> 0]
  BY <1>3
<1>5. Total([u \in Accounts |-> Owed[u][RewardToken]]) = 0
  BY <1>4, TotalOfNothing
<1>6. Vault!Surplus(RewardToken)
        = balance[RewardToken] - Total([u \in Accounts |-> Owed[u][RewardToken]])
  BY VaultTotal DEF Vault!Surplus
<1> QED
  BY <1>1, <1>3, <1>5, <1>6

\* What is owed after a step that replaces one user's record.
LEMMA OwedAfter ==
  ASSUME StakeInv, NEW u \in Accounts, NEW v, staker' = [staker EXCEPT ![u] = v]
  PROVE  Owed' = [Owed EXCEPT ![u] = [t \in StakeTokens |-> Deposited(v, t)]]
  BY DEF StakeInv, StakeTypeOK, Owed

\* Tokens received and credited to a user are put in.
LEMMA PutInStep ==
  ASSUME RewardApart, StakeInv, NEW u \in Accounts, NEW v,
         staker' = [staker EXCEPT ![u] = v],
         NEW token \in StakeTokens, NEW n \in Nat \ {0}, Receive(token, n),
         \A t \in StakeTokens :
           Deposited(v, t) = Deposited(staker[u], t) + (IF t = token THEN n ELSE 0)
  PROVE  Vault!PutIn(u, token)
<1>1. /\ balance \in [StakeTokens -> Nat]
      /\ Owed \in [Accounts -> [StakeTokens -> Nat]]
  BY RewardsAreSurplus DEF StakeInv, StakeTypeOK
<1>2. /\ balance' = [balance EXCEPT ![token] = balance[token] + n]
      /\ balance'[token] = balance[token] + n
      /\ balance[token] \in Nat
  BY <1>1 DEF Receive
<1>3. Owed' = [Owed EXCEPT ![u] = [t \in StakeTokens |-> Deposited(v, t)]]
  BY OwedAfter
<1>4. [t \in StakeTokens |-> Deposited(v, t)]
        = [Owed[u] EXCEPT ![token] = Owed[u][token] + balance'[token] - balance[token]]
  <2>1. \A t \in StakeTokens : Owed[u][t] = Deposited(staker[u], t)
    BY DEF Owed
  <2> QED
    BY <1>1, <1>2, <2>1
<1>5. Owed' = [Owed EXCEPT ![u][token] =
                 Owed[u][token] + balance'[token] - balance[token]]
  BY <1>1, <1>3, <1>4
<1>6. balance'[token] > balance[token]
  BY <1>2
<1>7. balance' = [balance EXCEPT ![token] = balance'[token]]
  BY <1>2
<1> QED
  BY <1>5, <1>6, <1>7 DEF Vault!PutIn

\* Tokens received for nobody are a gift.
LEMMA GiftStep ==
  ASSUME StakeInv, UNCHANGED staker,
         NEW token \in StakeTokens, NEW n \in Nat \ {0}, Receive(token, n)
  PROVE  Vault!Gift(token)
<1>1. /\ balance' = [balance EXCEPT ![token] = balance[token] + n]
      /\ balance'[token] = balance[token] + n
      /\ balance[token] \in Nat
  BY DEF StakeInv, StakeTypeOK, Receive
<1>2. UNCHANGED Owed
  BY DEF Owed
<1>3. balance'[token] > balance[token]
  BY <1>1
<1>4. balance' = [balance EXCEPT ![token] = balance'[token]]
  BY <1>1
<1> QED
  BY <1>2, <1>3, <1>4 DEF Vault!Gift

\* A withdrawal takes out a part of the stake, or the stake with all that was
\* put in besides it, and pays a reward from what is owed to nobody.
LEMMA TakeOutStep ==
  ASSUME RewardApart, StakeInv, NEW u \in Accounts, NEW v,
         staker' = [staker EXCEPT ![u] = v],
         NEW n \in Nat \ {0}, n <= staker[u].amount, NEW reward \in Nat,
         v.amount = staker[u].amount - n,
         v.boost_token = WithoutStake(staker[u], n).boost_token,
         Pay(Payment(u, n, reward))
  PROVE  Vault!VaultNext
<1> DEFINE r == Returned(staker[u], n)
           paid == [t \in StakeTokens |-> (IF t = WantToken THEN n ELSE 0)
                                            + (IF t \in BoostTokens THEN r[t] ELSE 0)]
           payment == [t \in StakeTokens |-> Owed[u][t] - Owed'[u][t]]
<1>1. /\ staker[u] \in StakeUsers /\ balance \in [StakeTokens -> Nat]
      /\ staker[u].amount \in Nat /\ staker[u].boost_token \in [BoostTokens -> Nat]
      /\ WantToken \in StakeTokens /\ RewardToken \in StakeTokens
      /\ BoostTokens \subseteq StakeTokens
  BY DEF StakeInv, StakeTypeOK, StakeUsers, StakeTokens
<1>2. /\ r \in [BoostTokens -> Nat]
      /\ \A t \in BoostTokens :
           r[t] = IF n = staker[u].amount THEN staker[u].boost_token[t] ELSE 0
  BY <1>1 DEF Returned
<1>3. v.boost_token = [t \in BoostTokens |-> staker[u].boost_token[t] - r[t]]
  BY <1>1 DEF WithoutStake, StakeUsers
<1>4. \A t \in StakeTokens :
        /\ balance'[t] = balance[t] - (paid[t] + (IF t = RewardToken THEN reward ELSE 0))
        /\ paid[t] + (IF t = RewardToken THEN reward ELSE 0) <= balance[t]
        /\ balance' = [k \in StakeTokens |-> balance'[k]]
  BY DEF Pay, Payment
<1> HIDE DEF r
<1>5. /\ paid \in [StakeTokens -> Nat] /\ paid[RewardToken] = 0
      /\ \A t \in StakeTokens : Deposited(v, t) = Deposited(staker[u], t) - paid[t]
  <2>1. paid \in [StakeTokens -> Nat] /\ paid[RewardToken] = 0
    BY <1>1, <1>2 DEF RewardApart
  <2>2. ASSUME NEW t \in StakeTokens
        PROVE  Deposited(v, t) = Deposited(staker[u], t) - paid[t]
    <3>1. CASE t \in BoostTokens
      BY <1>1, <1>2, <1>3, <3>1 DEF Deposited
    <3>2. CASE t \notin BoostTokens
      BY <1>1, <3>2 DEF Deposited
    <3> QED
      BY <3>1, <3>2
  <2> QED
    BY <2>1, <2>2
<1>6. /\ Owed \in [Accounts -> [StakeTokens -> Nat]]
      /\ \A t \in StakeTokens : Owed[u][t] = Deposited(staker[u], t)
      /\ Vault!Surplus(RewardToken) = balance[RewardToken]
  BY RewardsAreSurplus DEF Owed
<1>7. Owed' = [Owed EXCEPT ![u] = [t \in StakeTokens |-> Owed[u][t] - paid[t]]]
  <2>1. [t \in StakeTokens |-> Deposited(v, t)]
          = [t \in StakeTokens |-> Owed[u][t] - paid[t]]
    BY <1>5, <1>6
  <2>2. Owed' = [Owed EXCEPT ![u] = [t \in StakeTokens |-> Deposited(v, t)]]
    BY OwedAfter
  <2> QED
    BY <2>1, <2>2
<1>8. payment = paid
  <2>1. \A t \in StakeTokens : Owed[u][t] - (Owed[u][t] - paid[t]) = paid[t]
    BY <1>5, <1>6
  <2>2. \A t \in StakeTokens : Owed'[u][t] = Owed[u][t] - paid[t]
    BY <1>6, <1>7
  <2> QED
    BY <2>1, <2>2
<1>9. \/ paid = Owed[u] /\ Owed[u][WantToken] # 0
      \/ /\ paid[WantToken] \in 1 .. Owed[u][WantToken] - 1
         /\ paid = [Vault!Nothing EXCEPT ![WantToken] = paid[WantToken]]
  <2>1. CASE n = staker[u].amount
    <3>1. \A t \in StakeTokens : Owed[u][t] = paid[t]
      BY <1>1, <1>2, <1>6, <2>1 DEF Deposited
    <3>2. Owed[u][WantToken] # 0
      BY <1>1, <1>6, <2>1 DEF Deposited
    <3> QED
      BY <1>5, <1>6, <3>1, <3>2
  <2>2. CASE n < staker[u].amount
    <3>1. \A t \in StakeTokens : paid[t] = IF t = WantToken THEN n ELSE 0
      BY <1>1, <1>2, <2>2
    <3>2. n \in 1 .. Owed[u][WantToken] - 1
      BY <1>1, <1>6, <2>2 DEF Deposited
    <3>3. paid = [[t \in StakeTokens |-> 0] EXCEPT ![WantToken] = paid[WantToken]]
      BY <1>1, <1>5, <3>1
    <3> QED
      BY <1>1, <3>1, <3>2, <3>3 DEF Vault!Nothing
  <2> QED
    BY <1>1, <2>1, <2>2
<1>10. Vault!TakeOut(u, paid)
  BY <1>6, <1>7, <1>9 DEF Vault!TakeOut
<1>11. Vault!Rewarded(paid) = reward /\ reward <= balance[RewardToken]
  BY <1>1, <1>4, <1>5 DEF Vault!Rewarded
<1> HIDE DEF paid, payment
<1>12. Vault!PayReward(paid, reward)
  <2>1. \A t \in StakeTokens :
          balance'[t] = balance[t] - paid[t] - (IF t = RewardToken THEN reward ELSE 0)
    BY <1>1, <1>4, <1>5
  <2>2. balance' = [t \in StakeTokens |->
          balance[t] - paid[t] - (IF t = RewardToken THEN reward ELSE 0)]
    BY <1>1, <1>4, <2>1
  <2>3. reward \in 0 .. Vault!Surplus(RewardToken)
    BY <1>1, <1>6, <1>11
  <2> QED
    BY <2>2, <2>3 DEF Vault!PayReward
<1> QED
  BY <1>8, <1>10, <1>11, <1>12 DEF Vault!VaultNext, payment

\* Every step of the staking contract is a step of the vault or leaves it
\* alone: one case per action.
LEMMA VaultStep ==
  ASSUME RewardApart, StakeInv, [StakeNext]_stakeVars
  PROVE  [Vault!VaultNext]_(Vault!vaultVars)
<1>1. /\ staker \in [Accounts -> StakeUsers] /\ balance \in [StakeTokens -> Nat]
      /\ WantToken \in StakeTokens /\ RewardToken \in StakeTokens
      /\ BoostTokens \subseteq StakeTokens
  BY DEF StakeInv, StakeTypeOK, StakeTokens
<1>2. /\ \A n \in Amounts : n \in Nat \ {0} /\ n \in Nat
      /\ \A n \in FundAmounts : n \in Nat \ {0}
  BY StakePoolAssumption
<1>3. ASSUME NEW u \in Accounts, NEW n \in Amounts, Deposit(u, n)
      PROVE  Vault!VaultNext
  <2> DEFINE v == UserAfterDeposit(Updated, staker[u], n)
  <2>1. staker' = [staker EXCEPT ![u] = v] /\ Receive(WantToken, n)
    BY <1>1, <1>3 DEF Deposit
  <2>2. /\ v.amount = staker[u].amount + n /\ v.boost_token = staker[u].boost_token
        /\ staker[u].amount \in Nat /\ staker[u].boost_token \in [BoostTokens -> Nat]
    BY <1>1 DEF UserAfterDeposit, StakeUsers
  <2> HIDE DEF v
  <2>3. \A t \in StakeTokens :
          Deposited(v, t) = Deposited(staker[u], t) + (IF t = WantToken THEN n ELSE 0)
    BY <1>2, <2>2 DEF Deposited
  <2>4. Vault!PutIn(u, WantToken)
    BY <1>1, <1>2, <2>1, <2>3, PutInStep
  <2> QED
    BY <1>1, <2>4 DEF Vault!VaultNext
<1>4. ASSUME NEW u \in Accounts, NEW n \in Amounts, NEW token \in BoostTokens,
             DepositBoostToken(u, token, n)
      PROVE  Vault!VaultNext
  <2> DEFINE v == UserAfterBoost(Updated, staker[u], token, n)
  <2>1. staker' = [staker EXCEPT ![u] = v] /\ Receive(token, n)
    BY <1>1, <1>4 DEF DepositBoostToken
  <2>2. CASE token \in Registered(Updated)
    <3>1. v = [staker[u] EXCEPT
                 !.reward_debt = @ + Reward(Updated, Boosted(Updated, token, n)),
                 !.boost_token[token] = @ + n]
      BY <2>2 DEF UserAfterBoost
    <3> HIDE DEF v
    <3>2. /\ v.amount = staker[u].amount
          /\ v.boost_token = [staker[u].boost_token EXCEPT ![token] = @ + n]
          /\ staker[u].amount \in Nat /\ staker[u].boost_token \in [BoostTokens -> Nat]
      BY <1>1, <3>1 DEF StakeUsers
    <3>3. \A t \in StakeTokens :
            Deposited(v, t) = Deposited(staker[u], t) + (IF t = token THEN n ELSE 0)
      BY <1>2, <3>2 DEF Deposited
    <3>4. Vault!PutIn(u, token)
      BY <1>1, <1>2, <2>1, <3>3, PutInStep
    <3> QED
      BY <1>1, <3>4 DEF Vault!VaultNext
  <2>3. CASE token \notin Registered(Updated)
    <3>1. UNCHANGED staker
      BY <1>1, <2>1, <2>3 DEF UserAfterBoost
    <3>2. Vault!Gift(token)
      BY <1>1, <1>2, <2>1, <3>1, GiftStep
    <3> QED
      BY <1>1, <3>2 DEF Vault!VaultNext
  <2> QED
    BY <2>2, <2>3
<1>5. ASSUME NEW u \in Accounts, NEW n \in Amounts, Withdraw(u, n)
      PROVE  Vault!VaultNext
  <2> DEFINE v == UserAfterWithdraw(Updated, staker[u], n)
  <2>1. /\ staker' = [staker EXCEPT ![u] = v] /\ n <= staker[u].amount
        /\ Pay(Payment(u, n, 0))
    BY <1>1, <1>5 DEF Withdraw, WithdrawFits
  <2>2. /\ v.amount = staker[u].amount - n
        /\ v.boost_token = WithoutStake(staker[u], n).boost_token
    BY <1>1, ExitParts
  <2> HIDE DEF v
  <2> QED
    BY <1>2, <2>1, <2>2, TakeOutStep
<1>6. ASSUME NEW u \in Accounts, NEW n \in Amounts, WithdrawAndHarvest(u, n)
      PROVE  Vault!VaultNext
  <2> DEFINE v == UserAfterWithdrawAndHarvest(Updated, staker[u], n)
             reward == PendingReward(stake, staker[u], now)
  <2>1. /\ staker' = [staker EXCEPT ![u] = v] /\ n <= staker[u].amount
        /\ Pay(Payment(u, n, reward)) /\ reward > 0
    BY <1>1, <1>6 DEF WithdrawAndHarvest, WithdrawFits
  <2>2. reward \in Nat
    BY <2>1, PendingType
  <2>3. /\ v.amount = staker[u].amount - n
        /\ v.boost_token = WithoutStake(staker[u], n).boost_token
    BY <1>1, ExitParts
  <2> HIDE DEF v, reward
  <2> QED
    BY <1>2, <2>1, <2>2, <2>3, TakeOutStep
<1>7. ASSUME NEW u \in Accounts, Harvest(u)
      PROVE  Vault!VaultNext
  <2> DEFINE reward == PendingReward(stake, staker[u], now)
  <2>1. /\ reward \in Int /\ reward > 0 /\ reward <= balance[RewardToken]
        /\ balance' = [balance EXCEPT ![RewardToken] = balance[RewardToken] - reward]
        /\ staker' = [staker EXCEPT ![u] = UserAfterHarvest(Updated, staker[u])]
    BY <1>1, <1>7, PendingType DEF Harvest
  <2> HIDE DEF reward
  <2>2. UNCHANGED Owed
    <3>1. \A t \in StakeTokens :
            Deposited(UserAfterHarvest(Updated, staker[u]), t) = Deposited(staker[u], t)
      BY <1>1 DEF UserAfterHarvest, Deposited, StakeUsers
    <3>2. Owed' = [Owed EXCEPT ![u] = [t \in StakeTokens |->
                     Deposited(UserAfterHarvest(Updated, staker[u]), t)]]
      BY <2>1, OwedAfter
    <3>3. Owed[u] = [t \in StakeTokens |-> Deposited(staker[u], t)]
          /\ Owed = [k \in Accounts |-> Owed[k]]
      BY DEF Owed
    <3> QED
      BY <3>1, <3>2, <3>3
  <2>3. \A t \in StakeTokens : Vault!Nothing[t] = 0
    BY DEF Vault!Nothing
  <2>4. Vault!Rewarded(Vault!Nothing) = reward
    BY <1>1, <2>1, <2>3 DEF Vault!Rewarded
  <2>5. reward \in 0 .. Vault!Surplus(RewardToken)
    BY <1>1, <2>1, RewardsAreSurplus
  <2>6. balance' = [t \in StakeTokens |->
          balance[t] - Vault!Nothing[t] - (IF t = RewardToken THEN reward ELSE 0)]
    <3>1. \A t \in StakeTokens :
            balance'[t]
              = balance[t] - Vault!Nothing[t] - (IF t = RewardToken THEN reward ELSE 0)
      <4>1. \A t \in StakeTokens : balance[t] \in Nat
        BY <1>1
      <4> QED
        BY <1>1, <2>1, <2>3, <4>1
    <3>2. balance' = [t \in StakeTokens |-> balance'[t]]
      BY <1>1, <2>1
    <3> QED
      BY <3>1, <3>2
  <2>7. Vault!PayReward(Vault!Nothing, reward)
    BY <2>5, <2>6 DEF Vault!PayReward
  <2> QED
    BY <2>2, <2>4, <2>7 DEF Vault!VaultNext
<1>8. ASSUME NEW n \in FundAmounts, UNCHANGED staker, Receive(RewardToken, n)
      PROVE  Vault!VaultNext
  <2>1. Vault!Gift(RewardToken)
    BY <1>1, <1>2, <1>8, GiftStep
  <2> QED
    BY <1>1, <2>1 DEF Vault!VaultNext
<1>9. ASSUME UNCHANGED <<staker, balance>>
      PROVE  UNCHANGED Vault!vaultVars
  BY <1>9 DEF Vault!vaultVars, Owed
<1>10. CASE StakerNext
  BY <1>3, <1>4, <1>5, <1>6, <1>7, <1>10 DEF StakerNext
<1>11. CASE StakeOwnerNext
  BY <1>9, <1>11, OwnerMovesNothing
<1>12. CASE StakeEnvironmentNext
  BY <1>8, <1>9, <1>12, EnvironmentMovesNothing
<1>13. CASE UNCHANGED stakeVars
  BY <1>9, <1>13 DEF stakeVars
<1> QED
  BY <1>10, <1>11, <1>12, <1>13 DEF StakeNext

\* At first nothing is held or owed.
LEMMA VaultStart == StakeInit => Vault!VaultInit
<1> SUFFICES ASSUME StakeInit PROVE Vault!VaultInit
  OBVIOUS
<1>1. \A u \in Accounts, t \in StakeTokens : Deposited(staker[u], t) = 0
  BY DEF StakeInit, DefaultStakeUser, Deposited
<1>2. Owed = [u \in Accounts |-> Vault!Nothing]
  BY <1>1 DEF Owed, Vault!Nothing
<1> QED
  BY <1>2 DEF StakeInit, Vault!VaultInit, Vault!Nothing

\* The staking contract keeps the promises of StakeVault: whatever users and
\* owner do, in any order, a deposit goes back to who made it, in full and
\* once, and no reward is paid out of one (stake.rs:47-212).
THEOREM ImplementsVault == RewardApart => (StakeSpec => ImplementsStakeVault)
<1> SUFFICES ASSUME RewardApart PROVE StakeSpec => ImplementsStakeVault
  OBVIOUS
<1>1. StakeInit => Vault!VaultInit
  BY VaultStart
<1>2. StakeInv /\ [StakeNext]_stakeVars => [Vault!VaultNext]_(Vault!vaultVars)
  BY VaultStep
<1> QED
  BY <1>1, <1>2, StakeInvariant, PTL DEF StakeSpec, ImplementsStakeVault, Vault!VaultSpec
(***************************************************************************)
(* The rewards.  What one operation makes of a user's pending reward is a  *)
(* matter of rounding: of rewards, and of the weight of boost tokens.      *)
(***************************************************************************)
\* The weight of a user's boost tokens.
BoostWeight(p, added) == Total([t \in Registered(p) |-> Boosted(p, t, added[t])])

\* The pending reward of a user whose pool is up to date.
Pending(p, u) == Reward(p, UserWeight(p, u)) - u.reward_debt

\* The rewards of a sum, and of more.
LEMMA RewardOfSum ==
  ASSUME NEW p \in PoolInfos, NEW x \in Nat, NEW y \in Nat
  PROVE  /\ Reward(p, x) \in Nat /\ Reward(p, y) \in Nat /\ Reward(p, x + y) \in Nat
         /\ Reward(p, x) + Reward(p, y) <= Reward(p, x + y)
         /\ Reward(p, x + y) <= Reward(p, x) + Reward(p, y) + 1
<1>1. PICK acc \in Nat : acc = p.acc_reward_per_share
  BY DEF PoolInfos
<1>2. x + y \in Nat /\ (x + y) * acc = x * acc + y * acc
  BY SMT
<1>3. x * acc \in Nat /\ y * acc \in Nat
  BY ProductType
<1>4. /\ (x * acc) \div AccRewardPrecision + (y * acc) \div AccRewardPrecision
           <= (x * acc + y * acc) \div AccRewardPrecision
      /\ (x * acc + y * acc) \div AccRewardPrecision
           <= (x * acc) \div AccRewardPrecision + (y * acc) \div AccRewardPrecision + 1
  BY <1>3, QuotientOfSum, StakeInfoAssumption
<1>5. Reward(p, x) \in Nat /\ Reward(p, y) \in Nat /\ Reward(p, x + y) \in Nat
  BY <1>2, RewardType
<1>6. /\ Reward(p, x) = (x * acc) \div AccRewardPrecision
      /\ Reward(p, y) = (y * acc) \div AccRewardPrecision
      /\ Reward(p, x + y) = (x * acc + y * acc) \div AccRewardPrecision
  BY <1>1, <1>2 DEF Reward
<1> QED
  BY <1>4, <1>5, <1>6

\* Boost tokens have a weight, none a weight of 0.
LEMMA BoostWeightType ==
  ASSUME NEW p, Used(p), NEW added \in [BoostTokens -> Nat]
  PROVE  /\ BoostWeight(p, added) \in Nat
         /\ (\A t \in BoostTokens : added[t] = 0) => BoostWeight(p, added) = 0
<1> DEFINE f == [t \in Registered(p) |-> Boosted(p, t, added[t])]
<1>1. f \in [Registered(p) -> Nat]
  BY BoostedType DEF Used, Registered
<1>2. Total(f) \in Nat
  BY <1>1, UnitsOfFinite DEF Used
<1>3. ASSUME \A t \in BoostTokens : added[t] = 0
      PROVE  Total(f) = 0
  <2>1. ASSUME NEW t \in Registered(p)
        PROVE  f[t] = 0
    <3>1. t \in BoostTokens /\ p.boost_tokens[t].multiplier \in Nat
      BY RegisteredBoost DEF Registered, Boosts, Used
    <3>2. p.boost_tokens[t].multiplier * 0 = 0
      BY <3>1, SMT
    <3>3. 0 \div BoostMultiplierPrecision = 0
      BY StakeInfoAssumption, SMT
    <3> QED
      BY <1>3, <3>1, <3>2, <3>3 DEF Boosted
  <2>2. f = [t \in Registered(p) |-> 0]
    BY <2>1
  <2> QED
    BY <2>2, TotalOfNothing
<1> QED
  BY <1>2, <1>3 DEF BoostWeight

\* More boost tokens weigh more, by their own weight and a rounding; by their
\* own weight if the multiplier is a whole number.
Exact(p, token) == p.boost_tokens[token].multiplier % BoostMultiplierPrecision = 0

LEMMA BoostWeightGrows ==
  ASSUME NEW p, Used(p), NEW added \in [BoostTokens -> Nat],
         NEW token \in Registered(p), NEW n \in Nat,
         NEW more, more = [added EXCEPT ![token] = added[token] + n]
  PROVE  /\ Boosted(p, token, n) \in Nat
         /\ BoostWeight(p, more) \in Nat
         /\ BoostWeight(p, more) <= BoostWeight(p, added) + Boosted(p, token, n) + 1
         /\ Exact(p, token) =>
              BoostWeight(p, more) <= BoostWeight(p, added) + Boosted(p, token, n)
<1> DEFINE f == [t \in Registered(p) |-> Boosted(p, t, added[t])]
           g == [t \in Registered(p) |-> Boosted(p, t, more[t])]
<1>1. /\ token \in BoostTokens /\ added[token] \in Nat
      /\ more \in [BoostTokens -> Nat] /\ more[token] = added[token] + n
      /\ \A t \in BoostTokens \ {token} : more[t] = added[t]
  BY DEF Registered
<1>2. f \in [Registered(p) -> Nat] /\ g \in [Registered(p) -> Nat]
  BY <1>1, BoostedType DEF Used, Registered
<1>3. g = [f EXCEPT ![token] = Boosted(p, token, added[token] + n)]
  BY <1>1 DEF Registered
<1>4. PICK x \in Nat, y \in Nat, z \in Nat :
        /\ x = Boosted(p, token, added[token]) /\ y = Boosted(p, token, n)
        /\ z = Boosted(p, token, added[token] + n)
  <2>1. added[token] + n \in Nat
    BY <1>1
  <2> QED
    BY <1>1, <2>1, BoostedType DEF Used
<1>5. z <= x + y + 1 /\ (Exact(p, token) => z <= x + y)
  <2>1. PICK m \in Nat, b \in Nat : m = p.boost_tokens[token].multiplier /\ b = added[token]
    BY <1>1, RegisteredBoost DEF Boosts, Used
  <2>2. m * (b + n) = m * b + m * n /\ m * b \in Nat /\ m * n \in Nat
    BY ProductOfSum, ProductType
  <2>3. z <= x + y + 1
    BY <1>4, <2>1, <2>2, QuotientOfSum, StakeInfoAssumption DEF Boosted
  <2>4. ASSUME Exact(p, token)
        PROVE  z <= x + y
    <3>1. PICK k : k = m \div BoostMultiplierPrecision
      OBVIOUS
    <3>2. /\ m % BoostMultiplierPrecision = 0 /\ b + n \in Nat
          /\ BoostMultiplierPrecision \in Nat \ {0}
      BY <2>1, <2>4, StakeInfoAssumption DEF Exact
    <3>3. /\ x = (m * b) \div BoostMultiplierPrecision
          /\ y = (m * n) \div BoostMultiplierPrecision
          /\ z = (m * (b + n)) \div BoostMultiplierPrecision
      BY <1>4, <2>1 DEF Boosted
    <3>4. x = k * b /\ y = k * n /\ z = k * (b + n) /\ k \in Nat
      <4>1. PICK d \in Nat \ {0} : d = BoostMultiplierPrecision
        BY <3>2
      <4>2. m % d = 0
        BY <3>2, <4>1
      <4>3. /\ (m * b) \div d = (m \div d) * b
            /\ (m * n) \div d = (m \div d) * n
            /\ (m * (b + n)) \div d = (m \div d) * (b + n)
        BY <3>2, <4>2, QuotientOfMultiple
      <4>4. k \in Nat
        BY <3>1, <4>1, QuotientType
      <4> QED
        BY <3>1, <3>3, <4>1, <4>3, <4>4
    <3>5. k * (b + n) = k * b + k * n
      BY <3>4, ProductOfSum
    <3> QED
      BY <3>4, <3>5
  <2> QED
    BY <2>3, <2>4
<1>6. f[token] = x
  BY <1>4
<1> HIDE DEF f, g
<1>7. IsFiniteSet(Units(f)) /\ Total(f) \in Nat /\ Total(g) \in Nat
  BY <1>2, UnitsOfFinite DEF Used
<1>8. Total(g) = Total(f) + z - f[token]
  <2>1. g = [f EXCEPT ![token] = z]
    BY <1>3, <1>4
  <2>2. PICK R, b, c : R = Registered(p) /\ b = f /\ c = g
    OBVIOUS
  <2>3. /\ b \in [R -> Nat] /\ IsFiniteSet(Units(b)) /\ token \in R
        /\ c = [b EXCEPT ![token] = z]
    BY <1>2, <1>7, <2>1, <2>2
  <2>4. Total(c) = Total(b) + z - b[token]
    BY <2>3, TotalOfChange
  <2> QED
    BY <2>2, <2>4
<1>9. Total(g) <= Total(f) + y + 1 /\ (Exact(p, token) => Total(g) <= Total(f) + y)
  BY <1>4, <1>5, <1>6, <1>7, <1>8
<1> QED
  BY <1>4, <1>7, <1>9 DEF BoostWeight, f, g

\* deposit gives its user at most one unit.
LEMMA DepositGain ==
  ASSUME NEW p, Used(p), NEW u, Whole(p, u), NEW n \in Nat
  PROVE  Pending(p, UserAfterDeposit(p, u, n)) - Pending(p, u) <= 1
<1> DEFINE v == UserAfterDeposit(p, u, n)
<1>1. p \in PoolInfos /\ u \in StakeUsers
  BY DEF Used, Whole
<1>2. PICK w \in Nat, a \in Nat, d \in Int :
        w = BoostWeight(p, u.boost_token) /\ a = u.amount /\ d = u.reward_debt
  BY <1>1, BoostWeightType DEF StakeUsers
<1>3. v.amount = a + n /\ v.boost_token = u.boost_token /\ v.reward_debt = d + Reward(p, n)
  BY <1>1, <1>2 DEF UserAfterDeposit, StakeUsers
<1>4. UserWeight(p, u) = a + w /\ UserWeight(p, v) = (a + w) + n
  BY <1>2, <1>3 DEF UserWeight, BoostWeight
<1>5. /\ Reward(p, a + w) \in Nat /\ Reward(p, n) \in Nat
      /\ Reward(p, (a + w) + n) \in Nat
      /\ Reward(p, (a + w) + n) <= Reward(p, a + w) + Reward(p, n) + 1
  <2>1. a + w \in Nat
    OBVIOUS
  <2> QED
    BY <1>1, <2>1, RewardOfSum
<1>6. /\ Pending(p, v) = Reward(p, (a + w) + n) - (d + Reward(p, n))
      /\ Pending(p, u) = Reward(p, a + w) - d
  BY <1>2, <1>3, <1>4 DEF Pending
<1> QED
  BY <1>5, <1>6

\* deposit_boost_token gives its user at most two units and the reward of a
\* weight of one.
LEMMA BoostGain ==
  ASSUME NEW p, Used(p), NEW u, Whole(p, u), NEW token \in Registered(p), NEW n \in Nat
  PROVE  Pending(p, UserAfterBoost(p, u, token, n)) - Pending(p, u) <= 2 + Reward(p, 1)
<1> DEFINE v == UserAfterBoost(p, u, token, n)
<1>1. p \in PoolInfos /\ u \in StakeUsers /\ u.boost_token \in [BoostTokens -> Nat]
  BY DEF Used, Whole, StakeUsers
<1> DEFINE more == [u.boost_token EXCEPT ![token] = u.boost_token[token] + n]
<1>2. /\ v.amount = u.amount /\ v.boost_token = more
      /\ v.reward_debt = u.reward_debt + Reward(p, Boosted(p, token, n))
  BY <1>1 DEF UserAfterBoost, StakeUsers
<1>3. /\ Boosted(p, token, n) \in Nat
      /\ BoostWeight(p, more) \in Nat
      /\ BoostWeight(p, more) <= BoostWeight(p, u.boost_token) + Boosted(p, token, n) + 1
  BY <1>1, BoostWeightGrows
<1> HIDE DEF more
<1>4. PICK w \in Nat, x \in Nat, y \in Nat, a \in Nat, d \in Int :
        /\ w = BoostWeight(p, u.boost_token) /\ a = u.amount /\ d = u.reward_debt
        /\ x = BoostWeight(p, more) /\ y = Boosted(p, token, n)
        /\ x <= w + y + 1
  BY <1>1, <1>3, BoostWeightType DEF StakeUsers
<1>5. UserWeight(p, u) = a + w /\ UserWeight(p, v) = a + x
  BY <1>2, <1>4 DEF UserWeight, BoostWeight
<1>6. /\ Reward(p, a + x) \in Nat /\ Reward(p, a + w) \in Nat
      /\ Reward(p, y) \in Nat /\ Reward(p, 1) \in Nat
      /\ Reward(p, a + x) <= Reward(p, a + w) + Reward(p, y) + Reward(p, 1) + 2
  <2>1. /\ a + w \in Nat /\ a + x \in Nat /\ (a + w) + y \in Nat
        /\ ((a + w) + y) + 1 \in Nat
        /\ (((a + w) + y) + 1) - (a + x) \in Nat
        /\ (a + x) + ((((a + w) + y) + 1) - (a + x)) = ((a + w) + y) + 1
    BY <1>4
  <2>2. /\ Reward(p, a + x) + Reward(p, (((a + w) + y) + 1) - (a + x))
             <= Reward(p, ((a + w) + y) + 1)
        /\ Reward(p, (((a + w) + y) + 1) - (a + x)) \in Nat
        /\ Reward(p, a + x) \in Nat /\ Reward(p, ((a + w) + y) + 1) \in Nat
    BY <1>1, <2>1, RewardOfSum
  <2>3. /\ Reward(p, ((a + w) + y) + 1) <= Reward(p, (a + w) + y) + Reward(p, 1) + 1
        /\ Reward(p, (a + w) + y) \in Nat /\ Reward(p, 1) \in Nat
    BY <1>1, <2>1, RewardOfSum
  <2>4. /\ Reward(p, (a + w) + y) <= Reward(p, a + w) + Reward(p, y) + 1
        /\ Reward(p, a + w) \in Nat /\ Reward(p, y) \in Nat
    BY <1>1, <2>1, RewardOfSum
  <2> QED
    BY <2>2, <2>3, <2>4
<1>7. /\ Pending(p, v) = Reward(p, a + x) - (d + Reward(p, y))
      /\ Pending(p, u) = Reward(p, a + w) - d
  BY <1>2, <1>4, <1>5 DEF Pending
<1> QED
  BY <1>6, <1>7

\* The weight left after a withdrawal, and the weight withdrawn: at least n.
LEMMA WeightLeft ==
  ASSUME NEW p, Used(p), NEW u, Whole(p, u), NEW n \in Nat, WithdrawFits(p, u, n)
  PROVE  /\ UserWeight(p, u) \in Nat
         /\ UserWeight(p, WithoutStake(u, n)) \in Nat
         /\ UserWeight(p, WithoutStake(u, n)) + n <= UserWeight(p, u)
<1> DEFINE v == WithoutStake(u, n)
<1>1. u \in StakeUsers /\ u.amount \in Nat /\ u.boost_token \in [BoostTokens -> Nat]
  BY DEF Whole, StakeUsers
<1>2. v \in StakeUsers
  BY WithdrawMoves DEF Moves, Whole
<1>3. v = [u EXCEPT !.amount = u.amount - n,
                    !.boost_token = [t \in BoostTokens |->
                       u.boost_token[t] - Returned(u, n)[t]]]
  BY DEF WithoutStake
<1>4. /\ v.amount = u.amount - n
      /\ v.boost_token = [t \in BoostTokens |-> u.boost_token[t] - Returned(u, n)[t]]
  BY <1>1, <1>3 DEF StakeUsers
<1> HIDE DEF v
<1>5. \A t \in BoostTokens :
        v.boost_token[t] = IF n = u.amount THEN 0 ELSE u.boost_token[t]
  BY <1>1, <1>4 DEF Returned
<1>6. PICK w \in Nat, x \in Nat :
        w = BoostWeight(p, u.boost_token) /\ x = BoostWeight(p, v.boost_token)
  BY <1>1, <1>2, BoostWeightType DEF StakeUsers
<1>7. x <= w
  <2>1. CASE n = u.amount
    BY <1>2, <1>5, <1>6, <2>1, BoostWeightType DEF StakeUsers
  <2>2. CASE n # u.amount
    <3>1. v.boost_token = u.boost_token
      BY <1>1, <1>2, <1>5, <2>2 DEF StakeUsers
    <3> QED
      BY <1>6, <3>1
  <2> QED
    BY <2>1, <2>2
<1>8. n <= u.amount
  BY DEF WithdrawFits
<1>9. UserWeight(p, u) = u.amount + w /\ UserWeight(p, v) = u.amount - n + x
  BY <1>4, <1>6 DEF UserWeight, BoostWeight
<1>10. /\ UserWeight(p, u) \in Nat /\ UserWeight(p, v) \in Nat
       /\ UserWeight(p, v) + n <= UserWeight(p, u)
  BY <1>1, <1>7, <1>8, <1>9
<1> QED
  BY <1>10 DEF v

\* The weight does not depend on the debt.
LEMMA WeightWithoutDebt ==
  ASSUME NEW p, NEW u \in StakeUsers, NEW debt \in Int
  PROVE  /\ UserWeight(p, [u EXCEPT !.reward_debt = debt]) = UserWeight(p, u)
         /\ [u EXCEPT !.reward_debt = debt].reward_debt = debt
  BY DEF UserWeight, StakeUsers

\* withdraw gives its user nothing.
LEMMA WithdrawGain ==
  ASSUME NEW p, Used(p), NEW u, Whole(p, u), NEW n \in Nat, WithdrawFits(p, u, n)
  PROVE  Pending(p, UserAfterWithdraw(p, u, n)) - Pending(p, u) <= 0
<1> DEFINE left == WithoutStake(u, n)
           v == UserAfterWithdraw(p, u, n)
<1>1. p \in PoolInfos /\ u \in StakeUsers /\ left \in StakeUsers
  BY WithdrawMoves DEF Used, Whole, Moves
<1>2. left.reward_debt = u.reward_debt /\ u.reward_debt \in Int
  BY <1>1 DEF WithoutStake, StakeUsers
<1> HIDE DEF left
<1>3. PICK w \in Nat, x \in Nat, k \in Nat, d \in Int :
        /\ w = UserWeight(p, u) /\ x = UserWeight(p, left) /\ k = w - x
        /\ d = u.reward_debt
  <2>1. /\ UserWeight(p, u) \in Nat /\ UserWeight(p, left) \in Nat
        /\ UserWeight(p, left) + n <= UserWeight(p, u)
    BY WeightLeft DEF left
  <2>2. UserWeight(p, u) - UserWeight(p, left) \in Nat
    BY <2>1
  <2> QED
    BY <1>2, <2>1, <2>2
<1>4. /\ Reward(p, x) \in Nat /\ Reward(p, k) \in Nat /\ Reward(p, w) \in Nat
      /\ Reward(p, x) + Reward(p, k) <= Reward(p, w)
  <2>1. x + k = w
    BY <1>3
  <2> QED
    BY <1>1, <2>1, RewardOfSum
<1>5. v = [left EXCEPT !.reward_debt = d - Reward(p, k)]
  BY <1>2, <1>3 DEF UserAfterWithdraw, left
<1>6. UserWeight(p, v) = x /\ v.reward_debt = d - Reward(p, k)
  <2>1. d - Reward(p, k) \in Int
    BY <1>4
  <2> QED
    BY <1>1, <1>3, <1>5, <2>1, WeightWithoutDebt
<1>7. /\ Pending(p, v) = Reward(p, x) - (d - Reward(p, k))
      /\ Pending(p, u) = Reward(p, w) - d
  BY <1>3, <1>6 DEF Pending
<1> QED
  BY <1>4, <1>7

\* withdraw_and_harvest leaves nothing pending.
LEMMA WithdrawAndHarvestGain ==
  ASSUME NEW p, Used(p), NEW u, Whole(p, u), NEW n \in Nat, WithdrawFits(p, u, n)
  PROVE  Pending(p, UserAfterWithdrawAndHarvest(p, u, n)) <= 0
<1> DEFINE left == WithoutStake(u, n)
           v == UserAfterWithdrawAndHarvest(p, u, n)
<1>1. p \in PoolInfos /\ u \in StakeUsers /\ left \in StakeUsers
  BY WithdrawMoves DEF Used, Whole, Moves
<1> HIDE DEF left
<1>2. PICK w \in Nat, x \in Nat, k \in Nat :
        w = UserWeight(p, u) /\ x = UserWeight(p, left) /\ k = w - (x + n)
  BY WeightLeft DEF left
<1>3. /\ Reward(p, x) \in Nat /\ Reward(p, n) \in Nat /\ Reward(p, w) \in Nat
      /\ Reward(p, x) + Reward(p, n) <= Reward(p, w)
  <2>1. (x + n) + k = w /\ x + n \in Nat
    BY <1>2
  <2>2. /\ Reward(p, x + n) + Reward(p, k) <= Reward(p, w)
        /\ Reward(p, x + n) \in Nat /\ Reward(p, k) \in Nat /\ Reward(p, w) \in Nat
    BY <1>1, <2>1, RewardOfSum
  <2>3. /\ Reward(p, x) + Reward(p, n) <= Reward(p, x + n)
        /\ Reward(p, x) \in Nat /\ Reward(p, n) \in Nat
    BY <1>1, RewardOfSum
  <2> QED
    BY <2>2, <2>3
<1>4. v = [left EXCEPT !.reward_debt = Reward(p, w) - Reward(p, n)]
  BY <1>2 DEF UserAfterWithdrawAndHarvest, left
<1>5. UserWeight(p, v) = x /\ v.reward_debt = Reward(p, w) - Reward(p, n)
  <2>1. Reward(p, w) - Reward(p, n) \in Int
    BY <1>3
  <2> QED
    BY <1>1, <1>2, <1>4, <2>1, WeightWithoutDebt
<1>6. Pending(p, v) = Reward(p, x) - (Reward(p, w) - Reward(p, n))
  BY <1>5 DEF Pending
<1> QED
  BY <1>3, <1>6

\* harvest leaves nothing pending.
LEMMA HarvestGain ==
  ASSUME NEW p, Used(p), NEW u, Whole(p, u)
  PROVE  Pending(p, UserAfterHarvest(p, u)) = 0
<1>1. p \in PoolInfos /\ u \in StakeUsers
  BY DEF Used, Whole
<1>2. Reward(p, UserWeight(p, u)) \in Nat
  BY <1>1, UserWeightType, RewardType
<1>3. Reward(p, UserWeight(p, u)) \in Int
  BY <1>2
<1> QED
  BY <1>1, <1>2, <1>3, WeightWithoutDebt DEF UserAfterHarvest, Pending

(***************************************************************************)
(* The pool q shares as p does: the reward per share and the multipliers   *)
(* are those of p, and q may have more tokens registered.                  *)
(***************************************************************************)
SharesAs(p, q) ==
  /\ Used(q)
  /\ q.acc_reward_per_share = p.acc_reward_per_share
  /\ q.last_update_timestamp = p.last_update_timestamp
  /\ Registered(p) \subseteq Registered(q)
  /\ \A t \in Registered(p) :
       q.boost_tokens[t].multiplier = p.boost_tokens[t].multiplier

\* A weight depends on the pool only through what it shares by.
LEMMA SameWeight ==
  ASSUME NEW p, Used(p), NEW q, SharesAs(p, q), NEW u, Whole(p, u)
  PROVE  UserWeight(q, u) = UserWeight(p, u)
<1> DEFINE f == [t \in Registered(p) |-> Boosted(p, t, u.boost_token[t])]
           g == [t \in Registered(q) |-> Boosted(q, t, u.boost_token[t])]
<1>1. /\ u.boost_token \in [BoostTokens -> Nat]
      /\ Registered(p) \subseteq Registered(q) /\ Used(q)
  BY DEF Whole, StakeUsers, SharesAs
<1>2. f \in [Registered(p) -> Nat] /\ g \in [Registered(q) -> Nat]
  BY <1>1, BoostedType DEF Used, Registered
<1>3. \A t \in Registered(p) : g[t] = f[t]
  BY <1>1 DEF SharesAs, Boosted
<1>4. ASSUME NEW t \in Registered(q) \ Registered(p)
      PROVE  g[t] = 0
  <2>1. t \in BoostTokens /\ q.boost_tokens[t].multiplier \in Nat
    BY <1>1, RegisteredBoost DEF Registered, Boosts, Used
  <2>2. u.boost_token[t] = 0
    BY <2>1, <1>4 DEF Whole
  <2>3. q.boost_tokens[t].multiplier * 0 = 0
    BY <2>1, SMT
  <2>4. 0 \div BoostMultiplierPrecision = 0
    BY StakeInfoAssumption, SMT
  <2> QED
    BY <2>2, <2>3, <2>4 DEF Boosted
<1> HIDE DEF f, g
<1>5. Total(g) = Total(f)
  <2>1. PICK R, S, b, c : R = Registered(p) /\ S = Registered(q) /\ b = f /\ c = g
    OBVIOUS
  <2>2. /\ R \subseteq S /\ b \in [R -> Nat] /\ c \in [S -> Nat]
        /\ \A t \in R : c[t] = b[t]
        /\ \A t \in S \ R : c[t] = 0
    BY <1>1, <1>2, <1>3, <1>4, <2>1
  <2>3. Total(c) = Total(b)
    BY <2>2, TotalOfHolders
  <2> QED
    BY <2>1, <2>3
<1> QED
  BY <1>5 DEF UserWeight, f, g

\* So does what is pending.
LEMMA SamePending ==
  ASSUME NEW p, Used(p), NEW q, SharesAs(p, q), NEW u, Whole(p, u)
  PROVE  Pending(q, u) = Pending(p, u)
<1>1. UserWeight(q, u) = UserWeight(p, u)
  BY SameWeight
<1>2. \A w : Reward(q, w) = Reward(p, w)
  BY DEF Reward, SharesAs
<1> QED
  BY <1>1, <1>2 DEF Pending

\* The pool that deposit leaves shares as before.
LEMMA DepositShares ==
  ASSUME NEW p, Used(p), NEW n \in Nat
  PROVE  SharesAs(p, PoolAfterDeposit(p, n))
<1> DEFINE q == PoolAfterDeposit(p, n)
<1>1. /\ q \in PoolInfos /\ q.boost_tokens = p.boost_tokens
      /\ q.acc_reward_per_share = p.acc_reward_per_share
      /\ q.last_update_timestamp = p.last_update_timestamp
  BY DEF PoolAfterDeposit, Used, PoolInfos
<1>2. Registered(q) = Registered(p)
  BY <1>1 DEF Registered
<1> QED
  BY <1>1, <1>2 DEF SharesAs, Used

\* The pool that deposit_boost_token leaves shares as before.
LEMMA BoostShares ==
  ASSUME NEW p, Used(p), NEW token \in Registered(p), NEW n \in Nat
  PROVE  SharesAs(p, PoolAfterBoost(p, token, n))
<1> DEFINE q == PoolAfterBoost(p, token, n)
<1>1. token \in BoostTokens /\ p.boost_tokens[token] \in Boosts
  BY RegisteredBoost DEF Used, Registered
<1>2. PICK entry \in Boosts :
        /\ entry = [p.boost_tokens[token] EXCEPT !.total_staked = @ + n]
        /\ entry.multiplier = p.boost_tokens[token].multiplier
  <2>1. [p.boost_tokens[token] EXCEPT !.total_staked = @ + n] \in Boosts
    BY <1>1 DEF Boosts
  <2>2. [p.boost_tokens[token] EXCEPT !.total_staked = @ + n].multiplier
          = p.boost_tokens[token].multiplier
    BY <1>1 DEF Boosts
  <2> QED
    BY <2>1, <2>2
<1>3. q = [p EXCEPT !.boost_tokens[token] = entry]
  BY <1>2 DEF PoolAfterBoost
<1> HIDE DEF q
<1>4. /\ q \in PoolInfos /\ q.boost_tokens[token] = entry
      /\ \A t \in BoostTokens \ {token} : q.boost_tokens[t] = p.boost_tokens[t]
      /\ q.acc_reward_per_share = p.acc_reward_per_share
      /\ q.last_update_timestamp = p.last_update_timestamp
  BY <1>1, <1>2, <1>3 DEF Used, PoolInfos
<1>5. None \notin Boosts
  BY StakeInfoAssumption DEF Boosts
<1>6. Registered(q) = Registered(p)
  BY <1>1, <1>2, <1>4, <1>5 DEF Registered
<1>7. \A t \in Registered(p) :
        q.boost_tokens[t].multiplier = p.boost_tokens[t].multiplier
  BY <1>2, <1>4 DEF Registered
<1>8. SharesAs(p, q)
  BY <1>4, <1>6, <1>7 DEF SharesAs, Used
<1> QED
  BY <1>8 DEF q

\* So does the pool that a withdrawal leaves.
LEMMA WithdrawShares ==
  ASSUME NEW p, Used(p), NEW u, Whole(p, u), NEW n \in Nat, WithdrawFits(p, u, n)
  PROVE  SharesAs(p, PoolAfterWithdraw(p, u, n))
<1> DEFINE q == PoolAfterWithdraw(p, u, n)
<1>1. Used(q) /\ Registered(q) = Registered(p)
  BY WithdrawMoves DEF Moves
<1>2. q = [p EXCEPT !.total_staked = p.total_staked - n,
                    !.boost_tokens = [t \in BoostTokens |->
            IF t \in Registered(p)
            THEN LessBoost(p.boost_tokens[t], Returned(u, n)[t])
            ELSE None]]
  BY DEF PoolAfterWithdraw
<1> HIDE DEF q
<1>3. /\ \A t \in BoostTokens : t \in Registered(p) =>
           q.boost_tokens[t] = LessBoost(p.boost_tokens[t], Returned(u, n)[t])
      /\ q.acc_reward_per_share = p.acc_reward_per_share
      /\ q.last_update_timestamp = p.last_update_timestamp
  BY <1>2 DEF Used, PoolInfos
<1>4. ASSUME NEW t \in Registered(p)
      PROVE  q.boost_tokens[t].multiplier = p.boost_tokens[t].multiplier
  <2>1. t \in BoostTokens /\ p.boost_tokens[t] \in Boosts
    BY RegisteredBoost DEF Used, Registered
  <2>2. q.boost_tokens[t] = LessBoost(p.boost_tokens[t], Returned(u, n)[t])
    BY <1>3, <2>1
  <2> QED
    BY <2>1, <2>2 DEF LessBoost, Boosts
<1>5. SharesAs(p, q)
  BY <1>1, <1>3, <1>4 DEF SharesAs
<1> QED
  BY <1>5 DEF q

\* What is earned is pending once the pool is up to date.
LEMMA EarnedIsPending ==
  ASSUME StakeInv
  PROVE  \A u \in Accounts : Earned(u) = Pending(Updated, staker[u])
<1>1. /\ Used(Updated) /\ Updated.boost_tokens = stake.boost_tokens
      /\ Registered(Updated) = Registered(stake)
  BY UpdateRewardType DEF Updated, StakeInv, StakeTypeOK, Used
<1>2. \A u : UserWeight(Updated, u) = UserWeight(stake, u)
  BY <1>1 DEF UserWeight, Boosted
<1> QED
  BY <1>2 DEF Earned, PendingReward, Pending, Updated

\* And it still is after a step that takes no time and shares as before.
LEMMA EarnedAfter ==
  ASSUME StakeInv, StakeInv', SharesAs(Updated, stake'), now' = now,
         NEW u \in Accounts, Whole(Updated, staker'[u])
  PROVE  Earned(u)' = Pending(Updated, staker'[u])
<1>1. Used(Updated)
  BY UpdatedPool
<1>2. Pending(stake', staker'[u]) = Pending(Updated, staker'[u])
  BY <1>1, SamePending
<1>3. Updated.last_update_timestamp = now
  BY DEF Updated, UpdateReward, StakeInv, StakeTypeOK, PoolInfos
<1>4. /\ stake'.last_update_timestamp = now /\ stake' \in PoolInfos /\ now \in Nat
  BY <1>3 DEF SharesAs, Used, StakeInv, StakeTypeOK
<1>5. UpdateReward(stake', now).acc_reward_per_share = stake'.acc_reward_per_share
  BY <1>4 DEF UpdateReward, AccRewardPerShare, PoolInfos
<1>6. \A w : Reward(UpdateReward(stake', now), w) = Reward(stake', w)
  BY <1>5 DEF Reward
<1> QED
  BY <1>2, <1>6 DEF Earned, PendingReward, Pending

(***************************************************************************)
(* The steps.  What nobody's own step changes stays; whose record changes  *)
(* is bounded by the lemmas above.                                         *)
(***************************************************************************)
OnlyByTime ==
  \A u \in Accounts :
    LET gain == Earned(u)' - Earned(u)
    IN IF staker'[u] = staker[u]
       THEN gain = 0
       ELSE IF \E t \in BoostTokens :
                 staker'[u].boost_token[t] > staker[u].boost_token[t]
            THEN gain <= 2 + Reward(stake', 1)
            ELSE gain + Paid <= 1

\* A step of one user: the others' rewards stay, its own is bounded.
LEMMA UserStep ==
  ASSUME StakeInv, StakeInv', now' = now, NEW to \in Accounts, NEW v,
         SharesAs(Updated, stake'), Whole(Updated, v),
         staker' = [staker EXCEPT ![to] = v],
         LET gain == Pending(Updated, v) - Pending(Updated, staker[to])
         IN \/ gain + Paid <= 1 /\ gain <= 1
            \/ /\ gain <= 2 + Reward(Updated, 1)
               /\ \E t \in BoostTokens : v.boost_token[t] > staker[to].boost_token[t]
  PROVE  OnlyByTime
<1>1. /\ Used(Updated) /\ staker \in [Accounts -> StakeUsers]
      /\ \A u \in Accounts : Whole(Updated, staker[u])
  BY UpdatedPool DEF StakeInv, StakeTypeOK
<1>2. \A u \in Accounts : staker'[u] = IF u = to THEN v ELSE staker[u]
  BY <1>1
<1>3. \A u \in Accounts : Whole(Updated, staker'[u])
  BY <1>1, <1>2
<1>4. \A u \in Accounts : Earned(u)' = Pending(Updated, staker'[u])
  BY <1>3, EarnedAfter
<1>5. \A u \in Accounts : Earned(u) = Pending(Updated, staker[u])
  BY EarnedIsPending
<1>6. \A w \in StakeUsers : Pending(Updated, w) \in Int
  <2>1. ASSUME NEW w \in StakeUsers
        PROVE  Pending(Updated, w) \in Int
    <3>1. UserWeight(Updated, w) \in Nat /\ w.reward_debt \in Int
      BY <1>1, UserWeightType DEF StakeUsers
    <3>2. Reward(Updated, UserWeight(Updated, w)) \in Int
      BY <1>1, <3>1, RewardType DEF Used
    <3> QED
      BY <3>1, <3>2 DEF Pending
  <2> QED
    BY <2>1
<1>7. Reward(stake', 1) = Reward(Updated, 1) /\ Reward(stake', 1) \in Nat
  BY <1>1, RewardType DEF Reward, SharesAs, Used
<1>8. ASSUME NEW u \in Accounts, staker'[u] = staker[u]
      PROVE  Earned(u)' - Earned(u) = 0
  BY <1>1, <1>4, <1>5, <1>6, <1>8
<1>9. ASSUME NEW u \in Accounts, staker'[u] # staker[u]
      PROVE  IF \E t \in BoostTokens :
                  staker'[u].boost_token[t] > staker[u].boost_token[t]
             THEN Earned(u)' - Earned(u) <= 2 + Reward(stake', 1)
             ELSE (Earned(u)' - Earned(u)) + Paid <= 1
  <2>1. u = to /\ staker'[u] = v
    BY <1>2, <1>9
  <2>2. PICK gain \in Int : gain = Pending(Updated, v) - Pending(Updated, staker[to])
    BY <1>1, <1>6 DEF Whole
  <2>3. Earned(u)' - Earned(u) = gain
    BY <1>4, <1>5, <2>1, <2>2
  <2> QED
    BY <1>7, <2>1, <2>2, <2>3
<1> QED
  BY <1>8, <1>9 DEF OnlyByTime

\* Nobody's record changes.
LEMMA IdleStep ==
  ASSUME StakeInv, StakeInv', now' = now, UNCHANGED staker,
         SharesAs(Updated, stake') \/ UNCHANGED stake
  PROVE  OnlyByTime
<1>1. \A u \in Accounts : Earned(u) \in Int
  BY PendingType DEF Earned
<1>2. CASE UNCHANGED stake
  <2>1. \A u \in Accounts : Earned(u)' = Earned(u)
    BY <1>2 DEF Earned
  <2> QED
    BY <1>1, <2>1 DEF OnlyByTime
<1>3. CASE SharesAs(Updated, stake')
  <2>1. \A u \in Accounts : Whole(Updated, staker[u])
    BY UpdatedPool
  <2>2. \A u \in Accounts : Earned(u)' = Pending(Updated, staker[u])
    BY <1>3, <2>1, EarnedAfter
  <2>3. \A u \in Accounts : Earned(u)' = Earned(u)
    BY <2>2, EarnedIsPending
  <2> QED
    BY <1>1, <2>3 DEF OnlyByTime
<1> QED
  BY <1>2, <1>3

\* A record that is whole after an operation was made for the pool before it.
LEMMA WholeBefore ==
  ASSUME NEW p, NEW u, NEW q, NEW v, Moves(p, u, q, v)
  PROVE  Whole(p, v)
  BY DEF Moves, Whole

\* Nothing is paid by who receives.
LEMMA ReceiveSpends ==
  ASSUME StakeInv, NEW token \in StakeTokens, NEW n \in Nat, Receive(token, n)
  PROVE  Paid = 0
<1>1. balance \in [StakeTokens -> Nat] /\ RewardToken \in StakeTokens
  BY DEF StakeInv, StakeTypeOK, StakeTokens
<1>2. balance'[RewardToken] \in Nat /\ balance[RewardToken] \in Nat
      /\ balance'[RewardToken] >= balance[RewardToken]
  BY <1>1 DEF Receive
<1> QED
  BY <1>2 DEF Paid

\* Of a reward token of its own, exactly the reward is paid.
LEMMA PaymentSpends ==
  ASSUME RewardApart, StakeInv, NEW u \in Accounts, NEW n \in Nat,
         NEW reward \in Nat, Pay(Payment(u, n, reward))
  PROVE  Paid = reward
<1>1. RewardToken \in StakeTokens /\ balance[RewardToken] \in Nat
  BY DEF StakeInv, StakeTypeOK, StakeTokens
<1>2. Payment(u, n, reward)[RewardToken] = reward
  BY <1>1 DEF Payment, RewardApart
<1>3. balance'[RewardToken] = balance[RewardToken] - reward
      /\ reward <= balance[RewardToken]
  BY <1>1, <1>2 DEF Pay
<1> QED
  BY <1>1, <1>3 DEF Paid

\* harvest pays the reward.
LEMMA HarvestSpends ==
  ASSUME StakeInv, NEW u \in Accounts, Harvest(u)
  PROVE  /\ PendingReward(stake, staker[u], now) \in Nat \ {0}
         /\ Paid = PendingReward(stake, staker[u], now)
<1>1. balance \in [StakeTokens -> Nat] /\ RewardToken \in StakeTokens
  BY DEF StakeInv, StakeTypeOK, StakeTokens
<1>2. PICK reward \in Nat \ {0} :
        /\ reward = PendingReward(stake, staker[u], now)
        /\ reward <= balance[RewardToken]
        /\ balance' = [balance EXCEPT ![RewardToken] = balance[RewardToken] - reward]
  <2>1. PendingReward(stake, staker[u], now) \in Nat \ {0}
    BY PendingType DEF Harvest
  <2>2. /\ PendingReward(stake, staker[u], now) <= balance[RewardToken]
        /\ balance' = [balance EXCEPT ![RewardToken] =
                         balance[RewardToken] - PendingReward(stake, staker[u], now)]
    BY DEF Harvest
  <2> QED
    BY <2>1, <2>2
<1>3. /\ balance'[RewardToken] = balance[RewardToken] - reward
      /\ balance[RewardToken] \in Nat
  BY <1>1, <1>2
<1> QED
  BY <1>2, <1>3 DEF Paid

\* A deposit for somebody.
LEMMA DepositByTime ==
  ASSUME StakeInv, StakeInv', NEW u \in Accounts, NEW n \in Nat \ {0}, Deposit(u, n)
  PROVE  OnlyByTime
<1> DEFINE v == UserAfterDeposit(Updated, staker[u], n)
<1>1. Used(Updated) /\ Whole(Updated, staker[u])
  BY UpdatedPool
<1>2. Whole(Updated, v)
  BY <1>1, DepositMoves, WholeBefore
<1>3. Pending(Updated, v) - Pending(Updated, staker[u]) <= 1
  BY <1>1, DepositGain
<1>4. SharesAs(Updated, stake')
  BY <1>1, DepositShares DEF Deposit
<1>5. staker' = [staker EXCEPT ![u] = v] /\ now' = now
  BY DEF Deposit, StakeInv, StakeTypeOK
<1>6. Paid = 0
  BY ReceiveSpends DEF Deposit, StakeTokens
<1>7. Pending(Updated, v) \in Int /\ Pending(Updated, staker[u]) \in Int
  BY <1>1, <1>2, UserWeightType, RewardType DEF Pending, Used, Whole, StakeUsers
<1> HIDE DEF v
<1>8. (Pending(Updated, v) - Pending(Updated, staker[u])) + Paid <= 1
  BY <1>3, <1>6, <1>7
<1> QED
  BY <1>2, <1>3, <1>4, <1>5, <1>8, UserStep

\* A boost for somebody.
LEMMA BoostByTime ==
  ASSUME StakeInv, StakeInv', NEW u \in Accounts, NEW token \in BoostTokens,
         NEW n \in Nat \ {0}, DepositBoostToken(u, token, n)
  PROVE  OnlyByTime
<1> DEFINE v == UserAfterBoost(Updated, staker[u], token, n)
<1>1. /\ Used(Updated) /\ Whole(Updated, staker[u]) /\ n \in Nat
      /\ stake' = PoolAfterBoost(Updated, token, n) /\ now' = now
      /\ staker' = [staker EXCEPT ![u] = v] /\ staker[u].amount # 0
  BY UpdatedPool DEF DepositBoostToken, StakeInv, StakeTypeOK
<1>2. CASE token \notin Registered(Updated)
  <2>1. stake' = Updated /\ v = staker[u]
    BY <1>1, <1>2 DEF PoolAfterBoost, UserAfterBoost
  <2>2. UNCHANGED staker
    BY <1>1, <2>1 DEF StakeInv, StakeTypeOK
  <2>3. SharesAs(Updated, stake')
    BY <1>1, <2>1 DEF SharesAs
  <2> QED
    BY <1>1, <2>2, <2>3, IdleStep
<1>3. CASE token \in Registered(Updated)
  <2>1. Whole(Updated, v)
    BY <1>1, BoostMoves, WholeBefore
  <2>2. Pending(Updated, v) - Pending(Updated, staker[u]) <= 2 + Reward(Updated, 1)
    BY <1>1, <1>3, BoostGain
  <2>3. SharesAs(Updated, stake')
    BY <1>1, <1>3, BoostShares
  <2>4. v.boost_token[token] > staker[u].boost_token[token]
    <3>1. staker[u] \in StakeUsers
      BY <1>1 DEF Whole
    <3>2. /\ staker[u].boost_token[token] \in Nat
          /\ v.boost_token[token] = staker[u].boost_token[token] + n
      BY <1>3, <3>1 DEF UserAfterBoost, StakeUsers
    <3> QED
      BY <3>2
  <2> HIDE DEF v
  <2> QED
    BY <1>1, <2>1, <2>2, <2>3, <2>4, UserStep
<1> QED
  BY <1>2, <1>3

\* What the ways out leave pending is an integer.
LEMMA ExitPending ==
  ASSUME NEW p, Used(p), NEW v, Whole(p, v)
  PROVE  Pending(p, v) \in Int
<1>1. p \in PoolInfos /\ v \in StakeUsers
  BY DEF Used, Whole
<1>2. Reward(p, UserWeight(p, v)) \in Nat
  BY <1>1, UserWeightType, RewardType
<1> QED
  BY <1>1, <1>2 DEF Pending, StakeUsers

\* A withdrawal without the reward.
LEMMA WithdrawByTime ==
  ASSUME RewardApart, StakeInv, StakeInv', NEW u \in Accounts, NEW n \in Nat,
         Withdraw(u, n)
  PROVE  OnlyByTime
<1> DEFINE v == UserAfterWithdraw(Updated, staker[u], n)
<1>1. /\ Used(Updated) /\ Whole(Updated, staker[u])
      /\ WithdrawFits(Updated, staker[u], n)
  BY UpdatedPool DEF Withdraw
<1>2. Whole(Updated, v)
  BY <1>1, ExitMoves, WholeBefore
<1>3. Pending(Updated, v) - Pending(Updated, staker[u]) <= 0
  BY <1>1, WithdrawGain
<1>4. SharesAs(Updated, stake')
  BY <1>1, WithdrawShares DEF Withdraw
<1>5. staker' = [staker EXCEPT ![u] = v] /\ now' = now
  BY DEF Withdraw, StakeInv, StakeTypeOK
<1>6. Paid = 0
  BY PaymentSpends DEF Withdraw
<1>7. Pending(Updated, v) \in Int /\ Pending(Updated, staker[u]) \in Int
  BY <1>1, <1>2, ExitPending
<1> HIDE DEF v
<1>8. /\ (Pending(Updated, v) - Pending(Updated, staker[u])) + Paid <= 1
      /\ Pending(Updated, v) - Pending(Updated, staker[u]) <= 1
  BY <1>3, <1>6, <1>7
<1> QED
  BY <1>2, <1>4, <1>5, <1>8, UserStep

\* A withdrawal with the reward.
LEMMA WithdrawAndHarvestByTime ==
  ASSUME RewardApart, StakeInv, StakeInv', NEW u \in Accounts, NEW n \in Nat,
         WithdrawAndHarvest(u, n)
  PROVE  OnlyByTime
<1> DEFINE v == UserAfterWithdrawAndHarvest(Updated, staker[u], n)
<1>1. /\ Used(Updated) /\ Whole(Updated, staker[u])
      /\ WithdrawFits(Updated, staker[u], n)
  BY UpdatedPool DEF WithdrawAndHarvest
<1>2. Whole(Updated, v)
  BY <1>1, ExitMoves, WholeBefore
<1>3. Pending(Updated, v) <= 0
  BY <1>1, WithdrawAndHarvestGain
<1>4. SharesAs(Updated, stake')
  BY <1>1, WithdrawShares DEF WithdrawAndHarvest
<1>5. staker' = [staker EXCEPT ![u] = v] /\ now' = now
  BY DEF WithdrawAndHarvest, StakeInv, StakeTypeOK
<1>6. PICK reward \in Nat :
        /\ reward = PendingReward(stake, staker[u], now)
        /\ Pay(Payment(u, n, reward))
  BY PendingType DEF WithdrawAndHarvest
<1>7. Paid = reward
  BY <1>6, PaymentSpends
<1>8. Pending(Updated, staker[u]) = reward
  BY <1>6, EarnedIsPending DEF Earned
<1>9. Pending(Updated, v) \in Int
  BY <1>1, <1>2, ExitPending
<1> HIDE DEF v
<1>10. /\ (Pending(Updated, v) - Pending(Updated, staker[u])) + Paid <= 1
       /\ Pending(Updated, v) - Pending(Updated, staker[u]) <= 1
  BY <1>3, <1>7, <1>8, <1>9
<1> QED
  BY <1>2, <1>4, <1>5, <1>10, UserStep

\* A harvest for somebody.
LEMMA HarvestByTime ==
  ASSUME StakeInv, StakeInv', NEW u \in Accounts, Harvest(u)
  PROVE  OnlyByTime
<1> DEFINE v == UserAfterHarvest(Updated, staker[u])
<1>1. Used(Updated) /\ Whole(Updated, staker[u])
  BY UpdatedPool
<1>2. Whole(Updated, v)
  BY <1>1, ExitMoves, WholeBefore
<1>3. Pending(Updated, v) = 0
  BY <1>1, HarvestGain
<1>4. SharesAs(Updated, stake')
  BY <1>1 DEF Harvest, SharesAs
<1>5. staker' = [staker EXCEPT ![u] = v] /\ now' = now
  BY DEF Harvest, StakeInv, StakeTypeOK
<1>6. PICK reward \in Nat :
        /\ reward = PendingReward(stake, staker[u], now)
        /\ Paid = reward
  BY HarvestSpends
<1>7. Pending(Updated, staker[u]) = reward
  BY <1>6, EarnedIsPending DEF Earned
<1> HIDE DEF v
<1>8. /\ (Pending(Updated, v) - Pending(Updated, staker[u])) + Paid <= 1
      /\ Pending(Updated, v) - Pending(Updated, staker[u]) <= 1
  BY <1>3, <1>6, <1>7
<1> QED
  BY <1>2, <1>4, <1>5, <1>8, UserStep

\* A message of the owner that changes no multiplier leaves a pool that shares
\* as before.
LEMMA OwnerShares ==
  ASSUME StakeInv, StakeOwnerNext,
         \A t \in Registered(stake) : Multiplier'[t] = Multiplier[t]
  PROVE  SharesAs(Updated, stake') /\ UNCHANGED <<staker, now>>
<1>1. Used(Updated) /\ Registered(Updated) = Registered(stake)
      /\ UNCHANGED <<staker, now>>
  BY UpdatedPool DEF StakeOwnerNext, SetRewardPerSecond, SetBoostToken
<1>2. ASSUME NEW caller \in Accounts, NEW rate \in RewardRates,
             SetRewardPerSecond(caller, rate)
      PROVE  SharesAs(Updated, stake')
  <2>1. rate \in Nat
    BY StakePoolAssumption
  <2>2. stake' = [Updated EXCEPT !.reward_per_second = rate]
    BY <1>2 DEF SetRewardPerSecond
  <2>3. /\ stake' \in PoolInfos /\ stake'.boost_tokens = Updated.boost_tokens
        /\ stake'.acc_reward_per_share = Updated.acc_reward_per_share
        /\ stake'.last_update_timestamp = Updated.last_update_timestamp
    BY <1>1, <2>1, <2>2 DEF Used, PoolInfos
  <2>4. Registered(stake') = Registered(Updated)
    BY <2>3 DEF Registered
  <2> QED
    BY <1>1, <2>3, <2>4 DEF SharesAs, Used
<1>3. ASSUME NEW caller \in Accounts, NEW token \in BoostTokens,
             NEW multiplier \in Multipliers, SetBoostToken(caller, token, multiplier)
      PROVE  SharesAs(Updated, stake')
  <2>1. multiplier \in Nat
    BY StakePoolAssumption
  <2>2. stake' = PoolAfterSetBoost(Updated, token, multiplier)
    BY <1>3 DEF SetBoostToken
  <2>3. Used(stake') /\ Registered(Updated) \subseteq Registered(stake')
    BY <1>1, <2>1, <2>2, SetBoostUsed
  <2>4. /\ stake'.acc_reward_per_share = Updated.acc_reward_per_share
        /\ stake'.last_update_timestamp = Updated.last_update_timestamp
    BY <1>1, <2>2 DEF PoolAfterSetBoost, Used, PoolInfos
  <2>5. ASSUME NEW t \in Registered(Updated)
        PROVE  stake'.boost_tokens[t].multiplier = Updated.boost_tokens[t].multiplier
    <3>1. t \in Registered(stake) /\ t \in Registered(stake')
      BY <1>1, <2>3
    <3>2. Multiplier'[t] = stake'.boost_tokens[t].multiplier
      BY <3>1 DEF Multiplier
    <3>3. Multiplier[t] = stake.boost_tokens[t].multiplier
      BY <3>1 DEF Multiplier
    <3>4. Updated.boost_tokens = stake.boost_tokens
      BY UpdateRewardType DEF Updated, StakeInv, StakeTypeOK, Used
    <3> QED
      BY <3>1, <3>2, <3>3, <3>4
  <2> QED
    BY <2>3, <2>4, <2>5 DEF SharesAs
<1> QED
  BY <1>1, <1>2, <1>3 DEF StakeOwnerNext

\* It gives nobody anything.
LEMMA OwnerByTime ==
  ASSUME StakeInv, StakeInv', StakeOwnerNext,
         \A t \in Registered(stake) : Multiplier'[t] = Multiplier[t]
  PROVE  OnlyByTime
  BY OwnerShares, IdleStep

\* With a reward token of its own, only time and a change of multipliers give
\* anybody a reward: a step of one user or of the owner leaves what everybody
\* else has pending as it was, and gives the user who takes it no more than
\* roundings (deposit pool.rs:88 to withdraw_and_harvest pool.rs:163).
THEOREM RewardsOnlyByTime == RewardApart => (StakeSpec => RewardOnlyByTime)
<1> SUFFICES ASSUME RewardApart PROVE StakeSpec => RewardOnlyByTime
  OBVIOUS
<1>1. ASSUME StakeInv, [StakeNext]_stakeVars, now' = now,
             \A t \in Registered(stake) : Multiplier'[t] = Multiplier[t]
      PROVE  OnlyByTime
  <2>1. StakeInv'
    BY <1>1, NextStakeInv
  <2>2. CASE StakerNext
    <3>1. \A n \in Amounts : n \in Nat \ {0} /\ n \in Nat
      BY StakePoolAssumption
    <3> QED
      BY <1>1, <2>1, <2>2, <3>1, DepositByTime, BoostByTime, WithdrawByTime,
         WithdrawAndHarvestByTime, HarvestByTime DEF StakerNext
  <2>3. CASE StakeOwnerNext
    BY <1>1, <2>1, <2>3, OwnerByTime
  <2>4. CASE StakeEnvironmentNext \/ UNCHANGED stakeVars
    <3>1. UNCHANGED <<stake, staker>>
      BY <2>4 DEF StakeEnvironmentNext, Tick, FundRewards, TransferPosition,
           BurnPosition, stakeVars
    <3> QED
      BY <1>1, <2>1, <3>1, IdleStep
  <2> QED
    BY <1>1, <2>2, <2>3, <2>4 DEF StakeNext
<1>2. StakeInv /\ [StakeNext]_stakeVars =>
        [ now' = now /\ (\A t \in Registered(stake) : Multiplier'[t] = Multiplier[t])
            => OnlyByTime ]_stakeVars
  BY <1>1
<1> QED
  BY <1>2, StakeInvariant, PTL DEF StakeSpec, RewardOnlyByTime, OnlyByTime, Paid

(***************************************************************************)
(* What all users together may claim.  A claim is what a user's weight has *)
(* earned less the debt, before it is rounded down to reward tokens; it is *)
(* counted in parts of a token, AccRewardPrecision to each.  Whatever was  *)
(* accrued and not paid is claimed already or waits for update_reward.     *)
(***************************************************************************)
Scaled(p, u) == UserWeight(p, u) * p.acc_reward_per_share - AccRewardPrecision * u.reward_debt

Claim(p, u) == IF Scaled(p, u) > 0 THEN Scaled(p, u) ELSE 0

Claims(p) == [u \in Accounts |-> Claim(p, staker[u])]

Waiting ==
  IF TotalWeight(stake) # 0
  THEN stake.reward_per_second * (now - stake.last_update_timestamp)
  ELSE 0

AccrualInv ==
  /\ StakeInv
  /\ stake.last_update_timestamp <= now
  /\ unspent \in Int /\ rounding \in Int
  /\ IsFiniteSet(Units(Claims(stake)))
  /\ Total(Claims(stake)) + AccRewardPrecision * Waiting
       <= AccRewardPrecision * (unspent + rounding)

\* A claim is an amount of parts of a token.
LEMMA ClaimType ==
  ASSUME NEW p, Used(p), NEW u \in StakeUsers
  PROVE  Scaled(p, u) \in Int /\ Claim(p, u) \in Nat
<1>1. UserWeight(p, u) \in Nat /\ p.acc_reward_per_share \in Nat
  BY UserWeightType DEF Used, PoolInfos
<1>2. UserWeight(p, u) * p.acc_reward_per_share \in Int
  BY <1>1, ProductType
<1>3. AccRewardPrecision * u.reward_debt \in Int
  BY StakeInfoAssumption DEF StakeUsers
<1>4. Scaled(p, u) \in Int
  BY <1>2, <1>3 DEF Scaled
<1> QED
  BY <1>4 DEF Claim

\* update_reward raises the reward per share by no more than what waits for it,
\* shared among the whole weight.
LEMMA UpdateShares ==
  ASSUME StakeInv, stake.last_update_timestamp <= now
  PROVE  \E more \in Nat :
           /\ Updated.acc_reward_per_share = stake.acc_reward_per_share + more
           /\ more * TotalWeight(stake) <= AccRewardPrecision * Waiting
           /\ AccRewardPrecision * Waiting \in Nat
<1>1. PICK time \in Nat, rate \in Nat, acc \in Nat, whole \in Nat, unit \in Nat \ {0} :
        /\ time = now - stake.last_update_timestamp
        /\ rate = stake.reward_per_second /\ acc = stake.acc_reward_per_share
        /\ whole = TotalWeight(stake) /\ unit = AccRewardPrecision
  <2>1. Used(stake)
    BY DEF StakeInv, StakeTypeOK, Used
  <2>2. /\ now - stake.last_update_timestamp \in Nat
        /\ stake.reward_per_second \in Nat /\ stake.acc_reward_per_share \in Nat
    BY DEF StakeInv, StakeTypeOK, PoolInfos
  <2> QED
    BY <2>1, <2>2, TotalWeightType, StakeInfoAssumption
<1>2. Updated.acc_reward_per_share = AccRewardPerShare(stake, now)
  BY DEF Updated, UpdateReward, StakeInv, StakeTypeOK, PoolInfos
<1>3. now \in Nat /\ stake.last_update_timestamp \in Nat
  BY DEF StakeInv, StakeTypeOK, PoolInfos
<1>4. CASE now > stake.last_update_timestamp /\ whole # 0
  <2>1. Waiting = rate * time /\ rate * time \in Nat
    BY <1>1, <1>4, ProductType DEF Waiting
  <2>2. unit * (rate * time) = (rate * time) * unit /\ (rate * time) * unit \in Nat
    <3>1. PICK x \in Nat : x = rate * time
      BY <2>1
    <3>2. unit * x = x * unit /\ x * unit \in Nat
      BY SMT
    <3> QED
      BY <3>1, <3>2
  <2>3. PICK more \in Nat : more = ((rate * time) * unit) \div whole
                           /\ whole * more <= (rate * time) * unit
    BY <1>4, <2>2, QuotientType
  <2>4. Updated.acc_reward_per_share = acc + more
    BY <1>1, <1>2, <1>4, <2>3 DEF AccRewardPerShare
  <2>5. more * whole = whole * more
    OBVIOUS
  <2> QED
    BY <1>1, <2>1, <2>2, <2>3, <2>4, <2>5
<1>5. CASE ~(now > stake.last_update_timestamp /\ whole # 0)
  <2>1. Updated.acc_reward_per_share = acc + 0
    BY <1>1, <1>2, <1>5 DEF AccRewardPerShare
  <2>2. Waiting = 0
    <3>1. CASE whole = 0
      BY <1>1, <3>1 DEF Waiting
    <3>2. CASE whole # 0
      <4>1. time = 0
        BY <1>1, <1>3, <1>5, <3>2
      <4>2. rate * 0 = 0
        BY SMT
      <4> QED
        BY <1>1, <4>1, <4>2 DEF Waiting
    <3> QED
      BY <3>1, <3>2
  <2>3. unit * 0 = 0 /\ 0 * whole = 0
    BY SMT
  <2> QED
    BY <1>1, <2>1, <2>2, <2>3
<1> QED
  BY <1>4, <1>5

\* Bringing the rewards up to date turns what waits into claims, and no more.
LEMMA ClaimsUpdated ==
  ASSUME StakeInv, stake.last_update_timestamp <= now,
         IsFiniteSet(Units(Claims(stake)))
  PROVE  /\ Claims(Updated) \in [Accounts -> Nat]
         /\ IsFiniteSet(Units(Claims(Updated)))
         /\ Total(Claims(Updated))
              <= Total(Claims(stake)) + AccRewardPrecision * Waiting
<1>1. PICK more \in Nat :
        /\ Updated.acc_reward_per_share = stake.acc_reward_per_share + more
        /\ more * TotalWeight(stake) <= AccRewardPrecision * Waiting
        /\ AccRewardPrecision * Waiting \in Nat
  BY UpdateShares
<1>2. /\ Used(stake) /\ Used(Updated) /\ staker \in [Accounts -> StakeUsers]
      /\ now \in Nat
  BY UpdatedPool DEF StakeInv, StakeTypeOK, Used
<1>3. \A u : UserWeight(Updated, u) = UserWeight(stake, u)
  <2>1. /\ Updated.boost_tokens = stake.boost_tokens
        /\ Registered(Updated) = Registered(stake)
    BY <1>2, UpdateRewardType DEF Updated
  <2> QED
    BY <2>1 DEF UserWeight, Boosted
<1>4. /\ Claims(stake) \in [Accounts -> Nat] /\ Claims(Updated) \in [Accounts -> Nat]
  BY <1>2, ClaimType DEF Claims
<1>5. /\ Weights \in [Accounts -> Nat] /\ IsFiniteSet(Units(Weights))
      /\ Total(Weights) <= TotalWeight(stake)
  BY WeightsWithinTotal
<1> DEFINE earned == [u \in Accounts |-> more * Weights[u]]
           most == [u \in Accounts |-> Claims(stake)[u] + earned[u]]
<1>6. /\ earned \in [Accounts -> Nat]
      /\ \A u \in Accounts : earned[u] = more * Weights[u]
  <2>1. \A u \in Accounts : more * Weights[u] \in Nat
    BY <1>5, ProductType
  <2> QED
    BY <2>1
<1> HIDE DEF earned
<1>7. /\ most \in [Accounts -> Nat]
      /\ \A u \in Accounts : most[u] = Claims(stake)[u] + earned[u]
  <2>1. \A u \in Accounts : Claims(stake)[u] \in Nat /\ earned[u] \in Nat
    BY <1>4, <1>6
  <2>2. \A u \in Accounts : Claims(stake)[u] + earned[u] \in Nat
    BY <2>1
  <2> QED
    BY <2>2
<1> HIDE DEF most
<1>8. IsFiniteSet(Units(earned)) /\ Total(earned) = more * Total(Weights)
  BY <1>5, <1>6, TotalTimes
<1>9. /\ IsFiniteSet(Units(most)) /\ Total(most) = Total(Claims(stake)) + Total(earned)
  BY <1>4, <1>6, <1>7, <1>8, TotalPlus
<1>10. ASSUME NEW u \in Accounts
       PROVE  Claims(Updated)[u] <= most[u]
  <2>1. PICK w \in Nat, acc \in Nat, d \in Int :
          /\ w = UserWeight(stake, staker[u]) /\ acc = stake.acc_reward_per_share
          /\ d = AccRewardPrecision * staker[u].reward_debt
    <3>1. AccRewardPrecision * staker[u].reward_debt \in Int
      BY <1>2, StakeInfoAssumption DEF StakeUsers
    <3> QED
      BY <1>2, <3>1, UserWeightType DEF Used, PoolInfos
  <2>2. w * (acc + more) = w * acc + more * w
        /\ w * acc \in Nat /\ more * w \in Nat
    BY SMT
  <2>3. /\ Scaled(stake, staker[u]) = w * acc - d
        /\ Scaled(Updated, staker[u]) = w * (acc + more) - d
    BY <1>1, <1>3, <2>1 DEF Scaled
  <2>4. earned[u] = more * w
    BY <1>6, <2>1 DEF Weights
  <2>5. /\ Claims(stake)[u] = Claim(stake, staker[u])
        /\ Claims(Updated)[u] = Claim(Updated, staker[u])
    BY DEF Claims
  <2> QED
    BY <1>7, <2>2, <2>3, <2>4, <2>5 DEF Claim
<1>11. IsFiniteSet(Units(Claims(Updated))) /\ Total(Claims(Updated)) <= Total(most)
  BY <1>4, <1>7, <1>9, <1>10, TotalShrinks
<1>12. more * Total(Weights) <= more * TotalWeight(stake)
  <2>1. PICK a \in Nat, b \in Nat : a = Total(Weights) /\ b = TotalWeight(stake) /\ a <= b
    BY <1>2, <1>5, TotalWeightType, FS_CardinalityType DEF Total
  <2>2. a * more <= b * more /\ a * more = more * a /\ b * more = more * b
    BY <2>1, ProductGrows
  <2> QED
    BY <2>1, <2>2
<1>13. /\ Total(Claims(stake)) \in Nat /\ Total(Claims(Updated)) \in Nat
       /\ Total(most) \in Nat /\ Total(earned) \in Nat
       /\ more * TotalWeight(stake) \in Nat
  <2>1. TotalWeight(stake) \in Nat
    BY <1>2, TotalWeightType
  <2>2. more * TotalWeight(stake) \in Nat
    BY <2>1, ProductType
  <2> QED
    BY <1>8, <1>9, <1>11, <2>2, FS_CardinalityType DEF Total
<1> QED
  BY <1>1, <1>4, <1>8, <1>9, <1>11, <1>12, <1>13

\* What rounding a reward down to reward tokens leaves of it.
LEMMA RewardParts ==
  ASSUME NEW p \in PoolInfos, NEW w \in Nat
  PROVE  /\ w * p.acc_reward_per_share \in Nat /\ Reward(p, w) \in Nat
         /\ AccRewardPrecision * Reward(p, w) \in Nat
         /\ AccRewardPrecision * Reward(p, w) <= w * p.acc_reward_per_share
         /\ w * p.acc_reward_per_share - AccRewardPrecision * Reward(p, w)
              <= AccRewardPrecision * OneDebt
<1>1. PICK a \in Nat, b \in Nat \ {0} :
        a = w * p.acc_reward_per_share /\ b = AccRewardPrecision
  <2>1. w * p.acc_reward_per_share \in Nat
    BY ProductType DEF PoolInfos
  <2> QED
    BY <2>1, StakeInfoAssumption
<1>2. /\ a \div b \in Nat /\ b * (a \div b) <= a
      /\ a - b * (a \div b) <= b * (IF b = 1 THEN 0 ELSE 1)
  BY QuotientType, Remainder
<1>3. Reward(p, w) = a \div b /\ OneDebt = IF b = 1 THEN 0 ELSE 1
  BY <1>1 DEF Reward, OneDebt
<1>4. b * (a \div b) \in Nat
  BY <1>2, ProductType
<1> QED
  BY <1>1, <1>2, <1>3, <1>4

\* A claim of a weight and a debt, in the numbers it is computed from.
LEMMA ClaimParts ==
  ASSUME NEW p, Used(p), NEW u \in StakeUsers
  PROVE  \E w \in Nat, acc \in Nat, d \in Int :
           /\ w = UserWeight(p, u) /\ acc = p.acc_reward_per_share
           /\ d = u.reward_debt /\ w * acc \in Nat /\ AccRewardPrecision * d \in Int
           /\ Scaled(p, u) = w * acc - AccRewardPrecision * d
<1>1. /\ UserWeight(p, u) \in Nat /\ p.acc_reward_per_share \in Nat
      /\ u.reward_debt \in Int
  BY UserWeightType DEF Used, PoolInfos, StakeUsers
<1>2. /\ UserWeight(p, u) * p.acc_reward_per_share \in Nat
      /\ AccRewardPrecision * u.reward_debt \in Int
  BY <1>1, ProductType, StakeInfoAssumption
<1> QED
  BY <1>1, <1>2 DEF Scaled

\* A claim grows by no more than what it is computed from.
LEMMA ClaimGrows ==
  ASSUME NEW p, NEW u, NEW v, NEW from \in Int, NEW to \in Int, NEW gain \in Nat,
         from = Scaled(p, u), to = Scaled(p, v), to <= from + gain
  PROVE  Claim(p, v) - Claim(p, u) <= gain
  BY DEF Claim

\* deposit rounds one debt in its user's favour.
LEMMA DepositClaim ==
  ASSUME NEW p, Used(p), NEW u, Whole(p, u), NEW n \in Nat
  PROVE  Claim(p, UserAfterDeposit(p, u, n)) - Claim(p, u)
           <= AccRewardPrecision * OneDebt
<1> DEFINE v == UserAfterDeposit(p, u, n)
<1>1. p \in PoolInfos /\ u \in StakeUsers
  BY DEF Used, Whole
<1>2. PICK w \in Nat, acc \in Nat, d \in Int :
        /\ w = UserWeight(p, u) /\ acc = p.acc_reward_per_share
        /\ d = u.reward_debt /\ w * acc \in Nat /\ AccRewardPrecision * d \in Int
        /\ Scaled(p, u) = w * acc - AccRewardPrecision * d
  BY <1>1, ClaimParts
<1>3. PICK r \in Nat, unit \in Nat, one \in Nat :
        /\ r = Reward(p, n) /\ unit = AccRewardPrecision /\ one = OneDebt
        /\ n * acc - unit * r <= unit * one
        /\ unit * r \in Nat /\ n * acc \in Nat
  BY <1>1, <1>2, RewardParts, StakeInfoAssumption DEF OneDebt
<1>4. /\ v.amount = u.amount + n /\ v.boost_token = u.boost_token
      /\ v.reward_debt = d + r /\ u.amount \in Nat
  BY <1>1, <1>2, <1>3 DEF UserAfterDeposit, StakeUsers
<1> HIDE DEF v
<1>5. UserWeight(p, v) = w + n
  <2>1. BoostWeight(p, u.boost_token) \in Nat
    BY <1>1, BoostWeightType DEF StakeUsers
  <2> QED
    BY <1>2, <1>4, <2>1 DEF UserWeight, BoostWeight
<1>6. /\ (w + n) * acc = w * acc + n * acc
      /\ unit * (d + r) = unit * d + unit * r
  BY SMT
<1>7. Scaled(p, v) = w * acc + n * acc - (unit * d + unit * r)
  BY <1>2, <1>3, <1>4, <1>5, <1>6 DEF Scaled
<1>8. unit * one \in Nat
  BY ProductType
<1>9. Claim(p, v) - Claim(p, u) <= unit * one
  BY <1>2, <1>3, <1>7, <1>8 DEF Claim
<1> QED
  BY <1>3, <1>9 DEF v

\* deposit_boost_token rounds one debt, and one weight unless the multiplier is
\* a whole number.
LEMMA BoostClaim ==
  ASSUME NEW p, Used(p), NEW u, Whole(p, u), NEW token \in Registered(p), NEW n \in Nat
  PROVE  Claim(p, UserAfterBoost(p, u, token, n)) - Claim(p, u)
           <= AccRewardPrecision
                * (OneDebt + IF Exact(p, token) THEN 0 ELSE Reward(p, 1) + OneDebt)
<1> DEFINE v == UserAfterBoost(p, u, token, n)
<1>1. /\ p \in PoolInfos /\ u \in StakeUsers /\ u.boost_token \in [BoostTokens -> Nat]
  BY DEF Used, Whole, StakeUsers
<1> DEFINE more == [u.boost_token EXCEPT ![token] = u.boost_token[token] + n]
<1>2. /\ v.amount = u.amount /\ v.boost_token = more
      /\ v.reward_debt = u.reward_debt + Reward(p, Boosted(p, token, n))
  BY <1>1 DEF UserAfterBoost, StakeUsers
<1>3. /\ Boosted(p, token, n) \in Nat
      /\ BoostWeight(p, more) \in Nat
      /\ BoostWeight(p, more) <= BoostWeight(p, u.boost_token) + Boosted(p, token, n) + 1
      /\ Exact(p, token) =>
           BoostWeight(p, more) <= BoostWeight(p, u.boost_token) + Boosted(p, token, n)
  BY <1>1, BoostWeightGrows
<1> HIDE DEF more
<1>4. PICK w \in Nat, acc \in Nat, d \in Int :
        /\ w = UserWeight(p, u) /\ acc = p.acc_reward_per_share
        /\ d = u.reward_debt /\ w * acc \in Nat /\ AccRewardPrecision * d \in Int
        /\ Scaled(p, u) = w * acc - AccRewardPrecision * d
  BY <1>1, ClaimParts
<1>5. PICK y \in Nat, e \in 0 .. 1 :
        /\ y = Boosted(p, token, n) /\ e = IF Exact(p, token) THEN 0 ELSE 1
  BY <1>3
<1>6. PICK x \in Nat : x = UserWeight(p, v) /\ x <= w + y + e
  <2>1. /\ UserWeight(p, v) = u.amount + BoostWeight(p, more)
        /\ w = u.amount + BoostWeight(p, u.boost_token)
        /\ u.amount \in Nat /\ BoostWeight(p, u.boost_token) \in Nat
    BY <1>1, <1>2, <1>4, BoostWeightType DEF UserWeight, BoostWeight, StakeUsers
  <2> QED
    BY <1>3, <1>5, <2>1
<1>7. PICK r \in Nat, s \in Nat, unit \in Nat, one \in Nat :
        /\ r = Reward(p, y) /\ s = Reward(p, 1)
        /\ unit = AccRewardPrecision /\ one = OneDebt
        /\ y * acc - unit * r <= unit * one
        /\ 1 * acc - unit * s <= unit * one
        /\ unit * r \in Nat /\ y * acc \in Nat
        /\ unit * s \in Nat
  <2>1. /\ Reward(p, y) \in Nat /\ y * acc \in Nat
        /\ AccRewardPrecision * Reward(p, y) \in Nat
        /\ y * acc - AccRewardPrecision * Reward(p, y) <= AccRewardPrecision * OneDebt
    BY <1>1, <1>4, RewardParts
  <2>2. /\ Reward(p, 1) \in Nat
        /\ AccRewardPrecision * Reward(p, 1) \in Nat
        /\ 1 * acc - AccRewardPrecision * Reward(p, 1) <= AccRewardPrecision * OneDebt
    BY <1>1, <1>4, RewardParts
  <2>3. AccRewardPrecision \in Nat /\ OneDebt \in Nat
    BY StakeInfoAssumption DEF OneDebt
  <2> QED
    BY <2>1, <2>2, <2>3
<1> HIDE DEF v
<1>8. x * acc <= w * acc + y * acc + e * acc
  <2>1. x * acc <= (w + y + e) * acc
    <3>1. w + y + e \in Nat
      BY <1>5
    <3> QED
      BY <1>6, <3>1, ProductGrows
  <2>2. (w + y + e) * acc = w * acc + y * acc + e * acc
    BY <1>5, SMT
  <2> QED
    BY <2>1, <2>2
<1>9. /\ unit * (d + r) = unit * d + unit * r
      /\ unit * (one + (s + one)) = unit * one + unit * s + unit * one
  BY SMT
<1>10. Scaled(p, v) = x * acc - (unit * d + unit * r)
  BY <1>2, <1>4, <1>5, <1>6, <1>7, <1>9 DEF Scaled
<1>11. PICK xa \in Nat, wa \in Nat, ya \in Nat, ud \in Int, ur \in Nat, us \in Nat,
            uo \in Nat :
         /\ xa = x * acc /\ wa = w * acc /\ ya = y * acc
         /\ ud = unit * d /\ ur = unit * r /\ us = unit * s /\ uo = unit * one
  <2>1. x * acc \in Nat /\ unit * one \in Nat
    BY ProductType
  <2> QED
    BY <1>4, <1>7, <2>1
<1>12. /\ Scaled(p, u) = wa - ud /\ Scaled(p, v) = xa - (ud + ur)
       /\ ya - ur <= uo
  BY <1>4, <1>7, <1>10, <1>11
<1>13. CASE Exact(p, token)
  <2>1. e * acc = 0
    BY <1>5, <1>13
  <2>2. xa <= wa + ya
    BY <1>8, <1>11, <2>1
  <2>3. Claim(p, v) - Claim(p, u) <= uo
    BY <1>12, <2>2, ClaimGrows
  <2>4. one + 0 = one
    OBVIOUS
  <2> QED
    BY <1>7, <1>11, <1>13, <2>3, <2>4 DEF v
<1>14. CASE ~Exact(p, token)
  <2>1. e * acc = acc /\ 1 * acc = acc
    BY <1>5, <1>14
  <2>2. xa <= wa + ya + acc /\ acc - us <= uo
    BY <1>7, <1>8, <1>11, <2>1
  <2>3. Claim(p, v) - Claim(p, u) <= uo + us + uo
    BY <1>12, <2>2, ClaimGrows
  <2> QED
    BY <1>7, <1>9, <1>11, <1>14, <2>3 DEF v
<1> QED
  BY <1>13, <1>14

\* harvest takes what it pays off the claim, exactly.
LEMMA HarvestClaim ==
  ASSUME NEW p, Used(p), NEW u, Whole(p, u), NEW reward \in Nat \ {0},
         reward = Pending(p, u)
  PROVE  Claim(p, UserAfterHarvest(p, u)) - Claim(p, u)
           <= -(AccRewardPrecision * reward)
<1> DEFINE v == UserAfterHarvest(p, u)
<1>1. p \in PoolInfos /\ u \in StakeUsers
  BY DEF Used, Whole
<1>2. PICK w \in Nat, acc \in Nat, d \in Int :
        /\ w = UserWeight(p, u) /\ acc = p.acc_reward_per_share
        /\ d = u.reward_debt /\ w * acc \in Nat /\ AccRewardPrecision * d \in Int
        /\ Scaled(p, u) = w * acc - AccRewardPrecision * d
  BY <1>1, ClaimParts
<1>3. PICK r \in Nat, unit \in Nat :
        /\ r = Reward(p, w) /\ unit = AccRewardPrecision
        /\ unit * r \in Nat /\ unit * r <= w * acc
  BY <1>1, <1>2, RewardParts, StakeInfoAssumption
<1>4. UserWeight(p, v) = w /\ v.reward_debt = r
  <2>1. r \in Int
    OBVIOUS
  <2> QED
    BY <1>1, <1>2, <1>3, <2>1, WeightWithoutDebt DEF UserAfterHarvest
<1> HIDE DEF v
<1>5. r = d + reward
  BY <1>2, <1>3 DEF Pending
<1>6. unit * (d + reward) = unit * d + unit * reward
  BY SMT
<1>7. PICK wa \in Nat, ud \in Int, ur \in Nat :
        wa = w * acc /\ ud = unit * d /\ ur = unit * reward
  BY <1>2, <1>3, ProductType
<1>8. /\ Scaled(p, u) = wa - ud /\ Scaled(p, v) = wa - (ud + ur)
      /\ ud + ur <= wa
  BY <1>2, <1>3, <1>4, <1>5, <1>6, <1>7 DEF Scaled
<1>9. Claim(p, v) - Claim(p, u) <= -ur
  BY <1>8 DEF Claim
<1> QED
  BY <1>3, <1>7, <1>9 DEF v

\* withdraw_and_harvest takes at least that.
LEMMA WithdrawAndHarvestClaim ==
  ASSUME NEW p, Used(p), NEW u, Whole(p, u), NEW n \in Nat, WithdrawFits(p, u, n),
         NEW reward \in Nat \ {0}, reward = Pending(p, u)
  PROVE  Claim(p, UserAfterWithdrawAndHarvest(p, u, n)) - Claim(p, u)
           <= -(AccRewardPrecision * reward)
<1> DEFINE left == WithoutStake(u, n)
           v == UserAfterWithdrawAndHarvest(p, u, n)
<1>1. p \in PoolInfos /\ u \in StakeUsers /\ left \in StakeUsers
  BY WithdrawMoves DEF Used, Whole, Moves
<1>2. PICK w \in Nat, acc \in Nat, d \in Int :
        /\ w = UserWeight(p, u) /\ acc = p.acc_reward_per_share
        /\ d = u.reward_debt /\ w * acc \in Nat /\ AccRewardPrecision * d \in Int
        /\ Scaled(p, u) = w * acc - AccRewardPrecision * d
  BY <1>1, ClaimParts
<1> HIDE DEF left
<1>3. PICK x \in Nat : x = UserWeight(p, left) /\ x + n <= w
  BY <1>2, WeightLeft DEF left
<1>4. PICK r \in Nat, s \in Nat, unit \in Nat :
        /\ r = Reward(p, w) /\ s = Reward(p, n) /\ unit = AccRewardPrecision
        /\ unit * r \in Nat /\ unit * r <= w * acc
        /\ unit * s \in Nat /\ unit * s <= n * acc /\ n * acc \in Nat
  BY <1>1, <1>2, RewardParts, StakeInfoAssumption
<1>5. v = [left EXCEPT !.reward_debt = r - s]
  BY <1>2, <1>4 DEF UserAfterWithdrawAndHarvest, left
<1>6. UserWeight(p, v) = x /\ v.reward_debt = r - s
  <2>1. r - s \in Int
    OBVIOUS
  <2> QED
    BY <1>1, <1>3, <1>5, <2>1, WeightWithoutDebt
<1> HIDE DEF v
<1>7. r = d + reward
  BY <1>2, <1>4 DEF Pending
<1>8. /\ unit * (r - s) = unit * r - unit * s
      /\ unit * (d + reward) = unit * d + unit * reward
      /\ (x + n) * acc = x * acc + n * acc
  BY SMT
<1>9. (x + n) * acc <= w * acc
  BY <1>3, ProductGrows
<1>10. PICK wa \in Nat, xa \in Nat, na \in Nat, ud \in Int, ur \in Nat, us \in Nat :
         /\ wa = w * acc /\ xa = x * acc /\ na = n * acc
         /\ ud = unit * d /\ ur = unit * reward /\ us = unit * s
  BY <1>2, <1>4, ProductType
<1>11. /\ Scaled(p, u) = wa - ud /\ Scaled(p, v) = xa - ((ud + ur) - us)
       /\ ud + ur <= wa /\ us <= na /\ xa + na <= wa
  BY <1>2, <1>4, <1>6, <1>7, <1>8, <1>9, <1>10 DEF Scaled
<1>12. Claim(p, v) - Claim(p, u) <= -ur
  BY <1>11 DEF Claim
<1> QED
  BY <1>4, <1>10, <1>12 DEF v

\* withdraw claims nothing.
LEMMA WithdrawClaim ==
  ASSUME NEW p, Used(p), NEW u, Whole(p, u), NEW n \in Nat, WithdrawFits(p, u, n)
  PROVE  Claim(p, UserAfterWithdraw(p, u, n)) - Claim(p, u) <= 0
<1> DEFINE left == WithoutStake(u, n)
           v == UserAfterWithdraw(p, u, n)
<1>1. p \in PoolInfos /\ u \in StakeUsers /\ left \in StakeUsers
  BY WithdrawMoves DEF Used, Whole, Moves
<1>2. PICK w \in Nat, acc \in Nat, d \in Int :
        /\ w = UserWeight(p, u) /\ acc = p.acc_reward_per_share
        /\ d = u.reward_debt /\ w * acc \in Nat /\ AccRewardPrecision * d \in Int
        /\ Scaled(p, u) = w * acc - AccRewardPrecision * d
  BY <1>1, ClaimParts
<1>3. left.reward_debt = d
  BY <1>1, <1>2 DEF WithoutStake, StakeUsers
<1> HIDE DEF left
<1>4. PICK x \in Nat, k \in Nat : x = UserWeight(p, left) /\ k = w - x
  <2>1. UserWeight(p, left) \in Nat /\ UserWeight(p, left) + n <= w
    BY <1>2, WeightLeft DEF left
  <2>2. w - UserWeight(p, left) \in Nat
    BY <2>1
  <2> QED
    BY <2>1, <2>2
<1>5. PICK r \in Nat, unit \in Nat :
        /\ r = Reward(p, k) /\ unit = AccRewardPrecision
        /\ unit * r \in Nat /\ unit * r <= k * acc /\ k * acc \in Nat
  BY <1>1, <1>2, RewardParts, StakeInfoAssumption
<1>6. v = [left EXCEPT !.reward_debt = d - r]
  BY <1>2, <1>3, <1>4, <1>5 DEF UserAfterWithdraw, left
<1>7. UserWeight(p, v) = x /\ v.reward_debt = d - r
  <2>1. d - r \in Int
    OBVIOUS
  <2> QED
    BY <1>1, <1>4, <1>6, <2>1, WeightWithoutDebt
<1> HIDE DEF v
<1>8. /\ unit * (d - r) = unit * d - unit * r
      /\ (x + k) * acc = x * acc + k * acc
  BY SMT
<1>9. x + k = w
  BY <1>4
<1>10. PICK xa \in Nat, ka \in Nat, ud \in Int, ur \in Nat :
         /\ xa = x * acc /\ ka = k * acc /\ ud = unit * d /\ ur = unit * r
  BY <1>2, <1>5, ProductType
<1>11. /\ Scaled(p, u) = (xa + ka) - ud /\ Scaled(p, v) = xa - (ud - ur)
       /\ ur <= ka
  BY <1>2, <1>5, <1>7, <1>8, <1>9, <1>10 DEF Scaled
<1>12. Claim(p, v) - Claim(p, u) <= 0
  BY <1>11, ClaimGrows
<1> QED
  BY <1>12 DEF v

\* What a deposit may have rounded is an amount, and nothing is rounded by a
\* step that adds to no stake.
LEMMA NothingRounded ==
  ASSUME Used(stake), Registered(stake) \subseteq Registered(stake'),
         stake'.total_staked <= stake.total_staked,
         \A t \in BoostTokens : BoostStaked(stake', t) <= BoostStaked(stake, t),
         Used(stake')
  PROVE  Rounded = 0
<1>1. stake.total_staked \in Nat /\ stake'.total_staked \in Nat
  BY DEF Used, PoolInfos
<1>2. ~(stake'.total_staked > stake.total_staked)
  BY <1>1
<1>3. ASSUME NEW t \in Registered(stake)
      PROVE  ~BoostAdded(t)
  <2>1. t \in BoostTokens /\ t \in Registered(stake')
    BY DEF Registered
  <2>2. /\ BoostStaked(stake', t) = stake'.boost_tokens[t].total_staked
        /\ BoostStaked(stake, t) = stake.boost_tokens[t].total_staked
        /\ BoostStaked(stake', t) \in Nat /\ BoostStaked(stake, t) \in Nat
    BY <2>1, BoostStakedType DEF BoostStaked, Used
  <2> QED
    BY <2>1, <2>2 DEF BoostAdded
<1> QED
  BY <1>2, <1>3 DEF Rounded

\* Between two seconds nothing accrues.
LEMMA HistoryStep ==
  ASSUME StakeInv, StakeInv', RewardsNext, now' = now
  PROVE  /\ Paid \in Int
         /\ unspent \in Int => unspent' = unspent - Paid
         /\ rounding' = rounding + Rounded
<1>1. /\ balance[RewardToken] \in Nat /\ balance'[RewardToken] \in Nat
      /\ stake.reward_per_second \in Nat /\ now \in Nat
  BY DEF StakeInv, StakeTypeOK, StakeTokens, PoolInfos
<1>2. Paid \in Int
  BY <1>1 DEF Paid
<1>3. Accrued = 0
  <2>1. stake.reward_per_second * (now - now) = 0
    BY <1>1, SMT
  <2> QED
    BY <2>1 DEF Accrued
<1> QED
  BY <1>2, <1>3 DEF RewardsNext

\* A step of a user, whose claim pays for what is paid and not rounded.
LEMMA ClaimStep ==
  ASSUME AccrualInv, StakeInv', RewardsNext, NEW u \in Accounts, NEW v,
         now' = now, SharesAs(Updated, stake'), Whole(Updated, v),
         staker' = [staker EXCEPT ![u] = v],
         Rounded \in Int,
         Claim(Updated, v) - Claim(Updated, staker[u])
           <= AccRewardPrecision * (Rounded - Paid)
  PROVE  AccrualInv'
<1> PICK paid \in Int, rounded \in Int :
      /\ paid = Paid /\ rounded = Rounded
      /\ unspent' = unspent - paid /\ rounding' = rounding + rounded
  BY HistoryStep DEF AccrualInv
<1>1. /\ StakeInv /\ stake.last_update_timestamp <= now
      /\ unspent \in Int /\ rounding \in Int
      /\ IsFiniteSet(Units(Claims(stake)))
      /\ Total(Claims(stake)) + AccRewardPrecision * Waiting
           <= AccRewardPrecision * (unspent + rounding)
  BY DEF AccrualInv
<1>2. /\ Used(Updated) /\ Used(stake') /\ now \in Nat
      /\ staker \in [Accounts -> StakeUsers]
      /\ \A w \in Accounts : Whole(Updated, staker[w])
      /\ v \in StakeUsers
  BY <1>1, UpdatedPool DEF SharesAs, StakeInv, StakeTypeOK, Whole
<1>3. /\ Claims(Updated) \in [Accounts -> Nat]
      /\ IsFiniteSet(Units(Claims(Updated)))
      /\ Total(Claims(Updated))
           <= Total(Claims(stake)) + AccRewardPrecision * Waiting
  BY <1>1, ClaimsUpdated
<1>4. ASSUME NEW w, Whole(Updated, w)
      PROVE  Claim(stake', w) = Claim(Updated, w)
  <2>1. UserWeight(stake', w) = UserWeight(Updated, w)
    BY <1>2, <1>4, SameWeight
  <2>2. stake'.acc_reward_per_share = Updated.acc_reward_per_share
    BY DEF SharesAs
  <2>3. Scaled(stake', w) = Scaled(Updated, w)
    BY <2>1, <2>2 DEF Scaled
  <2> QED
    BY <2>3 DEF Claim
<1>5. Claims(stake)' = [Claims(Updated) EXCEPT ![u] = Claim(Updated, v)]
  <2>1. Claims(stake)' = [w \in Accounts |-> Claim(stake', staker'[w])]
    BY DEF Claims, Claim, Scaled, UserWeight
  <2>2. ASSUME NEW w \in Accounts
        PROVE  Claim(stake', staker'[w])
                 = IF w = u THEN Claim(Updated, v) ELSE Claim(Updated, staker[w])
    BY <1>2, <1>4
  <2> QED
    BY <2>1, <2>2 DEF Claims
<1>6. Claim(Updated, v) \in Nat /\ Claims(Updated)[u] = Claim(Updated, staker[u])
      /\ Claim(Updated, staker[u]) \in Nat
  BY <1>2, ClaimType DEF Claims
<1>7. /\ IsFiniteSet(Units(Claims(stake)'))
      /\ Total(Claims(Updated)) \in Nat
      /\ Total(Claims(stake)') = Total(Claims(Updated)) + Claim(Updated, v)
                                   - Claim(Updated, staker[u])
  <2>1. PICK b, c : b = Claims(Updated) /\ c = Claim(Updated, v)
    OBVIOUS
  <2>2. /\ IsFiniteSet(Units([b EXCEPT ![u] = c]))
        /\ Total(b) \in Nat
        /\ Total([b EXCEPT ![u] = c]) = Total(b) + c - b[u]
    BY <1>3, <1>6, <2>1, TotalOfChange
  <2> QED
    BY <1>5, <1>6, <2>1, <2>2
<1>8. stake'.last_update_timestamp = now /\ stake'.reward_per_second \in Nat
  BY <1>1, <1>2 DEF SharesAs, Updated, UpdateReward, StakeInv, StakeTypeOK, Used,
     PoolInfos
<1>9. Waiting' = 0
  <2>1. stake'.reward_per_second * (now - now) = 0
    BY <1>2, <1>8, SMT
  <2> QED
    BY <1>8, <2>1 DEF Waiting
<1>10. PICK unit \in Nat, from \in Int, move \in Int :
         unit = AccRewardPrecision /\ from = unspent + rounding /\ move = rounded - paid
  BY <1>1, StakeInfoAssumption
<1>11. unspent' + rounding' = from + move /\ unspent' \in Int /\ rounding' \in Int
  BY <1>1, <1>10
<1>12. unit * (from + move) = unit * from + unit * move /\ unit * 0 = 0
       /\ unit * from \in Int /\ unit * move \in Int
  BY SMT
<1>13. Total(Claims(stake)') <= unit * (from + move)
  <2>1. PICK before \in Nat, waiting \in Nat :
          before = Total(Claims(stake)) /\ waiting = AccRewardPrecision * Waiting
    BY <1>1, UpdateShares, FS_CardinalityType DEF Total
  <2>2. PICK updated \in Nat, after \in Nat, mine \in Nat, total \in Int :
          /\ updated = Total(Claims(Updated)) /\ after = Claim(Updated, v)
          /\ mine = Claim(Updated, staker[u]) /\ total = Total(Claims(stake)')
    BY <1>6, <1>7
  <2>3. PICK most \in Int, gain \in Int : most = unit * from /\ gain = unit * move
    BY <1>12
  <2>4. /\ before + waiting <= most /\ updated <= before + waiting
        /\ total = updated + after - mine /\ after - mine <= gain
    BY <1>1, <1>3, <1>7, <1>10, <2>1, <2>2, <2>3
  <2>5. total <= most + gain
    BY <2>4
  <2> QED
    BY <1>12, <2>2, <2>3, <2>5
<1>14. Total(Claims(stake)') \in Nat
  BY <1>7, FS_CardinalityType DEF Total
<1>15. Total(Claims(stake))' = Total(Claims(stake)')
       /\ Units(Claims(stake))' = Units(Claims(stake)')
  BY DEF Total, Units
<1>16. AccRewardPrecision * (unspent' + rounding') = unit * (from + move)
       /\ AccRewardPrecision * Waiting' = 0
  BY <1>9, <1>10, <1>11, <1>12
<1>17. now' \in Nat /\ stake'.last_update_timestamp <= now'
  BY <1>2, <1>8
<1>18. Total(Claims(stake))' + AccRewardPrecision * Waiting'
         <= AccRewardPrecision * (unspent' + rounding')
  BY <1>13, <1>14, <1>15, <1>16
<1> QED
  BY <1>7, <1>11, <1>15, <1>17, <1>18 DEF AccrualInv

\* A step that moves a user's stake by no more, and boosts by no more, rounds
\* nothing.
LEMMA ExitRounds ==
  ASSUME StakeInv, NEW u \in Accounts, NEW v, Moves(Updated, staker[u], stake', v),
         v.amount <= staker[u].amount,
         \A t \in BoostTokens : v.boost_token[t] <= staker[u].boost_token[t]
  PROVE  Rounded = 0
<1>1. /\ Used(stake) /\ Used(stake') /\ Registered(stake') = Registered(stake)
      /\ staker[u] \in StakeUsers /\ v \in StakeUsers
      /\ stake'.total_staked = stake.total_staked + v.amount - staker[u].amount
      /\ \A t \in BoostTokens :
           BoostStaked(stake', t)
             = BoostStaked(stake, t) + v.boost_token[t] - staker[u].boost_token[t]
  BY UpdatedPool DEF StakeInv, StakeTypeOK, Used, Moves, Whole
<1>2. stake'.total_staked <= stake.total_staked
  BY <1>1 DEF Used, PoolInfos, StakeUsers
<1>3. ASSUME NEW t \in BoostTokens
      PROVE  BoostStaked(stake', t) <= BoostStaked(stake, t)
  <2>1. /\ BoostStaked(stake, t) \in Nat
        /\ v.boost_token[t] \in Nat /\ staker[u].boost_token[t] \in Nat
    BY <1>1, BoostStakedType DEF Used, StakeUsers
  <2> QED
    BY <1>1, <2>1
<1> QED
  BY <1>1, <1>2, <1>3, NothingRounded

\* What leaves a stake adds to nothing.
LEMMA ExitLess ==
  ASSUME NEW p, Used(p), NEW u, Whole(p, u), NEW n \in Nat, WithdrawFits(p, u, n)
  PROVE  \A v \in {UserAfterWithdraw(p, u, n), UserAfterWithdrawAndHarvest(p, u, n)} :
           /\ v.amount <= u.amount
           /\ \A t \in BoostTokens : v.boost_token[t] <= u.boost_token[t]
<1>1. u \in StakeUsers
  BY DEF Whole
<1>2. u.amount \in Nat /\ u.boost_token \in [BoostTokens -> Nat]
  BY <1>1 DEF StakeUsers
<1>3. \A t \in BoostTokens : Returned(u, n)[t] \in Nat
  BY <1>2 DEF Returned
<1>4. \A t \in BoostTokens :
        WithoutStake(u, n).boost_token[t] = u.boost_token[t] - Returned(u, n)[t]
  BY <1>1 DEF WithoutStake, StakeUsers
<1>5. \A t \in BoostTokens : WithoutStake(u, n).boost_token[t] <= u.boost_token[t]
  BY <1>2, <1>3, <1>4
<1>6. u.amount - n <= u.amount
  BY <1>2
<1> QED
  BY <1>1, <1>5, <1>6, ExitParts

\* A withdrawal without the reward.
LEMMA WithdrawAccrual ==
  ASSUME RewardApart, AccrualInv, StakeInv', RewardsNext,
         NEW u \in Accounts, NEW n \in Nat, Withdraw(u, n)
  PROVE  AccrualInv'
<1> DEFINE v == UserAfterWithdraw(Updated, staker[u], n)
<1>1. /\ StakeInv /\ Used(Updated) /\ Whole(Updated, staker[u])
      /\ WithdrawFits(Updated, staker[u], n) /\ unspent \in Int /\ rounding \in Int
  BY UpdatedPool DEF AccrualInv, Withdraw
<1>2. Moves(Updated, staker[u], stake', v)
  BY <1>1, ExitMoves DEF Withdraw
<1>3. Whole(Updated, v) /\ SharesAs(Updated, stake')
  BY <1>1, <1>2, WholeBefore, WithdrawShares DEF Withdraw
<1>4. staker' = [staker EXCEPT ![u] = v] /\ now' = now
  BY <1>1 DEF Withdraw, StakeInv, StakeTypeOK
<1>5. Paid = 0
  BY <1>1, PaymentSpends DEF Withdraw
<1>6. Rounded = 0
  BY <1>1, <1>2, ExitLess, ExitRounds
<1>7. Claim(Updated, v) - Claim(Updated, staker[u]) <= 0
  BY <1>1, WithdrawClaim
<1> HIDE DEF v
<1>8. AccRewardPrecision * (Rounded - Paid) = 0 /\ Rounded \in Int
  BY <1>5, <1>6, StakeInfoAssumption, SMT
<1>9. Claim(Updated, v) - Claim(Updated, staker[u])
        <= AccRewardPrecision * (Rounded - Paid)
  BY <1>7, <1>8
<1> QED
  BY <1>3, <1>4, <1>8, <1>9, ClaimStep

\* A withdrawal with the reward.
LEMMA WithdrawAndHarvestAccrual ==
  ASSUME RewardApart, AccrualInv, StakeInv', RewardsNext,
         NEW u \in Accounts, NEW n \in Nat, WithdrawAndHarvest(u, n)
  PROVE  AccrualInv'
<1> DEFINE v == UserAfterWithdrawAndHarvest(Updated, staker[u], n)
<1>1. /\ StakeInv /\ Used(Updated) /\ Whole(Updated, staker[u])
      /\ WithdrawFits(Updated, staker[u], n)
  BY UpdatedPool DEF AccrualInv, WithdrawAndHarvest
<1>2. Moves(Updated, staker[u], stake', v)
  BY <1>1, ExitMoves DEF WithdrawAndHarvest
<1>3. Whole(Updated, v) /\ SharesAs(Updated, stake')
  BY <1>1, <1>2, WholeBefore, WithdrawShares DEF WithdrawAndHarvest
<1>4. staker' = [staker EXCEPT ![u] = v] /\ now' = now
  BY <1>1 DEF WithdrawAndHarvest, StakeInv, StakeTypeOK
<1>5. PICK reward \in Nat \ {0} :
        /\ reward = PendingReward(stake, staker[u], now)
        /\ Pay(Payment(u, n, reward))
  BY <1>1, PendingType DEF WithdrawAndHarvest
<1>6. Paid = reward
  BY <1>1, <1>5, PaymentSpends
<1>7. Rounded = 0
  BY <1>1, <1>2, ExitLess, ExitRounds
<1>8. reward = Pending(Updated, staker[u])
  BY <1>1, <1>5, EarnedIsPending DEF Earned
<1>9. Claim(Updated, v) - Claim(Updated, staker[u]) <= -(AccRewardPrecision * reward)
  BY <1>1, <1>8, WithdrawAndHarvestClaim
<1> HIDE DEF v
<1>10. /\ AccRewardPrecision * (Rounded - Paid) = -(AccRewardPrecision * reward)
       /\ Rounded \in Int
  BY <1>6, <1>7, StakeInfoAssumption, SMT
<1>11. Claim(Updated, v) - Claim(Updated, staker[u])
         <= AccRewardPrecision * (Rounded - Paid)
  BY <1>9, <1>10
<1> QED
  BY <1>3, <1>4, <1>10, <1>11, ClaimStep

\* A harvest for somebody.
LEMMA HarvestAccrual ==
  ASSUME AccrualInv, StakeInv', RewardsNext, NEW u \in Accounts, Harvest(u)
  PROVE  AccrualInv'
<1> DEFINE v == UserAfterHarvest(Updated, staker[u])
<1>1. /\ StakeInv /\ Used(Updated) /\ Whole(Updated, staker[u])
  BY UpdatedPool DEF AccrualInv
<1>2. Moves(Updated, staker[u], stake', v)
  BY <1>1, ExitMoves DEF Harvest
<1>3. Whole(Updated, v) /\ SharesAs(Updated, stake')
  BY <1>1, <1>2, WholeBefore DEF Harvest, SharesAs
<1>4. staker' = [staker EXCEPT ![u] = v] /\ now' = now
  BY <1>1 DEF Harvest, StakeInv, StakeTypeOK
<1>5. PICK reward \in Nat \ {0} :
        /\ reward = PendingReward(stake, staker[u], now)
        /\ Paid = reward
  BY <1>1, HarvestSpends
<1>6. Rounded = 0
  <2>1. /\ staker[u] \in StakeUsers
        /\ v.amount = staker[u].amount /\ v.boost_token = staker[u].boost_token
    BY <1>1 DEF UserAfterHarvest, StakeUsers, Whole
  <2>2. /\ staker[u].amount <= staker[u].amount
        /\ \A t \in BoostTokens : staker[u].boost_token[t] <= staker[u].boost_token[t]
    BY <2>1 DEF StakeUsers
  <2> HIDE DEF v
  <2> QED
    BY <1>1, <1>2, <2>1, <2>2, ExitRounds
<1>7. reward = Pending(Updated, staker[u])
  BY <1>1, <1>5, EarnedIsPending DEF Earned
<1>8. Claim(Updated, v) - Claim(Updated, staker[u]) <= -(AccRewardPrecision * reward)
  BY <1>1, <1>7, HarvestClaim
<1> HIDE DEF v
<1>9. /\ AccRewardPrecision * (Rounded - Paid) = -(AccRewardPrecision * reward)
      /\ Rounded \in Int
  BY <1>5, <1>6, StakeInfoAssumption, SMT
<1>10. Claim(Updated, v) - Claim(Updated, staker[u])
         <= AccRewardPrecision * (Rounded - Paid)
  BY <1>8, <1>9
<1> QED
  BY <1>3, <1>4, <1>9, <1>10, ClaimStep

\* A deposit for somebody.
LEMMA DepositAccrual ==
  ASSUME AccrualInv, StakeInv', RewardsNext,
         NEW u \in Accounts, NEW n \in Nat \ {0}, Deposit(u, n)
  PROVE  AccrualInv'
<1> DEFINE v == UserAfterDeposit(Updated, staker[u], n)
<1>1. /\ StakeInv /\ Used(Updated) /\ Whole(Updated, staker[u])
      /\ stake.total_staked \in Nat /\ Updated.total_staked = stake.total_staked
  BY UpdatedPool DEF AccrualInv, StakeInv, StakeTypeOK, PoolInfos
<1>2. Whole(Updated, v)
  BY <1>1, DepositMoves, WholeBefore
<1>3. SharesAs(Updated, stake')
  BY <1>1, DepositShares DEF Deposit
<1>4. staker' = [staker EXCEPT ![u] = v] /\ now' = now
  BY <1>1 DEF Deposit, StakeInv, StakeTypeOK
<1>5. Paid = 0
  BY <1>1, ReceiveSpends DEF Deposit, StakeTokens
<1>6. Rounded = OneDebt
  <2>1. stake' = PoolAfterDeposit(Updated, n)
    BY DEF Deposit
  <2>2. stake'.total_staked = stake.total_staked + n
    BY <1>1, <2>1 DEF PoolAfterDeposit, Used, PoolInfos
  <2>3. stake'.total_staked > stake.total_staked
    BY <1>1, <2>2
  <2> QED
    BY <2>3 DEF Rounded
<1>7. Claim(Updated, v) - Claim(Updated, staker[u]) <= AccRewardPrecision * OneDebt
  BY <1>1, DepositClaim
<1> HIDE DEF v
<1>8. /\ AccRewardPrecision * (Rounded - Paid) = AccRewardPrecision * OneDebt
      /\ Rounded \in Int
  BY <1>5, <1>6 DEF OneDebt
<1>9. Claim(Updated, v) - Claim(Updated, staker[u])
        <= AccRewardPrecision * (Rounded - Paid)
  BY <1>7, <1>8
<1> QED
  BY <1>2, <1>3, <1>4, <1>8, <1>9, ClaimStep

\* deposit_boost_token rounds by the multiplier of the token.
LEMMA BoostRounds ==
  ASSUME StakeInv, NEW token \in Registered(Updated), NEW n \in Nat \ {0},
         stake' = PoolAfterBoost(Updated, token, n)
  PROVE  Rounded
           = OneDebt + (IF Exact(Updated, token) THEN 0 ELSE Reward(Updated, 1) + OneDebt)
<1>1. /\ Used(Updated) /\ Used(stake) /\ Registered(Updated) = Registered(stake)
      /\ Updated.total_staked = stake.total_staked
      /\ Updated.boost_tokens = stake.boost_tokens
  <2>1. Used(stake) /\ now \in Nat
    BY DEF StakeInv, StakeTypeOK, Used
  <2> QED
    BY <2>1, UpdateRewardType DEF Updated
<1>2. /\ token \in Registered(stake) /\ token \in BoostTokens
      /\ stake.boost_tokens[token] \in Boosts
  BY <1>1, RegisteredBoost DEF Registered, Used
<1>3. PICK entry \in Boosts :
        /\ entry = [stake.boost_tokens[token] EXCEPT !.total_staked = @ + n]
        /\ entry.total_staked > stake.boost_tokens[token].total_staked
  <2>1. PICK old \in Boosts : old = stake.boost_tokens[token]
    BY <1>2
  <2>2. /\ [old EXCEPT !.total_staked = old.total_staked + n] \in Boosts
        /\ [old EXCEPT !.total_staked = old.total_staked + n].total_staked
             > old.total_staked
    BY DEF Boosts
  <2> QED
    BY <2>1, <2>2
<1>4. stake' = [Updated EXCEPT !.boost_tokens[token] = entry]
  BY <1>1, <1>3 DEF PoolAfterBoost
<1>5. /\ stake'.total_staked = stake.total_staked
      /\ stake'.boost_tokens[token] = entry
      /\ \A t \in BoostTokens \ {token} : stake'.boost_tokens[t] = stake.boost_tokens[t]
      /\ stake'.acc_reward_per_share = Updated.acc_reward_per_share
  BY <1>1, <1>2, <1>4 DEF Used, PoolInfos
<1>6. ~(stake'.total_staked > stake.total_staked)
  BY <1>1, <1>5 DEF Used, PoolInfos
<1>7. BoostAdded(token)
  BY <1>3, <1>5 DEF BoostAdded
<1>8. ASSUME NEW t \in Registered(stake), BoostAdded(t)
      PROVE  t = token
  <2>1. SUFFICES ASSUME t # token PROVE FALSE
    OBVIOUS
  <2>2. t \in BoostTokens /\ stake.boost_tokens[t] \in Boosts
    BY <1>1, RegisteredBoost DEF Registered, Used
  <2>3. stake'.boost_tokens[t] = stake.boost_tokens[t]
    BY <1>5, <2>1, <2>2
  <2> QED
    BY <1>8, <2>2, <2>3 DEF BoostAdded, Boosts
<1>9. (CHOOSE t \in Registered(stake) : BoostAdded(t)) = token
  BY <1>2, <1>7, <1>8
<1>10. Rounded = OneDebt + OneWeight(token)
  BY <1>2, <1>6, <1>7, <1>9 DEF Rounded
<1>11. OneWeight(token)
         = IF Exact(Updated, token) THEN 0 ELSE Reward(Updated, 1) + OneDebt
  BY <1>1, <1>5 DEF OneWeight, Exact, Reward
<1> QED
  BY <1>10, <1>11

\* A boost for somebody.
LEMMA BoostAccrual ==
  ASSUME AccrualInv, StakeInv', RewardsNext, NEW u \in Accounts,
         NEW token \in BoostTokens, NEW n \in Nat \ {0}, DepositBoostToken(u, token, n)
  PROVE  AccrualInv'
<1> DEFINE v == UserAfterBoost(Updated, staker[u], token, n)
<1>1. /\ StakeInv /\ Used(Updated) /\ Whole(Updated, staker[u]) /\ n \in Nat
      /\ stake' = PoolAfterBoost(Updated, token, n) /\ now' = now
      /\ staker' = [staker EXCEPT ![u] = v] /\ staker[u].amount # 0
      /\ Receive(token, n) /\ token \in StakeTokens
  BY UpdatedPool DEF AccrualInv, DepositBoostToken, StakeInv, StakeTypeOK, StakeTokens
<1>2. Paid = 0
  BY <1>1, ReceiveSpends
<1>3. Moves(Updated, staker[u], stake', v)
  BY <1>1, BoostMoves
<1>4. Whole(Updated, v)
  BY <1>3, WholeBefore
<1>5. CASE token \notin Registered(Updated)
  <2>1. stake' = Updated /\ v = staker[u]
    BY <1>1, <1>5 DEF PoolAfterBoost, UserAfterBoost
  <2>2. SharesAs(Updated, stake')
    BY <1>1, <2>1 DEF SharesAs
  <2>3. Rounded = 0
    <3>1. /\ v.amount <= staker[u].amount
          /\ \A t \in BoostTokens : v.boost_token[t] <= staker[u].boost_token[t]
      BY <1>1, <2>1 DEF Whole, StakeUsers
    <3> QED
      BY <1>1, <1>3, <3>1, ExitRounds
  <2>4. Claim(Updated, staker[u]) \in Nat
    BY <1>1, ClaimType DEF Whole
  <2>5. AccRewardPrecision * (Rounded - Paid) = 0 /\ Rounded \in Int
    BY <1>2, <2>3, StakeInfoAssumption, SMT
  <2>6. Claim(Updated, v) - Claim(Updated, staker[u])
          <= AccRewardPrecision * (Rounded - Paid)
    BY <2>1, <2>4, <2>5
  <2> HIDE DEF v
  <2> QED
    BY <1>1, <1>4, <2>2, <2>5, <2>6, ClaimStep
<1>6. CASE token \in Registered(Updated)
  <2>1. SharesAs(Updated, stake')
    BY <1>1, <1>6, BoostShares
  <2>2. PICK most :
          most = OneDebt + (IF Exact(Updated, token) THEN 0 ELSE Reward(Updated, 1) + OneDebt)
    OBVIOUS
  <2>3. Rounded = most
    BY <1>1, <1>6, <2>2, BoostRounds
  <2>4. most \in Int
    BY <1>1, <2>2, RewardType DEF OneDebt, Used
  <2>5. Claim(Updated, v) - Claim(Updated, staker[u]) <= AccRewardPrecision * most
    BY <1>1, <1>6, <2>2, BoostClaim
  <2> HIDE DEF v
  <2>6. Rounded - Paid = most /\ Rounded \in Int
    BY <1>2, <2>3, <2>4
  <2>7. Claim(Updated, v) - Claim(Updated, staker[u])
          <= AccRewardPrecision * (Rounded - Paid)
    BY <2>5, <2>6
  <2> QED
    BY <1>1, <1>4, <2>1, <2>6, <2>7, ClaimStep
<1> QED
  BY <1>5, <1>6

\* A message of the owner that changes no multiplier.
LEMMA OwnerAccrual ==
  ASSUME AccrualInv, StakeInv', RewardsNext, StakeOwnerNext,
         \A t \in Registered(stake) : Multiplier'[t] = Multiplier[t]
  PROVE  AccrualInv'
<1>1. /\ StakeInv /\ Used(Updated) /\ Owner \in Accounts
      /\ Whole(Updated, staker[Owner])
  BY UpdatedPool, StakePoolAssumption DEF AccrualInv
<1>2. SharesAs(Updated, stake') /\ now' = now /\ staker' = staker
  BY <1>1, OwnerShares
<1>3. /\ UNCHANGED balance
      /\ stake'.total_staked = stake.total_staked
      /\ \A t \in BoostTokens : BoostStaked(stake', t) = BoostStaked(stake, t)
  BY <1>1, OwnerMovesNothing
<1>4. staker' = [staker EXCEPT ![Owner] = staker[Owner]]
  BY <1>1, <1>2 DEF StakeInv, StakeTypeOK
<1>5. Paid = 0
  <2>1. balance[RewardToken] \in Nat
    BY <1>1 DEF StakeInv, StakeTypeOK, StakeTokens
  <2> QED
    BY <1>3, <2>1 DEF Paid
<1>6. Rounded = 0
  <2>1. /\ Used(stake) /\ Used(stake') /\ Registered(stake) \subseteq Registered(stake')
    BY <1>1, <1>2, UpdatedPool DEF SharesAs, StakeInv, StakeTypeOK, Used
  <2>2. stake'.total_staked <= stake.total_staked
    BY <1>3, <2>1 DEF Used, PoolInfos
  <2>3. \A t \in BoostTokens : BoostStaked(stake', t) <= BoostStaked(stake, t)
    BY <1>3, <2>1, BoostStakedType DEF Used
  <2> QED
    BY <2>1, <2>2, <2>3, NothingRounded
<1>7. Claim(Updated, staker[Owner]) \in Nat
  BY <1>1, ClaimType DEF Whole
<1>8. AccRewardPrecision * (Rounded - Paid) = 0 /\ Rounded \in Int
  BY <1>5, <1>6, StakeInfoAssumption, SMT
<1>9. Claim(Updated, staker[Owner]) - Claim(Updated, staker[Owner])
        <= AccRewardPrecision * (Rounded - Paid)
  BY <1>7, <1>8
<1> QED
  BY <1>1, <1>2, <1>4, <1>8, <1>9, ClaimStep

\* A second passes: what it promises to who stakes waits for update_reward.
LEMMA TickAccrual ==
  ASSUME AccrualInv, StakeInv', RewardsNext, Tick
  PROVE  AccrualInv'
<1>1. /\ StakeInv /\ stake.last_update_timestamp <= now
      /\ unspent \in Int /\ rounding \in Int
      /\ IsFiniteSet(Units(Claims(stake)))
      /\ Total(Claims(stake)) + AccRewardPrecision * Waiting
           <= AccRewardPrecision * (unspent + rounding)
  BY DEF AccrualInv
<1>2. /\ Used(stake) /\ now \in Nat /\ stake.last_update_timestamp \in Nat
      /\ stake.reward_per_second \in Nat /\ balance[RewardToken] \in Nat
  BY <1>1 DEF StakeInv, StakeTypeOK, Used, PoolInfos, StakeTokens
<1>3. /\ now' = now + 1 /\ stake' = stake /\ staker' = staker /\ balance' = balance
  BY DEF Tick
<1>4. Paid = 0
  BY <1>2, <1>3 DEF Paid
<1>5. Rounded = 0
  <2>1. /\ stake'.total_staked <= stake.total_staked
        /\ \A t \in BoostTokens : BoostStaked(stake', t) <= BoostStaked(stake, t)
    BY <1>2, <1>3, BoostStakedType DEF Used, PoolInfos
  <2> QED
    BY <1>2, <1>3, <2>1, NothingRounded
<1>6. PICK second \in Nat :
        /\ Accrued = second
        /\ Waiting' = Waiting + second
  <2>1. CASE TotalWeight(stake) = 0
    <3>1. TotalWeight(stake)' = 0
      BY <1>3, <2>1
    <3> QED
      BY <2>1, <3>1 DEF Accrued, Waiting
  <2>2. CASE TotalWeight(stake) # 0
    <3>1. TotalWeight(stake)' # 0
      BY <1>3, <2>2
    <3>2. PICK rate \in Nat, last \in Nat, at \in Nat :
            /\ rate = stake.reward_per_second /\ last = stake.last_update_timestamp
            /\ at = now
      BY <1>2
    <3>3. PICK then \in Nat : then = now' /\ then = at + 1
      BY <1>3, <3>2
    <3>4. /\ stake'.reward_per_second = rate /\ stake'.last_update_timestamp = last
      BY <1>3, <3>2, Zenon
    <3>5. Waiting' = rate * (then - last)
      <4>1. Waiting' = stake'.reward_per_second * (now' - stake'.last_update_timestamp)
        BY <3>1 DEF Waiting
      <4> QED
        BY <3>3, <3>4, <4>1, Zenon
    <3>6. Accrued = rate * (then - at)
      <4>1. Accrued = stake.reward_per_second * (now' - now)
        BY <2>2 DEF Accrued
      <4> QED
        BY <3>2, <3>3, <4>1, Zenon
    <3>7. Waiting = rate * (at - last)
      <4>1. Waiting = stake.reward_per_second * (now - stake.last_update_timestamp)
        BY <2>2 DEF Waiting
      <4> QED
        BY <3>2, <4>1, Zenon
    <3>8. /\ rate * (then - at) = rate
          /\ rate * (then - last) = rate * (at - last) + rate
      BY <3>3, SMT
    <3> QED
      BY <3>5, <3>6, <3>7, <3>8
  <2> QED
    BY <2>1, <2>2
<1>7. unspent' = unspent + second /\ rounding' = rounding
  BY <1>1, <1>4, <1>5, <1>6 DEF RewardsNext
<1>8. PICK total \in Nat, wait \in Int, from \in Int, unit \in Nat :
        /\ total = Total(Claims(stake)) /\ wait = Waiting
        /\ from = unspent + rounding /\ unit = AccRewardPrecision
  <2>1. Waiting \in Int
    <3>1. stake.reward_per_second * (now - stake.last_update_timestamp) \in Int
      BY <1>2
    <3> QED
      BY <3>1 DEF Waiting
  <2> QED
    BY <1>1, <2>1, StakeInfoAssumption, FS_CardinalityType DEF Total
<1>9. /\ unit * (wait + second) = unit * wait + unit * second
      /\ unit * (from + second) = unit * from + unit * second
      /\ unit * wait \in Int /\ unit * from \in Int /\ unit * second \in Int
  BY SMT
<1>10. total + unit * (wait + second) <= unit * (from + second)
  BY <1>1, <1>8, <1>9
<1>11. unspent' + rounding' = from + second /\ unspent' \in Int /\ rounding' \in Int
  BY <1>1, <1>7, <1>8
<1>12. /\ Total(Claims(stake))' = total
       /\ IsFiniteSet(Units(Claims(stake)))'
  <2>1. Claims(stake)' = Claims(stake)
    BY <1>3 DEF Claims
  <2> QED
    BY <1>1, <1>8, <2>1
<1>13. now' \in Nat /\ stake'.last_update_timestamp <= now'
  BY <1>1, <1>2, <1>3
<1>14. Total(Claims(stake))' + AccRewardPrecision * Waiting'
         <= AccRewardPrecision * (unspent' + rounding')
  BY <1>6, <1>8, <1>10, <1>11, <1>12
<1> QED
  BY <1>11, <1>12, <1>13, <1>14 DEF AccrualInv

\* Position tokens move, and rewards are funded, without anybody's claim.
LEMMA IdleAccrual ==
  ASSUME AccrualInv, StakeInv', UNCHANGED <<stake, staker, now>>,
         UNCHANGED <<unspent, rounding>>
  PROVE  AccrualInv'
<1>1. Claims(stake)' = Claims(stake) /\ Waiting' = Waiting
  BY DEF Claims, Waiting
<1> QED
  BY <1>1 DEF AccrualInv

\* A step of the environment.
LEMMA EnvironmentAccrual ==
  ASSUME AccrualInv, StakeInv', RewardsNext, StakeEnvironmentNext
  PROVE  AccrualInv'
<1>1. CASE Tick
  BY <1>1, TickAccrual
<1>2. CASE ~Tick
  <2>1. StakeInv /\ UNCHANGED <<stake, staker>> /\ Used(stake)
    BY EnvironmentMovesNothing DEF AccrualInv, StakeInv, StakeTypeOK, Used
  <2>2. now' = now
    BY <1>2 DEF StakeEnvironmentNext, FundRewards, TransferPosition, BurnPosition
  <2>3. Paid = 0
    <3>1. CASE UNCHANGED balance
      <4>1. balance[RewardToken] \in Nat
        BY <2>1 DEF StakeInv, StakeTypeOK, StakeTokens
      <4> QED
        BY <3>1, <4>1 DEF Paid
    <3>2. ASSUME NEW n \in FundAmounts, Receive(RewardToken, n)
          PROVE  Paid = 0
      BY <2>1, <3>2, ReceiveSpends, StakePoolAssumption DEF StakeTokens
    <3> QED
      BY <2>1, <3>1, <3>2, EnvironmentMovesNothing
  <2>4. Rounded = 0
    <3>1. /\ stake'.total_staked <= stake.total_staked
          /\ \A t \in BoostTokens : BoostStaked(stake', t) <= BoostStaked(stake, t)
      BY <2>1, BoostStakedType DEF Used, PoolInfos
    <3> QED
      BY <2>1, <3>1, NothingRounded
  <2>5. unspent' = unspent /\ rounding' = rounding
    BY <2>1, <2>2, <2>3, <2>4, HistoryStep DEF AccrualInv
  <2> QED
    BY <2>1, <2>2, <2>5, IdleAccrual
<1> QED
  BY <1>1, <1>2

\* Nothing is claimed, accrued or paid at first.
LEMMA InitAccrualInv == RewardsInit => AccrualInv
<1> SUFFICES ASSUME RewardsInit PROVE AccrualInv
  OBVIOUS
<1>1. StakeInv
  BY InitStakeInv DEF RewardsInit
<1>2. /\ stake = InitialPoolInfo(StartTime) /\ now = StartTime /\ now \in Nat
      /\ staker = [u \in Accounts |-> DefaultStakeUser]
      /\ unspent = 0 /\ rounding = 0 /\ Used(stake)
  BY <1>1 DEF RewardsInit, StakeInit, StakeInv, StakeTypeOK, Used
<1>3. /\ stake.last_update_timestamp = now /\ stake.acc_reward_per_share = 0
      /\ stake.reward_per_second = 0
  BY <1>2 DEF InitialPoolInfo
<1>4. Claims(stake) = [u \in Accounts |-> 0]
  <2>1. ASSUME NEW u \in Accounts
        PROVE  Claim(stake, staker[u]) = 0
    <3>1. staker[u] \in StakeUsers /\ staker[u].reward_debt = 0
      BY <1>1, <1>2 DEF DefaultStakeUser, StakeInv, StakeTypeOK
    <3>2. PICK w \in Nat : w = UserWeight(stake, staker[u])
      BY <1>2, <3>1, UserWeightType
    <3>3. w * 0 = 0 /\ AccRewardPrecision * 0 = 0
      BY StakeInfoAssumption, SMT
    <3>4. Scaled(stake, staker[u]) = 0
      BY <1>3, <3>1, <3>2, <3>3 DEF Scaled
    <3> QED
      BY <3>4 DEF Claim
  <2> QED
    BY <2>1 DEF Claims
<1>5. IsFiniteSet(Units(Claims(stake))) /\ Total(Claims(stake)) = 0
  BY <1>4, TotalOfNothing
<1>6. Waiting = 0
  <2>1. 0 * (now - now) = 0
    BY <1>2, SMT
  <2> QED
    BY <1>3, <2>1 DEF Waiting
<1>7. AccRewardPrecision * 0 = 0
  BY StakeInfoAssumption, SMT
<1> QED
  BY <1>1, <1>2, <1>3, <1>5, <1>6, <1>7 DEF AccrualInv

\* Every step that keeps the multipliers keeps the invariant.
LEMMA NextAccrualInv ==
  RewardApart =>
    (AccrualInv /\ [RewardsNext]_rewardVars
      /\ [\A t \in Registered(stake) : Multiplier'[t] = Multiplier[t]]_rewardVars
     => AccrualInv')
<1> SUFFICES ASSUME RewardApart, AccrualInv, [RewardsNext]_rewardVars,
                    [\A t \in Registered(stake) : Multiplier'[t] = Multiplier[t]]_rewardVars
             PROVE  AccrualInv'
  OBVIOUS
<1>1. CASE UNCHANGED rewardVars
  <2>1. /\ UNCHANGED stakeVars /\ UNCHANGED <<unspent, rounding>>
        /\ UNCHANGED <<stake, staker, now>>
    BY <1>1 DEF rewardVars, stakeVars
  <2>2. StakeInv'
    BY <2>1, NextStakeInv DEF AccrualInv
  <2> QED
    BY <2>1, <2>2, IdleAccrual
<1>2. CASE ~UNCHANGED rewardVars
  <2>1. /\ RewardsNext /\ StakeNext
        /\ \A t \in Registered(stake) : Multiplier'[t] = Multiplier[t]
    BY <1>2 DEF RewardsNext
  <2>2. StakeInv'
    BY <2>1, NextStakeInv DEF AccrualInv
  <2>3. CASE StakerNext
    <3>1. \A n \in Amounts : n \in Nat \ {0} /\ n \in Nat
      BY StakePoolAssumption
    <3> QED
      BY <2>1, <2>2, <2>3, <3>1, DepositAccrual, BoostAccrual, WithdrawAccrual,
         WithdrawAndHarvestAccrual, HarvestAccrual DEF StakerNext
  <2>4. CASE StakeOwnerNext
    BY <2>1, <2>2, <2>4, OwnerAccrual
  <2>5. CASE StakeEnvironmentNext
    BY <2>1, <2>2, <2>5, EnvironmentAccrual
  <2> QED
    BY <2>1, <2>3, <2>4, <2>5 DEF StakeNext
<1> QED
  BY <1>1, <1>2

\* What users could harvest, in parts of a token, is within their claims.
LEMMA AccrualCovers == AccrualInv => RewardsWithinAccrual
<1> SUFFICES ASSUME AccrualInv PROVE RewardsWithinAccrual
  OBVIOUS
<1>1. /\ StakeInv /\ stake.last_update_timestamp <= now
      /\ unspent \in Int /\ rounding \in Int
      /\ IsFiniteSet(Units(Claims(stake)))
      /\ Total(Claims(stake)) + AccRewardPrecision * Waiting
           <= AccRewardPrecision * (unspent + rounding)
  BY DEF AccrualInv
<1>2. /\ Claims(Updated) \in [Accounts -> Nat]
      /\ IsFiniteSet(Units(Claims(Updated)))
      /\ Total(Claims(Updated))
           <= Total(Claims(stake)) + AccRewardPrecision * Waiting
  BY <1>1, ClaimsUpdated
<1> DEFINE due == [u \in Accounts |-> Harvestable(u)]
<1>3. ASSUME NEW u \in Accounts
      PROVE  Harvestable(u) \in Nat /\ AccRewardPrecision * Harvestable(u) <= Claim(Updated, staker[u])
  <2>1. /\ Used(Updated) /\ Updated \in PoolInfos /\ staker[u] \in StakeUsers
    BY <1>1, UpdatedPool DEF Whole, Used
  <2>2. PICK w \in Nat, acc \in Nat, d \in Int :
          /\ w = UserWeight(Updated, staker[u]) /\ acc = Updated.acc_reward_per_share
          /\ d = staker[u].reward_debt /\ w * acc \in Nat
          /\ AccRewardPrecision * d \in Int
          /\ Scaled(Updated, staker[u]) = w * acc - AccRewardPrecision * d
    BY <2>1, ClaimParts
  <2>3. PICK r \in Nat, unit \in Nat :
          /\ r = Reward(Updated, w) /\ unit = AccRewardPrecision
          /\ unit * r \in Nat /\ unit * r <= w * acc
    BY <2>1, <2>2, RewardParts, StakeInfoAssumption
  <2>4. Earned(u) = r - d
    BY <1>1, <2>2, <2>3, EarnedIsPending DEF Pending
  <2>5. unit * (r - d) = unit * r - unit * d /\ unit * 0 = 0
    BY SMT
  <2>6. CASE Earned(u) > 0
    <3>1. Harvestable(u) = r - d /\ r - d \in Nat
      BY <2>4, <2>6 DEF Harvestable
    <3>2. unit * (r - d) \in Nat
      BY <3>1, ProductType
    <3>3. unit * (r - d) <= Scaled(Updated, staker[u])
      BY <2>2, <2>3, <2>5
    <3>4. Scaled(Updated, staker[u]) \in Int
      BY <2>1, ClaimType
    <3> QED
      BY <2>3, <3>1, <3>2, <3>3, <3>4 DEF Claim
  <2>7. CASE ~(Earned(u) > 0)
    <3>1. Harvestable(u) = 0
      BY <2>7 DEF Harvestable
    <3>2. Claim(Updated, staker[u]) \in Nat
      BY <2>1, ClaimType
    <3> QED
      BY <2>3, <2>5, <3>1, <3>2
  <2> QED
    BY <2>6, <2>7
<1>4. PICK unit \in Nat \ {0}, from \in Int :
        unit = AccRewardPrecision /\ from = unspent + rounding
  BY <1>1, StakeInfoAssumption
<1>5. ASSUME NEW u \in Accounts
      PROVE  due[u] \in Nat /\ unit * due[u] <= 1 * Claims(Updated)[u]
  <2>1. Claims(Updated)[u] = Claim(Updated, staker[u]) /\ Claims(Updated)[u] \in Nat
    BY <1>2 DEF Claims
  <2> QED
    BY <1>3, <1>4, <2>1
<1>6. due \in [Accounts -> Nat]
  BY <1>3
<1> HIDE DEF due
<1>7. /\ IsFiniteSet(Units(due))
      /\ unit * Total(due) <= 1 * Total(Claims(Updated))
  BY <1>2, <1>5, <1>6, TotalOfShares
<1>8. PICK total \in Nat, claims \in Nat, before \in Nat, waiting \in Nat :
        /\ total = Total(due) /\ claims = Total(Claims(Updated))
        /\ before = Total(Claims(stake)) /\ waiting = AccRewardPrecision * Waiting
  BY <1>1, <1>2, <1>7, UpdateShares, FS_CardinalityType DEF Total
<1>9. unit * total <= unit * from
  <2>1. unit * total \in Nat /\ unit * from \in Int
    BY <1>4, <1>8
  <2> QED
    BY <1>1, <1>2, <1>4, <1>7, <1>8, <2>1
<1>10. total <= from
  BY <1>9, SMT
<1> QED
  BY <1>4, <1>8, <1>10 DEF due, RewardsWithinAccrual

\* What all users together could harvest is no more than the rate in force
\* promised while somebody was staking, less what was paid, and the roundings of
\* the deposits so far: for every number of users, rate and precision, as long
\* as the owner changes no multiplier of a registered token (update_reward
\* pool.rs:224).
THEOREM RewardsNeverExceedAccrual ==
  RewardApart => (RewardsSpec /\ MultipliersKept => []RewardsWithinAccrual)
<1> SUFFICES ASSUME RewardApart
             PROVE  RewardsSpec /\ MultipliersKept => []RewardsWithinAccrual
  OBVIOUS
<1>1. RewardsInit => AccrualInv
  BY InitAccrualInv
<1>2. AccrualInv /\ [RewardsNext]_rewardVars
        /\ [\A t \in Registered(stake) : Multiplier'[t] = Multiplier[t]]_rewardVars
      => AccrualInv'
  BY NextAccrualInv
<1>3. AccrualInv => RewardsWithinAccrual
  BY AccrualCovers
<1> QED
  BY <1>1, <1>2, <1>3, PTL DEF RewardsSpec, MultipliersKept

(***************************************************************************)
(* The safety part of StakerCanLeave: withdraw aborts on nothing but the   *)
(* position tokens that must come with it.                                 *)
(***************************************************************************)
\* What withdraw of n asks for besides position tokens: none of its
\* subtractions goes below zero, and the contract holds what it returns.
Withdrawable(u, n) ==
  /\ WithdrawFits(Updated, staker[u], n)
  /\ UserWeight(Updated, WithoutStake(staker[u], n)) <= UserWeight(Updated, staker[u])
  /\ \A t \in StakeTokens : Payment(u, n, 0)[t] <= balance[t]

\* The totals cover what one user has in.
LEMMA TotalsCover ==
  ASSUME StakeInv, NEW u \in Accounts
  PROVE  /\ staker[u] \in StakeUsers
         /\ staker[u].amount <= stake.total_staked
         /\ \A t \in BoostTokens : staker[u].boost_token[t] <= BoostStaked(stake, t)
<1>1. staker[u] \in StakeUsers
  BY DEF StakeInv, StakeTypeOK
<1>2. StakeOf[u] <= stake.total_staked
  BY CountsCovers DEF StakeInv
<1>3. ASSUME NEW t \in BoostTokens
      PROVE  BoostOf(t)[u] <= BoostStaked(stake, t)
  BY CountsCovers DEF StakeInv
<1> QED
  BY <1>1, <1>2, <1>3 DEF StakeOf, BoostOf

\* A part of a stake can be taken off the totals, with the boost tokens if it
\* is the last of it.
LEMMA TotalsFit ==
  ASSUME StakeInv, NEW u \in Accounts, NEW n \in Nat, n <= staker[u].amount
  PROVE  WithdrawFits(Updated, staker[u], n)
<1>1. /\ Updated \in PoolInfos /\ Registered(Updated) = Registered(stake)
      /\ Updated.total_staked = stake.total_staked
      /\ \A t \in BoostTokens : BoostStaked(Updated, t) = BoostStaked(stake, t)
  BY UpdatedPool DEF Used
<1>2. /\ staker[u].amount \in Nat /\ stake.total_staked \in Nat
      /\ staker[u].amount <= stake.total_staked
  BY TotalsCover DEF StakeUsers, StakeInv, StakeTypeOK, PoolInfos
<1>3. ASSUME NEW t \in Registered(Updated)
      PROVE  Returned(staker[u], n)[t] <= Updated.boost_tokens[t].total_staked
  <2>1. t \in BoostTokens
    BY DEF Registered
  <2>2. BoostStaked(Updated, t) = Updated.boost_tokens[t].total_staked
    BY DEF BoostStaked
  <2>3. /\ BoostStaked(Updated, t) \in Nat
        /\ staker[u].boost_token[t] \in Nat
        /\ staker[u].boost_token[t] <= BoostStaked(Updated, t)
    BY <1>1, <2>1, BoostStakedType, TotalsCover DEF StakeUsers
  <2>4. /\ Returned(staker[u], n)[t]
             = IF n = staker[u].amount THEN staker[u].boost_token[t] ELSE 0
    BY <2>1 DEF Returned
  <2> QED
    BY <2>2, <2>3, <2>4
<1> QED
  BY <1>1, <1>2, <1>3 DEF WithdrawFits

\* What goes back in a token is no more than what is staked in it by all.
LEMMA PaymentCovered ==
  ASSUME RewardApart, CoverInv, NEW u \in Accounts, NEW n \in Nat,
         n <= staker[u].amount, NEW t \in StakeTokens
  PROVE  Payment(u, n, 0)[t] <= balance[t]
<1>1. /\ StakeInv /\ stake \in PoolInfos /\ staker[u] \in StakeUsers
      /\ balance[t] \in Nat /\ staker[u].amount \in Nat
      /\ stake.total_staked \in Nat
      /\ staker[u].amount <= stake.total_staked
  BY TotalsCover DEF CoverInv, StakeInv, StakeTypeOK, PoolInfos, StakeUsers
<1>2. PICK boosts \in Nat, boosted \in Nat :
        /\ boosts = (IF t \in BoostTokens THEN Returned(staker[u], n)[t] ELSE 0)
        /\ boosted = (IF t \in BoostTokens THEN BoostStaked(stake, t) ELSE 0)
        /\ boosts <= boosted
  <2>1. CASE t \in BoostTokens
    <3>1. /\ Returned(staker[u], n)[t]
               = IF n = staker[u].amount THEN staker[u].boost_token[t] ELSE 0
          /\ staker[u].boost_token[t] \in Nat
      BY <1>1, <2>1 DEF Returned, StakeUsers
    <3>2. /\ BoostStaked(stake, t) \in Nat
          /\ staker[u].boost_token[t] <= BoostStaked(stake, t)
      BY <1>1, <2>1, BoostStakedType, TotalsCover
    <3> QED
      BY <2>1, <3>1, <3>2
  <2>2. CASE t \notin BoostTokens
    BY <2>2
  <2> QED
    BY <2>1, <2>2
<1>3. Payment(u, n, 0)[t] = (IF t = WantToken THEN n ELSE 0) + boosts
  BY <1>2 DEF Payment
<1>4. Staked(stake, t) = (IF t = WantToken THEN stake.total_staked ELSE 0) + boosted
  BY <1>2 DEF Staked
<1>5. Staked(stake, t) <= balance[t]
  BY DEF CoverInv
<1> QED
  BY <1>1, <1>2, <1>3, <1>4, <1>5

\* Whoever else staked, boosted, left, harvested or changed the rates before,
\* and whatever is left for rewards: who has a stake can withdraw any part of
\* it, and the boost tokens with the last of it, against position tokens
\* alone (withdraw stake.rs:109, pool.rs:112).  Only the reward token must be
\* apart from what is staked.
THEOREM StakeAlwaysReturnable ==
  RewardApart =>
    (StakeSpec => [](\A u \in Accounts : \A n \in 1 .. staker[u].amount : Withdrawable(u, n)))
<1> SUFFICES ASSUME RewardApart
             PROVE  StakeSpec =>
                      [](\A u \in Accounts :
                           \A n \in 1 .. staker[u].amount : Withdrawable(u, n))
  OBVIOUS
<1>1. CoverInv => \A u \in Accounts : \A n \in 1 .. staker[u].amount : Withdrawable(u, n)
  <2> SUFFICES ASSUME CoverInv, NEW u \in Accounts, NEW n \in 1 .. staker[u].amount
               PROVE  Withdrawable(u, n)
    OBVIOUS
  <2>1. StakeInv /\ staker[u].amount \in Nat
    BY DEF CoverInv, StakeInv, StakeTypeOK, StakeUsers
  <2>2. n \in Nat /\ n <= staker[u].amount
    BY <2>1
  <2>3. WithdrawFits(Updated, staker[u], n)
    BY <2>1, <2>2, TotalsFit
  <2>4. UserWeight(Updated, WithoutStake(staker[u], n)) <= UserWeight(Updated, staker[u])
    <3>1. Used(Updated) /\ Whole(Updated, staker[u])
      BY <2>1, UpdatedPool
    <3>2. PICK w \in Nat, x \in Nat :
            /\ w = UserWeight(Updated, staker[u])
            /\ x = UserWeight(Updated, WithoutStake(staker[u], n))
            /\ x + n <= w
      BY <2>2, <2>3, <3>1, WeightLeft
    <3> QED
      BY <2>2, <3>2
  <2>5. \A t \in StakeTokens : Payment(u, n, 0)[t] <= balance[t]
    BY <2>2, PaymentCovered
  <2> QED
    BY <2>3, <2>4, <2>5 DEF Withdrawable
<1>2. StakeInit => CoverInv
  BY InitCoverInv
<1>3. CoverInv /\ [StakeNext]_stakeVars => CoverInv'
  BY NextCoverInv
<1> QED
  BY <1>1, <1>2, <1>3, PTL DEF StakeSpec

===============================================================================
