------------------------------ MODULE StakeVault ------------------------------
(***************************************************************************)
(* What the staking contract promises about deposits, without weights,     *)
(* rewards per share, debts or time.  What a user puts in is owed to that  *)
(* user until it is paid back.  The boost tokens go back in full with the  *)
(* last of the stake and never before; nothing one user does touches what  *)
(* another is owed; a reward is paid only out of what is owed to nobody.   *)
(***************************************************************************)
EXTENDS Totals

CONSTANTS Accounts, Tokens, WantToken, RewardToken   \* what is staked, what is paid

VARIABLES
  owed,       \* what each account is owed, by token
  held        \* what the contract holds, by token

vaultVars == <<owed, held>>

Nothing == [t \in Tokens |-> 0]
Surplus(t) == held[t] - Total([u \in Accounts |-> owed[u][t]])

VaultInit ==
  /\ owed = [u \in Accounts |-> Nothing]
  /\ held = Nothing

\* Tokens come in for an account, or as a gift to nobody.
PutIn(u, t) ==
  /\ held'[t] > held[t]
  /\ held' = [held EXCEPT ![t] = held'[t]]
  /\ owed' = [owed EXCEPT ![u][t] = @ + held'[t] - held[t]]

Gift(t) ==
  /\ held'[t] > held[t]
  /\ held' = [held EXCEPT ![t] = held'[t]]
  /\ UNCHANGED owed

\* A part of the stake goes back, or the stake and everything put in with it.
TakeOut(u, payment) ==
  /\ \/ payment = owed[u] /\ owed[u][WantToken] # 0
     \/ /\ payment[WantToken] \in 1 .. owed[u][WantToken] - 1
        /\ payment = [Nothing EXCEPT ![WantToken] = payment[WantToken]]
  /\ owed' = [owed EXCEPT ![u] = [t \in Tokens |-> @[t] - payment[t]]]

PayReward(payment, reward) ==
  /\ reward \in 0 .. Surplus(RewardToken)
  /\ held' = [t \in Tokens |-> held[t] - payment[t] - (IF t = RewardToken THEN reward ELSE 0)]

Rewarded(payment) == held[RewardToken] - held'[RewardToken] - payment[RewardToken]

VaultNext ==
  \/ \E t \in Tokens : Gift(t) \/ \E u \in Accounts : PutIn(u, t)
  \/ \E u \in Accounts :
       LET payment == [t \in Tokens |-> owed[u][t] - owed'[u][t]]
       IN TakeOut(u, payment) /\ PayReward(payment, Rewarded(payment))
  \/ UNCHANGED owed /\ PayReward(Nothing, Rewarded(Nothing))

VaultSpec == VaultInit /\ [][VaultNext]_vaultVars
===============================================================================
