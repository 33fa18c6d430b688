------------------------------ MODULE ClaimLedger -----------------------------
(***************************************************************************)
(* What the pool contract promises about money, without ratios, fees,      *)
(* oracles or epochs.  Minting and redeeming only write claims; a claim is *)
(* paid in full, once, and never in the block of its owner's last mint or  *)
(* redeem; collateral leaves the reserve only as the payment of a claim,   *)
(* and tokens are issued only as the payment of a claim.                   *)
(***************************************************************************)
EXTENDS Integers

CONSTANT Accounts

VARIABLES
  claims,        \* what each account is owed
  fresh,         \* accounts that minted or redeemed in the current block
  reserve,       \* collateral held by the contract
  synthSupply, shareSupply

ledgerVars == <<claims, fresh, reserve, synthSupply, shareSupply>>

Kinds == {"synth", "share", "collateral"}
NoClaim == [k \in Kinds |-> 0]

LedgerInit ==
  /\ claims = [u \in Accounts |-> NoClaim]
  /\ fresh = {}
  /\ reserve \in Nat
  /\ synthSupply \in Nat
  /\ shareSupply \in Nat

\* A mint or a redeem: u's claim grows, the shares bought back are burnt.
Credit(u) ==
  /\ \A k \in Kinds : claims'[u][k] >= claims[u][k]
  /\ \A v \in Accounts \ {u} : claims'[v] = claims[v]
  /\ fresh' = fresh \cup {u}
  /\ reserve' >= reserve
  /\ synthSupply' = synthSupply
  /\ shareSupply' <= shareSupply

Pay(u) ==
  /\ u \notin fresh
  /\ claims' = [claims EXCEPT ![u] = NoClaim]
  /\ reserve' = reserve - claims[u]["collateral"]
  /\ synthSupply' = synthSupply + claims[u]["synth"]
  /\ shareSupply' = shareSupply + claims[u]["share"]
  /\ UNCHANGED fresh

\* Somebody burns tokens, or gives collateral away.
GiveUp ==
  /\ synthSupply' <= synthSupply
  /\ shareSupply' <= shareSupply
  /\ reserve' >= reserve
  /\ UNCHANGED <<claims, fresh>>

NewBlock ==
  /\ fresh' = {}
  /\ UNCHANGED <<claims, reserve, synthSupply, shareSupply>>

LedgerNext ==
  \/ \E u \in Accounts : Credit(u) \/ Pay(u)
  \/ GiveUp
  \/ NewBlock

LedgerSpec == LedgerInit /\ [][LedgerNext]_ledgerVars
===============================================================================
