------------------------------- MODULE Deployment ------------------------------
(***************************************************************************)
(* How a contract comes into being: instantiate of fantastic-pool or of    *)
(* fantastic-stake, the fantastic-cw20 tokens it has the chain instantiate *)
(* for it, and the replies that tell it their addresses.  It is one        *)
(* transaction: an error in any step reverts all of it.                    *)
(*                                                                         *)
(* The chain writes the data of a reply byte by byte and may stop at any   *)
(* point: the contract gets every sequence of ReplyBytes up to             *)
(* MaxReplyBytes, protobuf or not, and replies without data.               *)
(***************************************************************************)
EXTENDS ReplyData

CONSTANTS
  Sender, Contract,      \* of instantiate; the address of the new contract
  CollateralDenom,
  FundsChoices,          \* coins of the funds: functions from denoms to Nat
  ShareCaps,             \* InstantiateMsg.share_max_cap
  ValidAddresses,        \* what addr_validate accepts, as bytes
  ReplyBytes,
  MaxReplyBytes          \* bound on the data of a reply

VARIABLES
  contract,     \* "pool" or "stake", None before instantiate
  funds,        \* coins sent along
  shareCap,
  messages,     \* submessages not yet answered: <<[role, id]>>
  reply,        \* the reply being written, None between two of them
  token,        \* TOKEN_INFO of the token of every role, None before
  address,      \* synth, share and position_token; <<>> is Addr("")
  outcome       \* of the transaction

deploymentVars ==
  <<contract, funds, shareCap, messages, reply, token, address, outcome>>

Roles == {"synth", "share", "position"}

ASSUME DeploymentAssumption ==
  /\ MaxReplyBytes \in Nat
  /\ MaxReplyBytes < AddressableSize   \* a length is a usize
  /\ ReplyBytes \subseteq 0 .. 255
  /\ ValidAddresses \subseteq Seq(0 .. 127) \ {<<>>}
  /\ ShareCaps \subseteq Nat
  /\ \A coins \in FundsChoices : \A d \in DOMAIN coins : coins[d] \in Nat
  \* None is none of the values it stands for the absence of.
  /\ None \notin {"pool", "stake"} \cup Roles
  /\ None \notin Seq(0 .. 255)
  /\ None \notin [total_supply : Nat, mint : [minter : {Contract}, cap : {None}]]
  /\ None \notin [id : Nat, success : {TRUE}, data : {None} \cup Seq(ReplyBytes)]

(***************************************************************************)
(* fantastic-cw20: instantiate.  The sum of the initial balances is the    *)
(* supply.                                                                 *)
(***************************************************************************)
Supply(initial_balances) ==
  LET sum[i \in 0 .. Len(initial_balances)] ==
        IF i = 0 THEN 0 ELSE sum[i - 1] + initial_balances[i].amount
  IN sum[Len(initial_balances)]

TokenFits(msg) ==
  msg.mint # None /\ msg.mint.cap # None
    => Supply(msg.initial_balances) <= msg.mint.cap

TokenInfo(msg) ==
  [total_supply |-> Supply(msg.initial_balances), mint |-> msg.mint]

(***************************************************************************)
(* instantiate of the two contracts.                                       *)
(***************************************************************************)
PoolMessages == <<[role |-> "synth", id |-> 1], [role |-> "share", id |-> 2]>>
StakeMessages == <<[role |-> "position", id |-> 1]>>

Init ==
  /\ contract = None
  /\ funds = <<>> /\ shareCap = 0
  /\ messages = <<>>
  /\ reply = None
  /\ token = [role \in Roles |-> None]
  /\ address = [role \in Roles |-> <<>>]
  /\ outcome = "running"

InstantiatePool(coins, share_max_cap) ==
  /\ contract = None
  /\ share_max_cap # 0
  /\ contract' = "pool"
  /\ funds' = coins
  /\ shareCap' = share_max_cap
  /\ messages' = PoolMessages
  /\ UNCHANGED <<reply, token, address, outcome>>

InstantiateStake(coins) ==
  /\ contract = None
  /\ contract' = "stake"
  /\ funds' = coins
  /\ messages' = StakeMessages
  /\ UNCHANGED <<shareCap, reply, token, address, outcome>>

\* Mutant: a coin of the funds, whatever its denom.
AnyCoin ==
  IF funds = <<>>
  THEN <<>>
  ELSE <<[address |-> Sender, amount |-> funds[CHOOSE d \in DOMAIN funds : TRUE]]>>

\* The coin of the collateral denom in the funds, if there is one.
CollateralCoins ==
  IF CollateralDenom \in DOMAIN funds
  THEN <<[address |-> Sender, amount |-> funds[CollateralDenom]]>>
  ELSE <<>>

InitialBalances(role) ==
  CASE role = "synth"    -> CollateralCoins
    [] role = "share"    -> <<[address |-> Sender, amount |-> shareCap]>>
    [] role = "position" -> <<>>

TokenMsg(role) ==
  [ initial_balances |-> InitialBalances(role),
    mint             |-> [minter |-> Contract, cap |-> None] ]

(***************************************************************************)
(* The chain: it runs the first submessage and writes the reply to it.     *)
(***************************************************************************)
Running == outcome = "running" /\ messages # <<>>

InstantiateToken ==
  LET msg == TokenMsg(Head(messages).role)
  IN /\ Running
     /\ reply = None
     /\ TokenFits(msg)
     /\ token' = [token EXCEPT ![Head(messages).role] = TokenInfo(msg)]
     /\ \E data \in {None, <<>>} :
          reply' = [id |-> Head(messages).id, success |-> TRUE, data |-> data]
     /\ UNCHANGED <<contract, funds, shareCap, messages, address, outcome>>

\* The name, the symbol or the decimals are not what a token may have:
\* reply_on_success sends no reply then, the error is that of instantiate.
RefuseToken ==
  /\ Running
  /\ reply = None
  /\ outcome' = "reverted"
  /\ UNCHANGED <<contract, funds, shareCap, messages, reply, token, address>>

WriteByte(b) ==
  /\ reply # None
  /\ reply.data # None
  /\ Len(reply.data) < MaxReplyBytes
  /\ reply' = [reply EXCEPT !.data = Append(@, b)]
  /\ UNCHANGED <<contract, funds, shareCap, messages, token, address, outcome>>

(***************************************************************************)
(* reply of the two contracts, with set_synth_address, set_share_address   *)
(* and set_position_token.                                                 *)
(***************************************************************************)
\* Mutant: the pool takes the first reply for that of the share token.
RoleOfReplySwapped(id) ==
  IF contract = "pool"
  THEN CASE id = 1 -> "share" [] id = 2 -> "synth" [] OTHER -> None
  ELSE CASE id = 1 -> "position" [] OTHER -> None

RoleOfReply(id) ==
  IF contract = "pool"
  THEN CASE id = 1 -> "synth" [] id = 2 -> "share" [] OTHER -> None
  ELSE CASE id = 1 -> "position" [] OTHER -> None

ReplyAccepted ==
  /\ RoleOfReply(reply.id) # None
  /\ ReplyFits(reply)
  /\ Response(reply.data).contract_address \in ValidAddresses
  /\ address[RoleOfReply(reply.id)] = <<>>

HandleReply ==
  /\ outcome = "running"
  /\ reply # None
  /\ ReplyAccepted
  /\ address' = [address EXCEPT ![RoleOfReply(reply.id)] =
                   Response(reply.data).contract_address]
  /\ messages' = Tail(messages)
  /\ reply' = None
  /\ outcome' = IF messages' = <<>> THEN "committed" ELSE "running"
  /\ UNCHANGED <<contract, funds, shareCap, token>>

RefuseReply ==
  /\ outcome = "running"
  /\ reply # None
  /\ ~ReplyAccepted
  /\ outcome' = "reverted"
  /\ reply' = None
  /\ UNCHANGED <<contract, funds, shareCap, messages, token, address>>

Next ==
  \/ \E coins \in FundsChoices :
       \/ \E share_max_cap \in ShareCaps : InstantiatePool(coins, share_max_cap)
       \/ InstantiateStake(coins)
  \/ InstantiateToken \/ RefuseToken
  \/ \E b \in ReplyBytes : WriteByte(b)
  \/ HandleReply \/ RefuseReply

Spec == Init /\ [][Next]_deploymentVars
===============================================================================
