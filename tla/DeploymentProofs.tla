---------------------------- MODULE DeploymentProofs ---------------------------
(***************************************************************************)
(* What a committed deployment leaves behind (TokensAsPromised), that the  *)
(* parser reads of a reply what an encoder wrote, and what else it accepts *)
(* (DecodesTheEncoded), and that the answer of the chain is recorded for   *)
(* the token it answers for (RecordsTheAnswer), whatever else the chain    *)
(* may write.                                                              *)
(*                                                                         *)
(* The parser is a recursive function of the bytes, and what it returns is *)
(* proved by induction over the number of bytes: a set of numbers that     *)
(* holds 0 and the successor of each of its members holds them all.        *)
(***************************************************************************)
EXTENDS MCDeployment, TotalsProofs, SequenceTheorems, WellFoundedInduction

(***************************************************************************)
(* The inductive invariant.  Asked are the roles whose token instantiate   *)
(* asks for, Answered those whose reply was handled: they have an address. *)
(* A token is there from the moment the chain instantiates it.  A          *)
(* transaction that was reverted promises nothing.                         *)
(***************************************************************************)
Named(submessages) == {submessages[i].role : i \in 1 .. Len(submessages)}

Asked ==
  CASE contract = "pool"  -> {"synth", "share"}
    [] contract = "stake" -> {"position"}
    [] OTHER              -> {}

Answered == Asked \ Named(messages)

Instantiated == Answered \cup (IF reply = None THEN {} ELSE {Head(messages).role})

TokenInfos == [total_supply : Nat, mint : [minter : {Contract}, cap : {None}]]

ReplyRecords == [id : Nat, success : {TRUE}, data : {None} \cup Seq(ReplyBytes)]

Phases ==
  \/ contract = None    /\ messages = <<>>
  \/ contract = "pool"  /\ messages \in {PoolMessages, Tail(PoolMessages), <<>>}
  \/ contract = "stake" /\ messages \in {StakeMessages, <<>>}

Inputs ==
  /\ contract # None => funds \in FundsChoices
  /\ contract = "pool" => shareCap \in ShareCaps

ReplyRight ==
  reply # None =>
    /\ reply \in ReplyRecords
    /\ messages # <<>>
    /\ reply.id = Head(messages).id
    /\ reply.data # None => Len(reply.data) <= MaxReplyBytes

TokensRight ==
  /\ token \in [Roles -> {None} \cup TokenInfos]
  /\ \A role \in Roles : token[role] # None <=> role \in Instantiated
  /\ \A role \in Roles : token[role] # None => token[role] = TokenInfo(TokenMsg(role))

AddressesRight ==
  /\ address \in [Roles -> ValidAddresses \cup {<<>>}]
  /\ \A role \in Roles : address[role] # <<>> <=> role \in Answered

DeploymentInv ==
  /\ Phases /\ Inputs
  /\ outcome \in {"running", "committed", "reverted"}
  /\ outcome # "reverted" => ReplyRight /\ TokensRight /\ AddressesRight
  /\ outcome = "reverted" => reply = None /\ contract # None
  /\ outcome = "committed" => contract # None /\ messages = <<>>

\* A reply that is there is told from none.
LEMMA NoneIsNoReply == None \notin ReplyRecords
  BY DeploymentAssumption, Zenon DEF ReplyRecords

LEMMA NamedByNone == Named(<<>>) = {}
  BY DEF Named

LEMMA NamedByOne == ASSUME NEW x PROVE Named(<<x>>) = {x.role}
<1>1. Len(<<x>>) = 1 /\ <<x>>[1] = x
  OBVIOUS
<1>2. 1 .. 1 = {1}
  BY SMT
<1> QED
  BY <1>1, <1>2, Zenon DEF Named

LEMMA NamedByTwo == ASSUME NEW x, NEW y PROVE Named(<<x, y>>) = {x.role, y.role}
<1>1. Len(<<x, y>>) = 2 /\ <<x, y>>[1] = x /\ <<x, y>>[2] = y
  OBVIOUS
<1>2. 1 .. 2 = {1, 2}
  BY SMT
<1> QED
  BY <1>1, <1>2, Zenon DEF Named

\* The first submessage is for a role that was asked for, is not answered
\* yet, and is the one that reply takes its id for; after it the others are
\* left.
LEMMA FirstMessage ==
  ASSUME Phases, messages # <<>>
  PROVE  /\ Head(messages).role \in Roles
         /\ Head(messages).role \in Asked
         /\ RoleOfReply(Head(messages).id) = Head(messages).role
         /\ Head(messages).role \in Named(messages)
         /\ Named(Tail(messages)) = Named(messages) \ {Head(messages).role}
         /\ contract = "pool" => Tail(messages) \in {Tail(PoolMessages), <<>>}
         /\ contract = "stake" => Tail(messages) = <<>>
         /\ contract \in {"pool", "stake"}
         /\ Head(messages).id \in Nat
<1> DEFINE synth == [role |-> "synth", id |-> 1]
           share == [role |-> "share", id |-> 2]
           position == [role |-> "position", id |-> 1]
<1>1. /\ Named(<<synth, share>>) = {"synth", "share"}
      /\ Named(<<share>>) = {"share"}
      /\ Named(<<position>>) = {"position"}
      /\ Named(<<>>) = {}
  BY NamedByNone, NamedByOne, NamedByTwo
<1>2. /\ PoolMessages = <<synth, share>>
      /\ Tail(<<synth, share>>) = <<share>>
      /\ Head(<<synth, share>>) = synth
      /\ Tail(<<share>>) = <<>> /\ Head(<<share>>) = share
      /\ StakeMessages = <<position>>
      /\ Tail(<<position>>) = <<>> /\ Head(<<position>>) = position
  BY DEF PoolMessages, StakeMessages
<1>3. CASE contract = "pool" /\ messages = <<synth, share>>
  <2>1. Asked = {"synth", "share"} /\ RoleOfReply(1) = "synth"
    BY <1>3 DEF Asked, RoleOfReply
  <2> QED
    BY <1>1, <1>2, <1>3, <2>1 DEF Roles
<1>4. CASE contract = "pool" /\ messages = <<share>>
  <2>1. Asked = {"synth", "share"} /\ RoleOfReply(2) = "share"
    BY <1>4 DEF Asked, RoleOfReply
  <2> QED
    BY <1>1, <1>2, <1>4, <2>1 DEF Roles
<1>5. CASE contract = "stake" /\ messages = <<position>>
  <2>1. Asked = {"position"} /\ RoleOfReply(1) = "position"
    BY <1>5 DEF Asked, RoleOfReply
  <2> QED
    BY <1>1, <1>2, <1>5, <2>1 DEF Roles
<1> QED
  BY <1>2, <1>3, <1>4, <1>5 DEF Phases

(***************************************************************************)
(* The supply of a token: initial_balances has no entry or one.            *)
(***************************************************************************)
LEMMA SupplyOfNone == Supply(<<>>) = 0
<1> DEFINE sum[i \in 0 .. Len(<<>>)] ==
             IF i = 0 THEN 0 ELSE sum[i - 1] + <<>>[i].amount
           zero == [i \in 0 .. Len(<<>>) |-> 0]
<1>1. Len(<<>>) = 0 /\ 0 .. 0 = {0}
  BY SMT
<1>2. zero = [i \in 0 .. Len(<<>>) |->
                IF i = 0 THEN 0 ELSE zero[i - 1] + <<>>[i].amount]
  BY <1>1
<1>3. sum = [i \in 0 .. Len(<<>>) |->
               IF i = 0 THEN 0 ELSE sum[i - 1] + <<>>[i].amount]
  <2> HIDE DEF zero
  <2>1. \E f : f = [i \in 0 .. Len(<<>>) |->
                      IF i = 0 THEN 0 ELSE f[i - 1] + <<>>[i].amount]
    BY <1>2
  <2> QED
    BY <2>1
<1> HIDE DEF sum
<1>4. sum[0] = 0
  BY <1>1, <1>3
<1> QED
  BY <1>1, <1>4 DEF Supply, sum

LEMMA SupplyOfOne ==
  ASSUME NEW b, Len(b) = 1, b[1].amount \in Nat
  PROVE  Supply(b) = b[1].amount
<1> DEFINE sum[i \in 0 .. Len(b)] ==
             IF i = 0 THEN 0 ELSE sum[i - 1] + b[i].amount
           once == [i \in 0 .. Len(b) |-> IF i = 0 THEN 0 ELSE b[1].amount]
<1>1. 0 .. Len(b) = {0, 1}
  BY SMT
<1>2. once = [i \in 0 .. Len(b) |->
                IF i = 0 THEN 0 ELSE once[i - 1] + b[i].amount]
  <2>1. once[0] = 0 /\ once[1] = b[1].amount
    BY <1>1
  <2> HIDE DEF once
  <2>2. \A i \in 0 .. Len(b) :
          (IF i = 0 THEN 0 ELSE b[1].amount)
            = IF i = 0 THEN 0 ELSE once[i - 1] + b[i].amount
    BY <1>1, <2>1, SMT
  <2> QED
    BY <2>2 DEF once
<1>3. sum = [i \in 0 .. Len(b) |->
               IF i = 0 THEN 0 ELSE sum[i - 1] + b[i].amount]
  <2> HIDE DEF once
  <2>1. \E f : f = [i \in 0 .. Len(b) |->
                      IF i = 0 THEN 0 ELSE f[i - 1] + b[i].amount]
    BY <1>2
  <2> QED
    BY <2>1
<1> HIDE DEF sum
<1>4. sum[0] = 0
  BY <1>1, <1>3
<1>5. sum[1] = sum[0] + b[1].amount
  BY <1>1, <1>3
<1> QED
  BY <1>4, <1>5 DEF Supply, sum

\* The three tokens start as the deployer asked.
LEMMA TokenSupply ==
  ASSUME Inputs
  PROVE  /\ contract # None =>
              TokenInfo(TokenMsg("synth")).total_supply =
                IF CollateralDenom \in DOMAIN funds THEN funds[CollateralDenom] ELSE 0
         /\ contract = "pool" =>
              TokenInfo(TokenMsg("share")).total_supply = shareCap
         /\ TokenInfo(TokenMsg("position")).total_supply = 0
<1>1. \A role : TokenInfo(TokenMsg(role)).total_supply = Supply(InitialBalances(role))
  BY DEF TokenInfo, TokenMsg
<1>2. Supply(InitialBalances("position")) = 0
  BY SupplyOfNone DEF InitialBalances
<1>3. ASSUME contract = "pool"
      PROVE  Supply(InitialBalances("share")) = shareCap
  <2> DEFINE b == <<[address |-> Sender, amount |-> shareCap]>>
  <2>1. shareCap \in Nat
    BY <1>3, DeploymentAssumption DEF Inputs
  <2>2. Len(b) = 1 /\ b[1].amount = shareCap
    OBVIOUS
  <2>3. InitialBalances("share") = b
    BY DEF InitialBalances
  <2> QED
    BY <2>1, <2>2, <2>3, SupplyOfOne
<1>4. ASSUME contract # None, CollateralDenom \in DOMAIN funds
      PROVE  Supply(InitialBalances("synth")) = funds[CollateralDenom]
  <2> DEFINE b == <<[address |-> Sender, amount |-> funds[CollateralDenom]]>>
  <2>1. funds[CollateralDenom] \in Nat
    BY <1>4, DeploymentAssumption DEF Inputs
  <2>2. Len(b) = 1 /\ b[1].amount = funds[CollateralDenom]
    OBVIOUS
  <2>3. InitialBalances("synth") = b
    BY <1>4 DEF InitialBalances, CollateralCoins
  <2> QED
    BY <2>1, <2>2, <2>3, SupplyOfOne
<1>5. ASSUME CollateralDenom \notin DOMAIN funds
      PROVE  Supply(InitialBalances("synth")) = 0
  BY <1>5, SupplyOfNone DEF InitialBalances, CollateralCoins
<1> QED
  BY <1>1, <1>2, <1>3, <1>4, <1>5

LEMMA TokenType ==
  ASSUME Inputs, contract # None, NEW role \in Asked
  PROVE  TokenInfo(TokenMsg(role)) \in TokenInfos
<1>1. TokenInfo(TokenMsg(role)).total_supply \in Nat
  <2>1. CollateralDenom \in DOMAIN funds => funds[CollateralDenom] \in Nat
    BY DeploymentAssumption DEF Inputs
  <2>2. contract = "pool" => shareCap \in Nat
    BY DeploymentAssumption DEF Inputs
  <2> QED
    BY <2>1, <2>2, TokenSupply DEF Asked
<1> QED
  BY <1>1 DEF TokenInfo, TokenMsg, TokenInfos

LEMMA InitDeploymentInv == Init => DeploymentInv
<1> SUFFICES ASSUME Init PROVE DeploymentInv
  OBVIOUS
<1>1. contract = None /\ messages = <<>> /\ reply = None /\ outcome = "running"
  BY DEF Init
<1>2. Asked = {} /\ Answered = {} /\ Instantiated = {}
  <2>1. Asked = {}
    BY <1>1, DeploymentAssumption DEF Asked
  <2> QED
    BY <1>1, <2>1 DEF Answered, Instantiated
<1>3. Phases /\ Inputs /\ ReplyRight
  BY <1>1, DeploymentAssumption DEF Phases, Inputs, ReplyRight
<1>4. TokensRight /\ AddressesRight
  BY <1>2 DEF Init, TokensRight, AddressesRight
<1> QED
  BY <1>1, <1>3, <1>4 DEF DeploymentInv

\* Before instantiate nothing was asked for.
LEMMA NothingAsked ==
  ASSUME DeploymentInv, contract = None
  PROVE  /\ messages = <<>> /\ reply = None /\ outcome = "running"
         /\ token \in [Roles -> {None} \cup TokenInfos]
         /\ address \in [Roles -> ValidAddresses \cup {<<>>}]
         /\ \A role \in Roles : token[role] = None /\ address[role] = <<>>
<1>1. messages = <<>> /\ outcome = "running"
  BY DeploymentAssumption DEF DeploymentInv, Phases
<1>2. reply = None
  BY <1>1 DEF DeploymentInv, ReplyRight
<1>3. Answered = {} /\ Instantiated = {}
  <2>1. Asked = {}
    BY DeploymentAssumption DEF Asked
  <2> QED
    BY <1>2, <2>1 DEF Answered, Instantiated
<1> QED
  BY <1>1, <1>2, <1>3 DEF DeploymentInv, TokensRight, AddressesRight

\* instantiate: every role is asked for and none is answered.
LEMMA InstantiatesInv ==
  ASSUME DeploymentInv, NEW coins \in FundsChoices,
         \/ \E share_max_cap \in ShareCaps : InstantiatePool(coins, share_max_cap)
         \/ InstantiateStake(coins)
  PROVE  DeploymentInv'
<1>1. contract = None
  BY DEF InstantiatePool, InstantiateStake
<1>2. /\ reply' = None /\ outcome' = "running"
      /\ token' \in [Roles -> {None} \cup TokenInfos]
      /\ address' \in [Roles -> ValidAddresses \cup {<<>>}]
      /\ \A role \in Roles : token'[role] = None /\ address'[role] = <<>>
  BY <1>1, NothingAsked DEF InstantiatePool, InstantiateStake
<1>3. Phases' /\ Inputs'
  <2>1. /\ \/ contract' = "pool" /\ messages' = PoolMessages
           \/ contract' = "stake" /\ messages' = StakeMessages
        /\ funds' \in FundsChoices
        /\ contract' = "pool" => shareCap' \in ShareCaps
    BY DEF InstantiatePool, InstantiateStake
  <2> QED
    BY <2>1 DEF Phases, Inputs, PoolMessages, StakeMessages
<1>4. Answered' = {} /\ Instantiated' = {}
  <2>1. CASE contract' = "pool" /\ messages' = PoolMessages
    <3>1. Asked' = {"synth", "share"}
      BY <2>1 DEF Asked
    <3>2. Named(messages') = {"synth", "share"}
      BY <2>1, NamedByTwo DEF PoolMessages
    <3> QED
      BY <1>2, <3>1, <3>2 DEF Answered, Instantiated
  <2>2. CASE contract' = "stake" /\ messages' = StakeMessages
    <3>1. Asked' = {"position"}
      BY <2>2 DEF Asked
    <3>2. Named(messages') = {"position"}
      BY <2>2, NamedByOne DEF StakeMessages
    <3> QED
      BY <1>2, <3>1, <3>2 DEF Answered, Instantiated
  <2> QED
    BY <2>1, <2>2 DEF InstantiatePool, InstantiateStake
<1>5. contract' # None
  BY DeploymentAssumption DEF InstantiatePool, InstantiateStake
<1>6. ReplyRight' /\ TokensRight' /\ AddressesRight'
  BY <1>2, <1>4 DEF ReplyRight, TokensRight, AddressesRight
<1> QED
  BY <1>2, <1>3, <1>5, <1>6 DEF DeploymentInv

\* The chain instantiates the token of the first submessage and starts its
\* reply.
LEMMA InstantiateTokenInv ==
  ASSUME DeploymentInv, InstantiateToken
  PROVE  DeploymentInv'
<1> DEFINE first == Head(messages).role
<1>1. /\ outcome = "running" /\ messages # <<>> /\ reply = None
      /\ token' = [token EXCEPT ![first] = TokenInfo(TokenMsg(first))]
      /\ reply' \in ReplyRecords /\ reply'.id = Head(messages).id
      /\ reply'.data # None => Len(reply'.data) <= MaxReplyBytes
      /\ UNCHANGED <<contract, funds, shareCap, messages, address, outcome>>
  <2>1. Head(messages).id \in Nat
    BY FirstMessage DEF DeploymentInv, InstantiateToken, Running
  <2>2. PICK data \in {None, <<>>} :
          reply' = [id |-> Head(messages).id, success |-> TRUE, data |-> data]
    BY DEF InstantiateToken
  <2>3. data \in {None} \cup Seq(ReplyBytes)
    <3>1. <<>> \in Seq(ReplyBytes)
      OBVIOUS
    <3> QED
      BY <3>1, Zenon
  <2>4. reply' \in ReplyRecords /\ reply'.id = Head(messages).id
    BY <2>1, <2>2, <2>3 DEF ReplyRecords
  <2>5. reply'.data # None => Len(reply'.data) <= MaxReplyBytes
    BY <2>2, DeploymentAssumption
  <2> QED
    BY <2>4, <2>5 DEF InstantiateToken, Running
<1>2. reply' # None
  BY <1>1, NoneIsNoReply, Zenon
<1>3. /\ first \in Roles /\ first \in Asked /\ first \in Named(messages)
      /\ contract # None
  BY <1>1, FirstMessage, DeploymentAssumption DEF DeploymentInv
<1>4. TokenInfo(TokenMsg(first)) \in TokenInfos
  BY <1>3, TokenType DEF DeploymentInv
<1>5. TokenInfo(TokenMsg(first)) # None
  BY <1>4, DeploymentAssumption DEF TokenInfos
<1>6. Answered' = Answered
  BY <1>1 DEF Answered, Asked
<1>7. Instantiated = Answered /\ Instantiated' = Answered \cup {first}
  BY <1>1, <1>2, <1>6 DEF Instantiated
<1>8. \A role : TokenInfo(TokenMsg(role))' = TokenInfo(TokenMsg(role))
  BY <1>1 DEF TokenInfo, TokenMsg, InitialBalances, CollateralCoins
<1>9. Phases' /\ Inputs' /\ ReplyRight' /\ AddressesRight'
  <2>1. Phases' /\ Inputs'
    BY <1>1 DEF DeploymentInv, Phases, Inputs
  <2>2. ReplyRight'
    BY <1>1 DEF ReplyRight
  <2>3. AddressesRight'
    BY <1>1, <1>6 DEF DeploymentInv, AddressesRight
  <2> QED
    BY <2>1, <2>2, <2>3
<1>10. TokensRight'
  <2>1. TokensRight
    BY <1>1 DEF DeploymentInv
  <2> HIDE DEF first
  <2>2. token' \in [Roles -> {None} \cup TokenInfos]
    BY <1>1, <1>3, <1>4, <2>1 DEF TokensRight
  <2>3. ASSUME NEW role \in Roles
        PROVE  /\ token'[role] # None <=> role \in Instantiated'
               /\ token'[role] # None => token'[role] = TokenInfo(TokenMsg(role))'
    <3>1. CASE role = first
      BY <1>1, <1>3, <1>5, <1>7, <1>8, <2>1, <3>1 DEF TokensRight
    <3>2. CASE role # first
      <4>1. token'[role] = token[role]
        BY <1>1, <2>1, <3>2 DEF TokensRight
      <4> QED
        BY <1>7, <1>8, <2>1, <3>2, <4>1 DEF TokensRight
    <3> QED
      BY <3>1, <3>2
  <2> QED
    BY <2>2, <2>3 DEF TokensRight
<1> QED
  BY <1>1, <1>3, <1>9, <1>10 DEF DeploymentInv

\* The chain writes one more byte of a reply.
LEMMA WriteByteInv ==
  ASSUME DeploymentInv, NEW b \in ReplyBytes, WriteByte(b)
  PROVE  DeploymentInv'
<1>1. /\ reply # None /\ reply.data # None
      /\ reply' = [reply EXCEPT !.data = Append(@, b)]
      /\ UNCHANGED <<contract, funds, shareCap, messages, token, address, outcome>>
  BY DEF WriteByte
<1>2. outcome = "running"
  <2>1. outcome # "reverted"
    BY <1>1 DEF DeploymentInv
  <2> QED
    BY <1>1, <2>1 DEF DeploymentInv, ReplyRight
<1>3. reply \in ReplyRecords /\ messages # <<>> /\ reply.id = Head(messages).id
  BY <1>1, <1>2 DEF DeploymentInv, ReplyRight
<1>4. /\ reply' \in ReplyRecords /\ reply'.id = reply.id
      /\ Len(reply'.data) <= MaxReplyBytes
  <2>1. reply.data \in Seq(ReplyBytes)
    BY <1>1, <1>3 DEF ReplyRecords
  <2>2. /\ Append(reply.data, b) \in Seq(ReplyBytes)
        /\ Len(Append(reply.data, b)) = Len(reply.data) + 1
    BY <2>1
  <2>3. Len(reply.data) + 1 <= MaxReplyBytes
    BY <2>1, DeploymentAssumption DEF WriteByte
  <2>4. reply'.data = Append(reply.data, b)
    BY <1>1, <1>3 DEF ReplyRecords
  <2> QED
    BY <1>1, <1>3, <2>2, <2>3, <2>4 DEF ReplyRecords
<1>5. reply' # None
  BY <1>4, NoneIsNoReply, Zenon
<1>6. Answered' = Answered /\ Instantiated' = Instantiated
  BY <1>1, <1>5 DEF Answered, Asked, Instantiated
<1>7. \A role : TokenInfo(TokenMsg(role))' = TokenInfo(TokenMsg(role))
  BY <1>1 DEF TokenInfo, TokenMsg, InitialBalances, CollateralCoins
<1>8. Phases' /\ Inputs'
  BY <1>1 DEF DeploymentInv, Phases, Inputs
<1>9. ReplyRight'
  BY <1>1, <1>3, <1>4 DEF ReplyRight
<1>10. TokensRight'
  BY <1>1, <1>2, <1>6, <1>7 DEF DeploymentInv, TokensRight
<1>11. AddressesRight'
  BY <1>1, <1>2, <1>6 DEF DeploymentInv, AddressesRight
<1> QED
  BY <1>1, <1>2, <1>8, <1>9, <1>10, <1>11 DEF DeploymentInv

\* A reply that is accepted is for the first submessage, whose role had no
\* address.
LEMMA HandleReplyInv ==
  ASSUME DeploymentInv, HandleReply
  PROVE  DeploymentInv'
<1> DEFINE first == Head(messages).role
           addr == Response(reply.data).contract_address
<1>1. /\ outcome = "running" /\ reply # None /\ reply' = None
      /\ messages' = Tail(messages)
      /\ outcome' = IF messages' = <<>> THEN "committed" ELSE "running"
      /\ UNCHANGED <<contract, funds, shareCap, token>>
      /\ addr \in ValidAddresses
      /\ address' = [address EXCEPT ![RoleOfReply(reply.id)] = addr]
  BY DEF HandleReply, ReplyAccepted
<1>2. messages # <<>> /\ reply.id = Head(messages).id
  BY <1>1 DEF DeploymentInv, ReplyRight
<1>3. /\ first \in Roles /\ first \in Asked /\ first \in Named(messages)
      /\ RoleOfReply(reply.id) = first
      /\ Named(messages') = Named(messages) \ {first}
      /\ contract \in {"pool", "stake"}
      /\ contract = "pool" => messages' \in {Tail(PoolMessages), <<>>}
      /\ contract = "stake" => messages' = <<>>
  BY <1>1, <1>2, FirstMessage DEF DeploymentInv
<1>4. addr # <<>>
  BY <1>1, DeploymentAssumption
<1> HIDE DEF first, addr
<1>5. Answered' = Answered \cup {first}
  <2>1. Asked' = Asked
    BY <1>1 DEF Asked
  <2> QED
    BY <1>3, <2>1 DEF Answered
<1>6. Instantiated' = Instantiated
  BY <1>1, <1>5 DEF Instantiated, first
<1>7. \A role : TokenInfo(TokenMsg(role))' = TokenInfo(TokenMsg(role))
  BY <1>1 DEF TokenInfo, TokenMsg, InitialBalances, CollateralCoins
<1>8. Phases' /\ Inputs' /\ contract' # None
  BY <1>1, <1>3, DeploymentAssumption DEF DeploymentInv, Phases, Inputs
<1>9. ReplyRight'
  BY <1>1 DEF ReplyRight
<1>10. TokensRight'
  BY <1>1, <1>6, <1>7 DEF DeploymentInv, TokensRight
<1>11. AddressesRight'
  <2>1. AddressesRight
    BY <1>1 DEF DeploymentInv
  <2>2. address' = [address EXCEPT ![first] = addr]
    BY <1>1, <1>3
  <2> QED
    BY <1>1, <1>3, <1>4, <1>5, <2>1, <2>2 DEF AddressesRight
<1> QED
  BY <1>1, <1>8, <1>9, <1>10, <1>11 DEF DeploymentInv

\* An error reverts the transaction and says nothing of what it did before.
LEMMA RefusalInv ==
  ASSUME DeploymentInv, RefuseToken \/ RefuseReply
  PROVE  DeploymentInv'
<1>1. /\ outcome' = "reverted" /\ reply' = None
      /\ UNCHANGED <<contract, funds, shareCap, messages>>
  BY DEF RefuseToken, RefuseReply
<1>2. messages # <<>>
  BY DEF DeploymentInv, ReplyRight, RefuseToken, RefuseReply, Running
<1>3. contract # None
  BY <1>2, FirstMessage, DeploymentAssumption DEF DeploymentInv
<1>4. Phases' /\ Inputs'
  BY <1>1 DEF DeploymentInv, Phases, Inputs
<1> QED
  BY <1>1, <1>3, <1>4 DEF DeploymentInv

LEMMA StepDeploymentInv == DeploymentInv /\ [Next]_deploymentVars => DeploymentInv'
<1> SUFFICES ASSUME DeploymentInv, [Next]_deploymentVars PROVE DeploymentInv'
  OBVIOUS
<1>1. CASE UNCHANGED deploymentVars
  <2>1. /\ Answered' = Answered /\ Instantiated' = Instantiated
        /\ \A role : TokenInfo(TokenMsg(role))' = TokenInfo(TokenMsg(role))
    BY <1>1 DEF deploymentVars, Answered, Asked, Instantiated, TokenInfo, TokenMsg,
                InitialBalances, CollateralCoins
  <2>2. Phases' /\ Inputs' /\ (ReplyRight => ReplyRight')
    BY <1>1 DEF deploymentVars, DeploymentInv, Phases, Inputs, ReplyRight
  <2>3. (TokensRight => TokensRight') /\ (AddressesRight => AddressesRight')
    BY <1>1, <2>1 DEF deploymentVars, TokensRight, AddressesRight
  <2> QED
    BY <1>1, <2>2, <2>3 DEF deploymentVars, DeploymentInv
<1> QED
  BY <1>1, InstantiatesInv, InstantiateTokenInv, WriteByteInv, HandleReplyInv, RefusalInv
  DEF Next

LEMMA DeploymentInvariant == Spec => []DeploymentInv
  BY InitDeploymentInv, StepDeploymentInv, PTL DEF Spec

\* A contract that came into being has a token for exactly the roles it asked
\* for, with the supply and the minter it asked for.
THEOREM DeploysAsPromised == Spec => []TokensAsPromised
<1>1. DeploymentInv => TokensAsPromised
  <2> SUFFICES ASSUME DeploymentInv, outcome = "committed" PROVE TokensAsPromised
    BY DEF TokensAsPromised
  <2>1. /\ Inputs /\ contract # None
        /\ reply = None /\ messages = <<>>
        /\ TokensRight /\ AddressesRight
    BY DEF DeploymentInv, ReplyRight
  <2>2. Answered = Asked /\ Instantiated = Asked
    BY <2>1, NamedByNone DEF Answered, Instantiated
  <2>3. ASSUME NEW role \in Roles
        PROVE  /\ (token[role] # None) <=> (address[role] # <<>>)
               /\ token[role] # None =>
                    token[role].mint = [minter |-> Contract, cap |-> None]
    BY <2>1, <2>2 DEF TokensRight, AddressesRight, TokenInfo, TokenMsg
  <2>4. ASSUME NEW role \in Asked PROVE token[role] = TokenInfo(TokenMsg(role))
    <3>1. role \in Roles
      BY DEF Asked, Roles
    <3> QED
      BY <2>1, <2>2, <2>4, <3>1 DEF TokensRight
  <2>5. /\ contract = "pool" => Asked = {"synth", "share"}
        /\ contract = "stake" => Asked = {"position"}
    BY DEF Asked
  <2> QED
    BY <2>1, <2>3, <2>4, <2>5, TokenSupply DEF TokensAsPromised
<1> QED
  BY <1>1, DeploymentInvariant, PTL

(***************************************************************************)
(* Induction, over a set of numbers.                                       *)
(***************************************************************************)
\* A set of numbers that is not empty has a least one.
LEMMA LeastNumber ==
  ASSUME NEW S, S \subseteq Nat, S # {}
  PROVE  \E n \in S : \A m \in S : n <= m
<1> DEFINE R == OpToRel(<, Nat)
<1>1. IsWellFoundedOn(R, Nat)
  BY NatLessThanWellFounded
<1>2. \A m, n \in Nat : <<m, n>> \in R <=> m < n
  BY DEF OpToRel
<1> HIDE DEF R
<1>3. PICK n \in S : \A m \in S : ~ (<<m, n>> \in R)
  BY <1>1, WFMin, Zenon
<1>4. ASSUME NEW m \in S PROVE n <= m
  <2>1. m \in Nat /\ n \in Nat
    OBVIOUS
  <2>2. ~ (m < n)
    BY <1>2, <1>3, <2>1, Zenon
  <2> QED
    BY <2>1, <2>2
<1> QED
  BY <1>4

\* What holds of 0 and of the number after each it holds of, holds of all.
LEMMA EveryNumber ==
  ASSUME NEW S, S \subseteq Nat, 0 \in S, \A n \in S : n + 1 \in S
  PROVE  \A n \in Nat : n \in S
<1>1. SUFFICES ASSUME Nat \ S # {} PROVE FALSE
  OBVIOUS
<1>2. PICK n \in Nat \ S : \A m \in Nat \ S : n <= m
  BY <1>1, LeastNumber
<1>3. n # 0 /\ n - 1 \in Nat /\ (n - 1) + 1 = n
  BY <1>2
<1>4. n - 1 \in S
  BY <1>2, <1>3
<1> QED
  BY <1>2, <1>3, <1>4

\* A power of two counts the subsets of a set.
LEMMA PowerOfTwo ==
  ASSUME NEW n \in Nat
  PROVE  2^n \in Nat /\ 2^(n + 1) = 2 * 2^n
<1> DEFINE S == 1 .. n
           T == 1 .. n + 1
           A == SUBSET S
           B == {X \cup {n + 1} : X \in A}
<1>1. /\ IsFiniteSet(S) /\ Cardinality(S) = n
      /\ IsFiniteSet(T) /\ Cardinality(T) = n + 1
  <2>1. 1 \in Int /\ n \in Int /\ n + 1 \in Int
    OBVIOUS
  <2>2. /\ IsFiniteSet(S) /\ Cardinality(S) = IF 1 > n THEN 0 ELSE n - 1 + 1
        /\ IsFiniteSet(T) /\ Cardinality(T) = IF 1 > n + 1 THEN 0 ELSE n + 1 - 1 + 1
    BY <2>1, FS_Interval
  <2> QED
    BY <2>2
<1>2. /\ IsFiniteSet(A) /\ Cardinality(A) = 2^n
      /\ Cardinality(SUBSET T) = 2^(n + 1)
  <2>1. IsFiniteSet(A) /\ Cardinality(A) = 2^Cardinality(S)
    BY <1>1, FS_SUBSET
  <2>2. Cardinality(SUBSET T) = 2^Cardinality(T)
    BY <1>1, FS_SUBSET
  <2> QED
    BY <1>1, <2>1, <2>2
<1>3. T = S \cup {n + 1} /\ n + 1 \notin S
  OBVIOUS
<1>4. SUBSET T = A \cup B /\ A \cap B = {}
  <2> HIDE DEF S, T
  <2>1. ASSUME NEW X \in SUBSET T PROVE X \in A \cup B
    <3>1. CASE n + 1 \in X
      <4>1. X \ {n + 1} \in A /\ X = (X \ {n + 1}) \cup {n + 1}
        BY <1>3, <3>1
      <4> QED
        BY <4>1
    <3>2. CASE n + 1 \notin X
      BY <1>3, <3>2
    <3> QED
      BY <3>1, <3>2
  <2>2. A \cup B \subseteq SUBSET T
    BY <1>3
  <2> QED
    BY <1>3, <2>1, <2>2
<1>5. IsFiniteSet(B) /\ Cardinality(B) = Cardinality(A)
  <2> DEFINE f == [X \in A |-> X \cup {n + 1}]
  <2>1. f \in Bijection(A, B)
    <3> HIDE DEF S
    <3>1. f \in [A -> B]
      OBVIOUS
    <3>2. \A X, Y \in A : f[X] = f[Y] => X = Y
      BY <1>3
    <3>3. \A Y \in B : \E X \in A : f[X] = Y
      OBVIOUS
    <3> QED
      BY <3>1, <3>2, <3>3 DEF Bijection, Injection, Surjection, IsInjective
  <2>2. ExistsBijection(A, B)
    BY <2>1 DEF ExistsBijection
  <2> HIDE DEF A, B, f
  <2> QED
    BY <1>2, <2>2, <2>1, FS_Bijection, FS_SameCardinalityBij
<1> HIDE DEF A, B, S, T
<1>6. Cardinality(A \cup B) = Cardinality(A) + Cardinality(B) - Cardinality(A \cap B)
  BY <1>2, <1>5, FS_Union
<1>7. Cardinality({}) = 0
  BY FS_EmptySet
<1>8. Cardinality(A) \in Nat
  BY <1>2, FS_CardinalityType
<1>9. Cardinality(SUBSET T) = 2 * Cardinality(A)
  <2>1. PICK a \in Nat : a = Cardinality(A)
    BY <1>8
  <2>2. Cardinality(SUBSET T) = a + a - 0
    BY <1>4, <1>5, <1>6, <1>7, <2>1, Zenon
  <2>3. a + a - 0 = 2 * a
    OBVIOUS
  <2> QED
    BY <2>1, <2>2, <2>3, Zenon
<1> QED
  BY <1>2, <1>8, <1>9, Zenon

\* The places of a number in base 128.
LEMMA Places ==
  /\ Place(0) = 1
  /\ \A i \in Nat : Place(i) \in Nat \ {0} /\ Place(i + 1) = 128 * Place(i)
<1>1. Place(0) = 1
  BY SMT DEF Place
<1>2. ASSUME NEW i \in Nat PROVE Place(i) \in Nat /\ Place(i + 1) = 128 * Place(i)
  <2>1. PICK n \in Nat : n = 7 * i
    OBVIOUS
  <2>2. /\ 2^n \in Nat /\ 2^(n + 1) = 2 * 2^n
        /\ 2^((n + 1) + 1) = 2 * 2^(n + 1)
        /\ 2^((n + 2) + 1) = 2 * 2^(n + 2)
        /\ 2^((n + 3) + 1) = 2 * 2^(n + 3)
        /\ 2^((n + 4) + 1) = 2 * 2^(n + 4)
        /\ 2^((n + 5) + 1) = 2 * 2^(n + 5)
        /\ 2^((n + 6) + 1) = 2 * 2^(n + 6)
    BY <2>1, PowerOfTwo
  <2>3. 7 * (i + 1) = n + 7
    BY <2>1
  <2>4. /\ (n + 1) + 1 = n + 2 /\ (n + 2) + 1 = n + 3 /\ (n + 3) + 1 = n + 4
        /\ (n + 4) + 1 = n + 5 /\ (n + 5) + 1 = n + 6 /\ (n + 6) + 1 = n + 7
    OBVIOUS
  <2>5. PICK p \in Nat : p = 2^n
    BY <2>2
  <2>6. 2^(n + 7) = 2 * (2 * (2 * (2 * (2 * (2 * (2 * p))))))
    BY <2>2, <2>4, <2>5, Zenon
  <2>7. 2 * (2 * (2 * (2 * (2 * (2 * (2 * p)))))) = 128 * p
    BY SMT
  <2>8. Place(i) = p /\ Place(i + 1) = 2^(n + 7)
    BY <2>1, <2>3, <2>5, Zenon DEF Place
  <2> QED
    BY <2>6, <2>7, <2>8
<1>3. \A i \in Nat : Place(i) # 0
  <2> DEFINE S == {i \in Nat : Place(i) # 0}
  <2>1. 0 \in S
    BY <1>1
  <2>2. \A i \in S : i + 1 \in S
    BY <1>2
  <2>3. S \subseteq Nat
    OBVIOUS
  <2> HIDE DEF S
  <2>4. \A i \in Nat : i \in S
    BY <2>1, <2>2, <2>3, EveryNumber, Zenon
  <2> QED
    BY <2>4 DEF S
<1> QED
  BY <1>1, <1>2, <1>3

(***************************************************************************)
(* Numbers in base 128, the lowest digit first.                            *)
(***************************************************************************)
IsValue(s, k, value) ==
  value = [i \in 0 .. k |->
             IF i = 0 THEN 0 ELSE value[i - 1] + (s[i] % 128) * Place(i - 1)]

\* What the first k bytes of s are worth.
Number(s, k) ==
  LET value[i \in 0 .. k] ==
        IF i = 0 THEN 0 ELSE value[i - 1] + (s[i] % 128) * Place(i - 1)
  IN value[k]

\* The sums of the places, step by step.
LEMMA ValueSteps ==
  ASSUME NEW s, NEW k \in Nat, NEW v
  PROVE  IsValue(s, k, v) <=>
           /\ v = [i \in 0 .. k |-> v[i]]
           /\ v[0] = 0
           /\ \A i \in 0 .. k : i # k => v[i + 1] = v[i] + (s[i + 1] % 128) * Place(i)
<1>1. ASSUME IsValue(s, k, v)
      PROVE  /\ v = [i \in 0 .. k |-> v[i]]
             /\ v[0] = 0
             /\ \A i \in 0 .. k : i # k => v[i + 1] = v[i] + (s[i + 1] % 128) * Place(i)
  <2>1. \A i \in 0 .. k :
          v[i] = IF i = 0 THEN 0 ELSE v[i - 1] + (s[i] % 128) * Place(i - 1)
    BY <1>1 DEF IsValue
  <2>2. v = [i \in 0 .. k |-> v[i]]
    BY <1>1 DEF IsValue
  <2>3. ASSUME NEW i \in 0 .. k, i # k
        PROVE  v[i + 1] = v[i] + (s[i + 1] % 128) * Place(i)
    <3>1. i + 1 \in 0 .. k /\ i + 1 # 0 /\ (i + 1) - 1 = i
      BY <2>3
    <3>2. v[i + 1] = v[(i + 1) - 1] + (s[i + 1] % 128) * Place((i + 1) - 1)
      BY <2>1, <3>1, Zenon
    <3> QED
      BY <3>1, <3>2, Zenon
  <2>4. v[0] = 0
    BY <2>1
  <2> QED
    BY <2>2, <2>3, <2>4
<1>2. ASSUME /\ v = [i \in 0 .. k |-> v[i]]
             /\ v[0] = 0
             /\ \A i \in 0 .. k : i # k => v[i + 1] = v[i] + (s[i + 1] % 128) * Place(i)
      PROVE  IsValue(s, k, v)
  <2>1. ASSUME NEW i \in 0 .. k
        PROVE  v[i] = IF i = 0 THEN 0 ELSE v[i - 1] + (s[i] % 128) * Place(i - 1)
    <3>1. CASE i = 0
      BY <1>2, <3>1
    <3>2. CASE i # 0
      <4>1. i - 1 \in 0 .. k /\ i - 1 # k /\ (i - 1) + 1 = i
        BY <3>2
      <4>2. v[(i - 1) + 1] = v[i - 1] + (s[(i - 1) + 1] % 128) * Place(i - 1)
        BY <1>2, <4>1, Zenon
      <4> QED
        BY <3>2, <4>1, <4>2, Zenon
    <3> QED
      BY <3>1, <3>2
  <2> QED
    BY <1>2, <2>1, Zenon DEF IsValue
<1> QED
  BY <1>1, <1>2, Zenon

\* The sums of the places exist.
LEMMA ValueExists ==
  ASSUME NEW s, NEW k \in Nat
  PROVE  \E v : IsValue(s, k, v)
<1> DEFINE S == {n \in Nat : \E v : IsValue(s, n, v)}
<1>1. 0 \in S
  <2> DEFINE v == [i \in 0 .. 0 |-> 0]
  <2>1. v[0] = 0 /\ \A i \in 0 .. 0 : i = 0
    OBVIOUS
  <2>2. v = [i \in 0 .. 0 |-> v[i]]
    BY <2>1
  <2> HIDE DEF v
  <2>3. IsValue(s, 0, v)
    BY <2>1, <2>2, ValueSteps
  <2> QED
    BY <2>3
<1>2. ASSUME NEW n \in S
      PROVE  n + 1 \in S
  <2>1. PICK v : IsValue(s, n, v)
    OBVIOUS
  <2>2. n \in Nat /\ n + 1 \in Nat
    OBVIOUS
  <2>3. /\ v = [i \in 0 .. n |-> v[i]]
        /\ v[0] = 0
        /\ \A i \in 0 .. n : i # n => v[i + 1] = v[i] + (s[i + 1] % 128) * Place(i)
    BY <2>1, <2>2, ValueSteps
  <2> DEFINE last == v[n] + (s[n + 1] % 128) * Place(n)
             w == [i \in 0 .. n + 1 |-> IF i = n + 1 THEN last ELSE v[i]]
  <2> HIDE DEF last
  <2>4. w[n + 1] = last /\ \A i \in 0 .. n : w[i] = v[i]
    BY <2>2
  <2>5. w = [i \in 0 .. n + 1 |-> w[i]]
    OBVIOUS
  <2> HIDE DEF w
  <2>6. w[0] = 0
    BY <2>2, <2>3, <2>4
  <2>7. ASSUME NEW i \in 0 .. n + 1, i # n + 1
        PROVE  w[i + 1] = w[i] + (s[i + 1] % 128) * Place(i)
    <3>1. CASE i = n
      <4>1. n \in 0 .. n
        BY <2>2
      <4>2. w[n] = v[n]
        BY <2>4, <4>1, Zenon
      <4> QED
        BY <2>4, <3>1, <4>2, Zenon DEF last
    <3>2. CASE i # n
      <4>1. i \in 0 .. n /\ i + 1 \in 0 .. n
        BY <2>2, <2>7, <3>2
      <4> QED
        BY <2>3, <2>4, <3>2, <4>1, Zenon
    <3> QED
      BY <3>1, <3>2
  <2>8. IsValue(s, n + 1, w)
    BY <2>2, <2>5, <2>6, <2>7, ValueSteps
  <2> QED
    BY <2>2, <2>8
<1>3. S \subseteq Nat
  OBVIOUS
<1> HIDE DEF S
<1>4. k \in S
  BY <1>1, <1>2, <1>3, EveryNumber, Zenon
<1> QED
  BY <1>4 DEF S

\* They are the same however far they go.
LEMMA ValuesAgree ==
  ASSUME NEW s, NEW k \in Nat, NEW v, IsValue(s, k, v),
         NEW m \in Nat, k <= m, NEW w, IsValue(s, m, w),
         NEW i \in 0 .. k
  PROVE  v[i] = w[i]
<1> DEFINE S == {n \in Nat : n <= k => v[n] = w[n]}
<1>1. /\ v[0] = 0
      /\ \A n \in 0 .. k : n # k => v[n + 1] = v[n] + (s[n + 1] % 128) * Place(n)
      /\ w[0] = 0
      /\ \A n \in 0 .. m : n # m => w[n + 1] = w[n] + (s[n + 1] % 128) * Place(n)
  BY ValueSteps
<1>2. 0 \in S
  BY <1>1
<1>3. ASSUME NEW n \in S PROVE n + 1 \in S
  <2>1. CASE n + 1 <= k
    <3>1. n \in 0 .. k /\ n # k /\ n \in 0 .. m /\ n # m /\ n + 1 \in Nat
      BY <2>1
    <3>2. v[n] = w[n]
      BY <2>1
    <3> HIDE DEF S
    <3>3. v[n + 1] = v[n] + (s[n + 1] % 128) * Place(n)
      BY <1>1, <3>1, Zenon
    <3>4. w[n + 1] = w[n] + (s[n + 1] % 128) * Place(n)
      BY <1>1, <3>1, Zenon
    <3>5. v[n + 1] = w[n + 1]
      BY <3>2, <3>3, <3>4, Zenon
    <3> QED
      BY <3>1, <3>5 DEF S
  <2>2. CASE ~ (n + 1 <= k)
    BY <2>2
  <2> QED
    BY <2>1, <2>2
<1>4. S \subseteq Nat
  OBVIOUS
<1>5. i \in Nat /\ i <= k
  OBVIOUS
<1> HIDE DEF S
<1>6. i \in S
  BY <1>2, <1>3, <1>4, <1>5, EveryNumber, Zenon
<1> QED
  BY <1>5, <1>6 DEF S

\* A number is the last of its sums.
LEMMA NumberIsValue ==
  ASSUME NEW s, NEW k \in Nat
  PROVE  \E v : IsValue(s, k, v) /\ Number(s, k) = v[k]
<1> DEFINE value[i \in 0 .. k] ==
             IF i = 0 THEN 0 ELSE value[i - 1] + (s[i] % 128) * Place(i - 1)
<1>1. value = [i \in 0 .. k |->
                 IF i = 0 THEN 0 ELSE value[i - 1] + (s[i] % 128) * Place(i - 1)]
  <2>1. \E v : v = [i \in 0 .. k |->
                      IF i = 0 THEN 0 ELSE v[i - 1] + (s[i] % 128) * Place(i - 1)]
    BY ValueExists DEF IsValue
  <2> QED
    BY <2>1
<1>2. Number(s, k) = value[k]
  BY DEF Number
<1> HIDE DEF value
<1>3. IsValue(s, k, value)
  BY <1>1, Zenon DEF IsValue
<1> QED
  BY <1>2, <1>3

\* A byte more adds its digit, in its place.
LEMMA NumberSteps ==
  ASSUME NEW s
  PROVE  /\ Number(s, 0) = 0
         /\ \A k \in Nat : Number(s, k + 1) = Number(s, k) + (s[k + 1] % 128) * Place(k)
<1>1. Number(s, 0) = 0
  <2>1. PICK v : IsValue(s, 0, v) /\ Number(s, 0) = v[0]
    BY NumberIsValue
  <2> QED
    BY <2>1, ValueSteps
<1>2. ASSUME NEW k \in Nat
      PROVE  Number(s, k + 1) = Number(s, k) + (s[k + 1] % 128) * Place(k)
  <2>1. PICK v : IsValue(s, k, v) /\ Number(s, k) = v[k]
    BY NumberIsValue
  <2>2. k + 1 \in Nat /\ k <= k + 1 /\ k \in 0 .. k /\ k \in 0 .. k + 1 /\ k # k + 1
    OBVIOUS
  <2>3. PICK w : IsValue(s, k + 1, w) /\ Number(s, k + 1) = w[k + 1]
    BY <2>2, NumberIsValue
  <2>4. v[k] = w[k]
    BY <2>1, <2>2, <2>3, ValuesAgree
  <2>5. w[k + 1] = w[k] + (s[k + 1] % 128) * Place(k)
    BY <2>2, <2>3, ValueSteps
  <2> QED
    BY <2>1, <2>3, <2>4, <2>5, Zenon
<1> QED
  BY <1>1, <1>2

\* Quotient and remainder are what they should be.
LEMMA Division ==
  ASSUME NEW y \in Nat \ {0}, NEW q \in Nat, NEW r \in Nat, r < y
  PROVE  (y * q + r) \div y = q /\ (y * q + r) % y = r
<1>1. PICK x \in Nat : x = y * q + r /\ y * q \in Nat
  BY ProductType
<1>2. PICK a \in Nat : a = x \div y /\ y * a <= x
  BY <1>1, QuotientType
<1>3. q <= a
  BY <1>1, <1>2, QuotientBound
<1>4. a <= q
  <2>1. SUFFICES ASSUME q + 1 <= a PROVE FALSE
    BY <1>2
  <2>2. (q + 1) * y <= a * y
    BY <2>1, ProductGrows
  <2>3. (q + 1) * y = y * q + y /\ a * y = y * a /\ y * a \in Nat
    BY SMT
  <2> QED
    BY <1>1, <1>2, <2>2, <2>3
<1>5. a = q
  BY <1>3, <1>4
<1>6. x % y = x - y * (x \div y)
  BY <1>1, SMT
<1>7. x % y = r
  BY <1>1, <1>2, <1>5, <1>6
<1> QED
  BY <1>1, <1>2, <1>5, <1>7

\* A remainder is a number, and what is left of it a multiple.
LEMMA Divided ==
  ASSUME NEW x \in Nat, NEW y \in Nat \ {0}
  PROVE  /\ x \div y \in Nat /\ x % y \in Nat /\ x % y < y
         /\ x = y * (x \div y) + (x % y)
<1>1. PICK q \in Nat : q = x \div y /\ y * q <= x
  BY QuotientType
<1>2. x % y \in Nat /\ x % y < y
  BY SMT
<1>3. x % y = x - y * (x \div y)
  BY SMT
<1>4. PICK r \in Nat, t \in Nat : r = x % y /\ t = y * q
  BY <1>1, <1>2, ProductType
<1>5. r = x - t
  BY <1>1, <1>3, <1>4, Zenon
<1>6. x = t + r
  BY <1>4, <1>5
<1>7. x = y * (x \div y) + (x % y)
  BY <1>1, <1>4, <1>6, Zenon
<1> QED
  BY <1>1, <1>2, <1>7, Zenon

\* The first k bytes of a sequence are numbers.
Bytes(s, k) == \A i \in 1 .. k : s[i] \in Nat

\* k digits are worth less than the place after them.
LEMMA NumberBound ==
  ASSUME NEW s, NEW k \in Nat, Bytes(s, k)
  PROVE  Number(s, k) \in Nat /\ Number(s, k) < Place(k)
<1> DEFINE S == {n \in Nat : n <= k => Number(s, n) \in Nat /\ Number(s, n) < Place(n)}
<1>1. 0 \in S
  BY NumberSteps, Places
<1>2. ASSUME NEW n \in S PROVE n + 1 \in S
  <2>1. SUFFICES ASSUME n + 1 <= k
                 PROVE  Number(s, n + 1) \in Nat /\ Number(s, n + 1) < Place(n + 1)
    OBVIOUS
  <2>2. n \in Nat /\ n + 1 \in 1 .. k /\ Number(s, n) \in Nat /\ Number(s, n) < Place(n)
    BY <2>1
  <2>3. s[n + 1] \in Nat
    BY <2>2 DEF Bytes
  <2>4. PICK d \in 0 .. 127 : d = s[n + 1] % 128
    BY <2>3
  <2>5. PICK p \in Nat \ {0} : p = Place(n) /\ Place(n + 1) = 128 * p
    BY <2>2, Places
  <2>6. d * p \in Nat /\ d * p <= 127 * p
    BY SMT
  <2>7. Number(s, n + 1) = Number(s, n) + d * p
    BY <2>2, <2>4, <2>5, NumberSteps
  <2> QED
    BY <2>2, <2>5, <2>6, <2>7
<1>3. S \subseteq Nat
  OBVIOUS
<1> HIDE DEF S
<1>4. k \in S
  BY <1>1, <1>2, <1>3, EveryNumber, Zenon
<1> QED
  BY <1>4 DEF S

\* The digits of m, the lowest first, are worth m again, or as much of it as
\* there are digits.
LEMMA NumberOfDigits ==
  ASSUME NEW s, NEW k \in Nat, NEW m \in Nat,
         \A i \in 1 .. k : s[i] % 128 = (m \div Place(i - 1)) % 128
  PROVE  Number(s, k) = m % Place(k)
<1> DEFINE S == {n \in Nat : n <= k => Number(s, n) = m % Place(n)}
<1>1. 0 \in S
  <2>1. m % 1 = 0
    OBVIOUS
  <2> QED
    BY <2>1, NumberSteps, Places
<1>2. ASSUME NEW n \in S PROVE n + 1 \in S
  <2>1. SUFFICES ASSUME n + 1 <= k
                 PROVE  Number(s, n + 1) = m % Place(n + 1)
    OBVIOUS
  <2>2. n \in Nat /\ n + 1 \in 1 .. k /\ (n + 1) - 1 = n /\ Number(s, n) = m % Place(n)
    BY <2>1
  <2>3. PICK p \in Nat \ {0} : p = Place(n) /\ Place(n + 1) = 128 * p
    BY <2>2, Places
  <2>4. PICK q \in Nat, r \in Nat :
          q = m \div p /\ r = m % p /\ r < p /\ m = p * q + r
    BY Divided
  <2>5. PICK a \in Nat, b \in 0 .. 127 : b = q % 128 /\ q = 128 * a + b
    BY SMT
  <2>6. s[n + 1] % 128 = b
    BY <2>2, <2>3, <2>4, <2>5, Zenon
  <2>7. Number(s, n + 1) = r + b * p
    <3>1. Number(s, n + 1) = Number(s, n) + (s[n + 1] % 128) * Place(n)
      BY <2>2, NumberSteps
    <3> QED
      BY <2>2, <2>3, <2>4, <2>6, <3>1, Zenon
  <2>8. PICK low \in Nat, y \in Nat \ {0} :
          low = r + b * p /\ y = 128 * p /\ low < y
    <3>1. b * p \in Nat /\ b * p <= 127 * p
      BY SMT
    <3> QED
      BY <2>4, <3>1
  <2>9. m = y * a + low
    <3>1. p * (128 * a + b) = (128 * p) * a + b * p
      BY SMT
    <3>2. p * (128 * a + b) \in Nat /\ (128 * p) * a \in Nat /\ b * p \in Nat
      BY SMT
    <3>3. m = p * (128 * a + b) + r
      BY <2>4, <2>5, Zenon
    <3>4. m = (128 * p) * a + (r + b * p)
      BY <3>1, <3>2, <3>3
    <3> QED
      BY <2>8, <3>4, Zenon
  <2>10. (y * a + low) % y = low
    <3>1. \A d \in Nat \ {0}, f, g \in Nat : g < d => (d * f + g) % d = g
      BY Division, Zenon
    <3>2. y \in Nat \ {0} /\ a \in Nat /\ low \in Nat /\ low < y
      BY <2>8, Zenon
    <3> QED
      BY <3>1, <3>2, Zenon
  <2> QED
    BY <2>3, <2>7, <2>8, <2>9, <2>10, Zenon
<1>3. S \subseteq Nat
  OBVIOUS
<1> HIDE DEF S
<1>4. k \in S
  BY <1>1, <1>2, <1>3, EveryNumber, Zenon
<1> QED
  BY <1>4 DEF S

\* What the bytes after the first i add is a multiple of their place.
LEMMA NumberOfRest ==
  ASSUME NEW s, NEW k \in Nat, Bytes(s, k), NEW i \in 0 .. k
  PROVE  \E rest \in Nat : Number(s, k) = Number(s, i) + Place(i) * rest
<1> DEFINE S == {n \in Nat : i <= n /\ n <= k =>
                   /\ \E rest \in Nat : Number(s, n) = Number(s, i) + Place(i) * rest
                   /\ \E times \in Nat : Place(n) = Place(i) * times}
<1>1. PICK p \in Nat \ {0}, u \in Nat : p = Place(i) /\ u = Number(s, i)
  <2>1. i \in Nat /\ Bytes(s, i)
    BY DEF Bytes
  <2> QED
    BY <2>1, NumberBound, Places
<1>2. u = u + p * 0 /\ p = p * 1
  BY SMT
<1>3. i \in S
  BY <1>1, <1>2
<1>4. ASSUME NEW n \in S, i <= n PROVE n + 1 \in S
  <2>1. SUFFICES ASSUME n + 1 <= k
                 PROVE  /\ \E rest \in Nat : Number(s, n + 1) = Number(s, i) + Place(i) * rest
                        /\ \E times \in Nat : Place(n + 1) = Place(i) * times
    OBVIOUS
  <2>2. PICK rest \in Nat, times \in Nat :
          Number(s, n) = u + p * rest /\ Place(n) = p * times
    BY <1>1, <1>4, <2>1
  <2>3. n \in Nat /\ n + 1 \in 1 .. k
    BY <1>4, <2>1
  <2>4. PICK d \in Nat : d = s[n + 1] % 128
    BY <2>3 DEF Bytes
  <2>5. Number(s, n + 1) = (u + p * rest) + d * (p * times)
    <3>1. Number(s, n + 1) = Number(s, n) + (s[n + 1] % 128) * Place(n)
      BY <2>3, NumberSteps
    <3> QED
      BY <2>2, <2>4, <3>1, Zenon
  <2>6. (u + p * rest) + d * (p * times) = u + p * (rest + d * times)
    BY SMT
  <2>7. rest + d * times \in Nat /\ 128 * times \in Nat
    BY SMT
  <2>8. 128 * (p * times) = p * (128 * times)
    BY SMT
  <2>9. Place(n + 1) = 128 * (p * times)
    BY <2>2, <2>3, Places, Zenon
  <2> QED
    BY <1>1, <2>5, <2>6, <2>7, <2>8, <2>9, Zenon
<1> DEFINE T == {n \in Nat : i + n \in S}
<1>5. 0 \in T
  BY <1>3
<1>6. ASSUME NEW n \in T PROVE n + 1 \in T
  <2>1. i + n \in S /\ n \in Nat /\ i <= i + n /\ (i + n) + 1 = i + (n + 1)
    OBVIOUS
  <2> HIDE DEF S
  <2>2. (i + n) + 1 \in S
    BY <1>4, <2>1
  <2> QED
    BY <2>1, <2>2
<1>7. T \subseteq Nat /\ k - i \in Nat /\ i + (k - i) = k /\ i <= k /\ k <= k
  OBVIOUS
<1> HIDE DEF T
<1>8. k - i \in T
  BY <1>5, <1>6, <1>7, EveryNumber, Zenon
<1>9. k \in S
  <2> HIDE DEF S
  <2>1. i + (k - i) \in S
    BY <1>8 DEF T
  <2> QED
    BY <1>7, <2>1
<1> QED
  BY <1>7, <1>9

\* The digits of what k bytes are worth are the bytes again.
LEMMA DigitsOfNumber ==
  ASSUME NEW s, NEW k \in Nat, Bytes(s, k), NEW i \in 1 .. k
  PROVE  (Number(s, k) \div Place(i - 1)) % 128 = s[i] % 128
<1>1. i - 1 \in Nat /\ i - 1 \in 0 .. k /\ i \in 0 .. k /\ (i - 1) + 1 = i /\ i \in Nat
  OBVIOUS
<1>2. PICK p \in Nat \ {0} : p = Place(i - 1) /\ Place(i) = 128 * p
  BY <1>1, Places
<1>3. PICK u \in Nat : u = Number(s, i - 1) /\ u < p
  <2>1. Bytes(s, i - 1)
    BY DEF Bytes
  <2> QED
    BY <1>1, <1>2, <2>1, NumberBound
<1>4. PICK d \in 0 .. 127 : d = s[i] % 128
  <2>1. s[i] \in Nat
    BY DEF Bytes
  <2> QED
    BY <2>1
<1>5. Number(s, i) = u + d * p
  <2>1. Number(s, (i - 1) + 1) = Number(s, i - 1) + (s[(i - 1) + 1] % 128) * Place(i - 1)
    BY <1>1, NumberSteps
  <2> QED
    BY <1>1, <1>2, <1>3, <1>4, <2>1, Zenon
<1>6. PICK rest \in Nat : Number(s, k) = (u + d * p) + (128 * p) * rest
  BY <1>1, <1>2, <1>5, NumberOfRest
<1>7. (u + d * p) + (128 * p) * rest = p * (d + 128 * rest) + u
  BY SMT
<1>8. PICK q \in Nat : q = d + 128 * rest
  OBVIOUS
<1>9. (p * q + u) \div p = q
  BY <1>3, Division
<1>10. q % 128 = d
  BY <1>8
<1> QED
  BY <1>2, <1>4, <1>6, <1>7, <1>8, <1>9, <1>10

\* A number that fits the addressable size is not cut.
LEMMA RemainderOfLess ==
  ASSUME NEW m \in Nat \ {0}, NEW x \in Nat, x < m
  PROVE  x % m = x
  BY SMTT(30)

\* Sequences that begin alike are worth the same.
LEMMA NumberSame ==
  ASSUME NEW s, NEW t, NEW k \in Nat, \A i \in 1 .. k : s[i] = t[i]
  PROVE  Number(s, k) = Number(t, k)
<1> DEFINE S == {n \in Nat : n <= k => Number(s, n) = Number(t, n)}
<1>1. 0 \in S
  BY NumberSteps
<1>2. ASSUME NEW n \in S PROVE n + 1 \in S
  <2>1. SUFFICES ASSUME n + 1 <= k PROVE Number(s, n + 1) = Number(t, n + 1)
    OBVIOUS
  <2>2. n \in Nat /\ n + 1 \in 1 .. k /\ Number(s, n) = Number(t, n)
    BY <2>1
  <2>3. /\ Number(s, n + 1) = Number(s, n) + (s[n + 1] % 128) * Place(n)
        /\ Number(t, n + 1) = Number(t, n) + (t[n + 1] % 128) * Place(n)
    BY <2>2, NumberSteps
  <2>4. s[n + 1] = t[n + 1]
    BY <2>2
  <2> QED
    BY <2>2, <2>3, <2>4, Zenon
<1>3. S \subseteq Nat
  OBVIOUS
<1> HIDE DEF S
<1>4. k \in S
  BY <1>1, <1>2, <1>3, EveryNumber, Zenon
<1> QED
  BY <1>4 DEF S

(***************************************************************************)
(* The lengths an encoder may write are those the parser reads.            *)
(***************************************************************************)
\* The first k bytes of s and no fewer are a varint, and its value is n.
ReadsLength(s, k, n) ==
  /\ k \in 1 .. VarintMaxBytes
  /\ \A i \in 1 .. k : i # k => s[i] >= 128
  /\ s[k] < 128
  /\ Number(s, k) % AddressableSize = n

\* The bytes of s are those of n and c times the addressable size.
IsForm(s, n, c) ==
  /\ Len(s) \in 1 .. VarintMaxBytes
  /\ c \in 0 .. (Place(Len(s)) - 1 - n) \div AddressableSize
  /\ s = VarintForm(n + c * AddressableSize, Len(s))

\* What is written is read without the multiple of the addressable size.
LEMMA WrittenIsRead ==
  ASSUME NEW s \in Seq(0 .. 255), NEW n \in Nat, n < AddressableSize, NEW c, IsForm(s, n, c)
  PROVE  /\ ReadsLength(s, Len(s), n)
         /\ c \in Nat /\ Number(s, Len(s)) = n + c * AddressableSize
<1>1. PICK k \in Nat, unit \in Nat \ {0} :
        /\ k = Len(s) /\ k \in 1 .. VarintMaxBytes
        /\ unit = AddressableSize
  BY ReplyDataAssumption DEF IsForm
<1>2. PICK place \in Nat \ {0} : place = Place(k)
  BY <1>1, Places
<1>3. c \in 0 .. (place - 1 - n) \div unit /\ s = VarintForm(n + c * unit, k)
  BY <1>1, <1>2 DEF IsForm
<1>4. c \in Nat /\ c <= (place - 1 - n) \div unit
  <2>1. PICK most \in Int : most = (place - 1 - n) \div unit
    BY SMT
  <2> QED
    BY <1>3, <2>1
<1>5. PICK m \in Nat : m = n + c * unit /\ m < place
  <2>1. place - 1 - n \in Int /\ (place - 1 - n) \div unit \in Int
    BY SMT
  <2>2. c \in Nat /\ c <= (place - 1 - n) \div unit
    BY <1>4
  <2>3. place - 1 - n \in Nat
    BY <2>1, <2>2, SMT
  <2>4. PICK q \in Nat : q = (place - 1 - n) \div unit /\ unit * q <= place - 1 - n
    BY <2>3, QuotientType
  <2>5. c * unit <= q * unit
    BY <2>2, <2>4, ProductGrows
  <2>6. q * unit = unit * q /\ c * unit \in Nat /\ unit * q \in Nat
    BY <2>2, SMT
  <2>7. PICK t \in Nat : t = c * unit /\ t <= place - 1 - n
    BY <2>4, <2>5, <2>6
  <2>8. n + t \in Nat /\ n + t < place
    BY <2>7
  <2> QED
    BY <2>7, <2>8
<1>6. ASSUME NEW i \in 1 .. k
      PROVE  /\ s[i] % 128 = (m \div Place(i - 1)) % 128
             /\ i # k => s[i] >= 128
             /\ i = k => s[i] < 128
  <2>1. s[i] = ((m \div Place(i - 1)) % 128) + (IF i < k THEN 128 ELSE 0)
    BY <1>3, <1>5 DEF VarintForm
  <2>2. PICK p \in Nat \ {0} : p = Place(i - 1)
    <3>1. i - 1 \in Nat
      OBVIOUS
    <3> QED
      BY <3>1, Places
  <2>3. PICK d \in 0 .. 127 : d = (m \div p) % 128
    <3>1. m \div p \in Nat
      BY QuotientType
    <3> QED
      BY <3>1
  <2>4. s[i] = d + (IF i < k THEN 128 ELSE 0)
    BY <2>1, <2>2, <2>3, Zenon
  <2>5. d % 128 = d /\ (d + 128) % 128 = d /\ d + 0 = d /\ (i < k <=> i # k)
    OBVIOUS
  <2>6. s[i] % 128 = d
    BY <2>4, <2>5, Zenon
  <2>7. (i # k => s[i] >= 128) /\ (i = k => s[i] < 128)
    BY <2>4, <2>5
  <2> QED
    BY <2>2, <2>3, <2>6, <2>7, Zenon
<1>7. Number(s, k) = m
  <2>1. Number(s, k) = m % Place(k)
    BY <1>6, NumberOfDigits
  <2>2. m % place = m
    BY <1>5, RemainderOfLess
  <2> QED
    BY <1>2, <2>1, <2>2
<1>8. m % unit = n
  <2>1. (unit * c + n) % unit = n
    BY <1>1, <1>4, Division
  <2>2. m = unit * c + n
    BY <1>4, <1>5, SMT
  <2> QED
    BY <2>1, <2>2
<1>9. ReadsLength(s, Len(s), n)
  BY <1>1, <1>6, <1>7, <1>8 DEF ReadsLength
<1> QED
  BY <1>1, <1>4, <1>5, <1>7, <1>9

\* What is read as a length is written so.
LEMMA ReadIsWritten ==
  ASSUME NEW s \in Seq(0 .. 255), NEW n \in Nat, ReadsLength(s, Len(s), n)
  PROVE  \E c : IsForm(s, n, c)
<1>1. PICK k \in Nat, unit \in Nat \ {0} :
        /\ k = Len(s) /\ k \in 1 .. VarintMaxBytes
        /\ unit = AddressableSize
  BY ReplyDataAssumption DEF ReadsLength
<1>2. /\ \A i \in 1 .. k : s[i] \in 0 .. 255
      /\ s = [i \in 1 .. k |-> s[i]]
      /\ Bytes(s, k)
  <2>1. s \in [1 .. k -> 0 .. 255]
    BY <1>1, LenProperties, Zenon
  <2>2. \A i \in 1 .. k : s[i] \in 0 .. 255
    BY <2>1
  <2>3. s = [i \in 1 .. k |-> s[i]]
    BY <2>1, Zenon
  <2>4. \A i \in 1 .. k : s[i] \in Nat
    <3>1. 0 .. 255 \subseteq Nat
      OBVIOUS
    <3> QED
      BY <2>2, <3>1, Zenon
  <2> QED
    BY <2>2, <2>3, <2>4, Zenon DEF Bytes
<1>3. PICK place \in Nat \ {0}, m \in Nat :
        place = Place(k) /\ m = Number(s, k) /\ m < place
  BY <1>1, <1>2, NumberBound, Places
<1>4. PICK c \in Nat : c = m \div unit /\ m = unit * c + n
  <2>1. m % unit = n
    BY <1>1, <1>3 DEF ReadsLength
  <2> QED
    BY <2>1, Divided
<1>5. c \in 0 .. (place - 1 - n) \div unit /\ m = n + c * unit
  <2>1. unit * c \in Nat /\ unit * c = c * unit
    BY SMT
  <2>2. place - 1 - n \in Nat /\ unit * c <= place - 1 - n
    <3>1. PICK t \in Nat : t = unit * c
      BY <2>1
    <3>2. m = t + n /\ m < place
      BY <1>3, <1>4, <3>1
    <3> QED
      BY <3>1, <3>2
  <2>3. c <= (place - 1 - n) \div unit /\ (place - 1 - n) \div unit \in Nat
    BY <2>2, QuotientBound, QuotientType
  <2> QED
    BY <1>4, <2>1, <2>3
<1>6. ASSUME NEW i \in 1 .. k
      PROVE  s[i] = ((m \div Place(i - 1)) % 128) + (IF i < k THEN 128 ELSE 0)
  <2>1. (m \div Place(i - 1)) % 128 = s[i] % 128
    BY <1>2, <1>3, DigitsOfNumber
  <2>2. s[i] \in 0 .. 255 /\ (i # k => s[i] >= 128) /\ (i = k => s[i] < 128)
    BY <1>1, <1>2 DEF ReadsLength
  <2>3. s[i] = (s[i] % 128) + (IF i < k THEN 128 ELSE 0)
    <3>1. PICK b \in 0 .. 255 : b = s[i]
      BY <2>2
    <3>2. (b >= 128 => b = (b % 128) + 128) /\ (b < 128 => b = b % 128)
      OBVIOUS
    <3>3. i < k <=> i # k
      OBVIOUS
    <3> QED
      BY <2>2, <3>1, <3>2, <3>3
  <2> QED
    BY <2>1, <2>3
<1>7. s = VarintForm(m, k)
  BY <1>2, <1>6, Zenon DEF VarintForm
<1> QED
  BY <1>1, <1>3, <1>5, <1>7 DEF IsForm

\* An encoder writes no multiple of the addressable size, a cut length has one.
LEMMA LengthForms ==
  ASSUME NEW s, NEW n \in Nat
  PROVE  /\ IsLength(s, n) <=> IsForm(s, n, 0)
         /\ IsCutLength(s, n) <=> \E c : c # 0 /\ IsForm(s, n, c)
<1>1. PICK unit \in Nat \ {0} : unit = AddressableSize
  BY ReplyDataAssumption
<1>2. CASE Len(s) \in 1 .. VarintMaxBytes
  <2>1. PICK k \in Nat, place \in Nat \ {0} : k = Len(s) /\ place = Place(k)
    <3>1. Len(s) \in Nat
      BY <1>2, ReplyDataAssumption
    <3> QED
      BY <3>1, Places
  <2>2. PICK most \in Int : most = (place - 1 - n) \div unit
    BY SMT
  <2>3. n < place <=> 0 <= most
    <3>1. ASSUME n < place PROVE 0 <= most
      <4>1. place - 1 - n \in Nat
        BY <3>1
      <4> QED
        BY <2>2, <4>1, QuotientType
    <3>2. ASSUME ~ n < place PROVE most < 0
      <4>1. PICK x \in Int : x = place - 1 - n /\ x < 0
        BY <3>2
      <4>2. x \div unit < 0
        BY <4>1, SMT
      <4> QED
        BY <2>2, <4>1, <4>2
    <3> QED
      BY <3>1, <3>2
  <2>4. n + 0 * unit = n
    OBVIOUS
  <2>5. \A c : c \in 1 .. most <=> c # 0 /\ c \in 0 .. most
    OBVIOUS
  <2>6. IsLength(s, n) <=> IsForm(s, n, 0)
    <3>1. 0 \in 0 .. most <=> n < place
      BY <2>3
    <3> QED
      BY <1>1, <1>2, <2>1, <2>2, <2>4, <3>1 DEF IsLength, IsForm
  <2>7. IsCutLength(s, n) <=> \E c : c # 0 /\ IsForm(s, n, c)
    BY <1>1, <1>2, <2>1, <2>2, <2>5, Zenon DEF IsCutLength, IsForm
  <2> QED
    BY <2>6, <2>7
<1> QED
  BY <1>2, Zenon DEF IsLength, IsCutLength, IsForm

\* What the encoder writes is read as the length it wrote, and is not cut.
LEMMA LengthIsRead ==
  ASSUME NEW s \in Seq(0 .. 255), NEW n \in Nat, n < AddressableSize, IsLength(s, n)
  PROVE  ReadsLength(s, Len(s), n) /\ ~ IsCutLength(s, n)
<1>1. IsForm(s, n, 0)
  BY LengthForms
<1>2. ReadsLength(s, Len(s), n) /\ Number(s, Len(s)) = n + 0 * AddressableSize
  BY <1>1, WrittenIsRead
<1>3. ASSUME IsCutLength(s, n) PROVE FALSE
  <2>1. PICK c : c # 0 /\ IsForm(s, n, c)
    BY <1>3, LengthForms
  <2>2. c \in Nat /\ Number(s, Len(s)) = n + c * AddressableSize
    BY <2>1, WrittenIsRead
  <2>3. PICK unit \in Nat \ {0} : unit = AddressableSize
    BY ReplyDataAssumption
  <2>4. n + c * unit = n + 0 * unit
    BY <1>2, <2>2, <2>3
  <2>5. 1 * unit <= c * unit /\ c * unit \in Nat
    <3>1. 1 \in Nat /\ 1 <= c
      BY <2>1, <2>2
    <3> QED
      BY <2>2, <3>1, ProductGrows, ProductType
  <2> QED
    BY <2>4, <2>5
<1> QED
  BY <1>2, <1>3

\* A length that is read and was not cut is one an encoder may have written.
LEMMA ReadIsLength ==
  ASSUME NEW s \in Seq(0 .. 255), NEW n \in Nat, ReadsLength(s, Len(s), n),
         ~ IsCutLength(s, n)
  PROVE  IsLength(s, n)
<1>1. PICK c : IsForm(s, n, c)
  BY ReadIsWritten
<1>2. c = 0
  BY <1>1, LengthForms
<1> QED
  BY <1>1, <1>2, LengthForms

Data == Seq(0 .. 255)

\* A part of a sequence of bytes.
LEMMA Part ==
  ASSUME NEW s \in Data, NEW a \in Nat \ {0}, NEW b \in 0 .. Len(s), a <= b + 1
  PROVE  /\ SubSeq(s, a, b) \in Data
         /\ Len(SubSeq(s, a, b)) = b - a + 1
         /\ \A i \in 1 .. b - a + 1 : SubSeq(s, a, b)[i] = s[a + i - 1]
<1>1. s \in Seq(0 .. 255) /\ Len(s) \in Nat
  BY DEF Data
<1>2. a \in Int /\ b \in Int
  BY <1>1
<1>3. \A i \in a .. b : s[i] \in 0 .. 255
  <2>1. \A i \in a .. b : i \in 1 .. Len(s)
    BY <1>1
  <2> QED
    BY <1>1, <2>1, ElementOfSeq, Zenon
<1>4. /\ SubSeq(s, a, b) \in Seq(0 .. 255)
      /\ Len(SubSeq(s, a, b)) = IF a <= b THEN b - a + 1 ELSE 0
      /\ \A i \in 1 .. b - a + 1 : SubSeq(s, a, b)[i] = s[a + i - 1]
  BY <1>2, <1>3, SubSeqProperties
<1>5. (IF a <= b THEN b - a + 1 ELSE 0) = b - a + 1
  BY <1>2
<1> QED
  BY <1>4, <1>5, Zenon DEF Data

\* A part of a part.
LEMMA PartOfPart ==
  ASSUME NEW s \in Data, NEW a \in Nat \ {0}, NEW b \in 0 .. Len(s), a <= b + 1,
         NEW m \in Nat \ {0}, NEW n \in 0 .. b - a + 1, m <= n + 1
  PROVE  SubSeq(SubSeq(s, a, b), m, n) = SubSeq(s, a + m - 1, a + n - 1)
<1> DEFINE p == SubSeq(s, a, b)
           l == a + m - 1
           h == a + n - 1
<1>1. Len(s) \in Nat
  BY DEF Data
<1>2. /\ p \in Data /\ Len(p) = b - a + 1
      /\ \A i \in 1 .. b - a + 1 : p[i] = s[a + i - 1]
  BY Part
<1>3. l \in Nat \ {0} /\ h \in 0 .. Len(s) /\ l <= h + 1 /\ h - l = n - m
  BY <1>1
<1> HIDE DEF p
<1>4. n \in 0 .. Len(p)
  BY <1>2
<1>5. /\ SubSeq(p, m, n) \in Data /\ Len(SubSeq(p, m, n)) = n - m + 1
      /\ \A i \in 1 .. n - m + 1 : SubSeq(p, m, n)[i] = p[m + i - 1]
  BY <1>2, <1>4, Part
<1> HIDE DEF l, h
<1>6. /\ SubSeq(s, l, h) \in Data /\ Len(SubSeq(s, l, h)) = h - l + 1
      /\ \A i \in 1 .. h - l + 1 : SubSeq(s, l, h)[i] = s[l + i - 1]
  BY <1>3, Part
<1>7. ASSUME NEW i \in 1 .. n - m + 1
      PROVE  SubSeq(p, m, n)[i] = SubSeq(s, l, h)[i]
  <2>1. /\ m + i - 1 \in 1 .. b - a + 1
        /\ a + (m + i - 1) - 1 = l + i - 1
        /\ i \in 1 .. h - l + 1
    BY <1>3 DEF l
  <2>2. p[m + i - 1] = s[a + (m + i - 1) - 1]
    BY <1>2, <2>1
  <2> QED
    BY <1>5, <1>6, <2>1, <2>2
<1>8. SubSeq(p, m, n) = SubSeq(s, l, h)
  <2>1. Len(SubSeq(p, m, n)) = Len(SubSeq(s, l, h))
    BY <1>3, <1>5, <1>6
  <2> QED
    BY <1>5, <1>6, <1>7, <2>1, SeqEqual, Zenon DEF Data
<1> QED
  BY <1>8 DEF p, l, h

\* The bytes after the first.
LEMMA RestOfData ==
  ASSUME NEW s \in Data, s # <<>>
  PROVE  /\ Tail(s) \in Data /\ Len(Tail(s)) = Len(s) - 1 /\ Len(s) \in Nat \ {0}
         /\ \A i \in 1 .. Len(s) - 1 : Tail(s)[i] = s[i + 1]
<1>1. s \in Seq(0 .. 255)
  BY DEF Data
<1>2. /\ Tail(s) \in Seq(0 .. 255) /\ Len(Tail(s)) = Len(s) - 1
      /\ \A i \in 1 .. Len(Tail(s)) : Tail(s)[i] = s[i + 1]
  BY <1>1, HeadTailProperties, Zenon
<1>3. Len(s) \in Nat \ {0}
  BY <1>1, EmptySeq, Zenon
<1> QED
  BY <1>2, <1>3, Zenon DEF Data

(***************************************************************************)
(* parse_protobuf_varint.                                                  *)
(***************************************************************************)
\* The varint that is read is the first there is, and has its value.
LEMMA VarintReads ==
  ASSUME NEW s \in Data, VarintFits(s)
  PROVE  /\ VarintSize(s) \in 1 .. Len(s)
         /\ Varint(s) \in Nat
         /\ ReadsLength(s, VarintSize(s), Varint(s))
<1>1. /\ s \in Seq(0 .. 255) /\ Len(s) \in Nat /\ DOMAIN s = 1 .. Len(s)
      /\ \A i \in 1 .. Len(s) : s[i] \in 0 .. 255
  <2>1. s \in Seq(0 .. 255)
    BY DEF Data
  <2> QED
    BY <2>1, LenProperties, ElementOfSeq, Zenon
<1>2. VarintMaxBytes \in Nat \ {0} /\ AddressableSize \in Nat \ {0}
  BY ReplyDataAssumption
<1>3. \A i \in LastBytes(s) : i \in 1 .. Len(s) /\ i <= VarintMaxBytes /\ s[i] < 128
  BY <1>1 DEF LastBytes
<1>4. PICK k \in LastBytes(s) : \A j \in LastBytes(s) : k <= j
  <2>1. LastBytes(s) \subseteq Nat /\ LastBytes(s) # {}
    BY <1>1, <1>3 DEF VarintFits
  <2> QED
    BY <2>1, LeastNumber
<1>5. VarintSize(s) \in LastBytes(s) /\ \A j \in LastBytes(s) : VarintSize(s) <= j
  BY <1>4, Zenon DEF VarintSize
<1>6. PICK size \in 1 .. Len(s) : size = VarintSize(s)
  BY <1>3, <1>5
<1>7. ASSUME NEW i \in 1 .. size, i # size
      PROVE  s[i] >= 128
  <2>1. i \in DOMAIN s /\ i <= VarintMaxBytes /\ i < size
    BY <1>1, <1>2, <1>3, <1>5, <1>6, <1>7
  <2>2. ~ (s[i] < 128)
    <3>1. SUFFICES ASSUME s[i] < 128 PROVE FALSE
      OBVIOUS
    <3>2. i \in LastBytes(s)
      BY <2>1, <3>1 DEF LastBytes
    <3>3. size <= i
      BY <1>5, <1>6, <3>2
    <3> QED
      BY <2>1, <3>3
  <2>3. PICK b \in 0 .. 255 : b = s[i]
    BY <1>1, <2>1
  <2> QED
    BY <2>2, <2>3
<1>8. Varint(s) = Number(s, size) % AddressableSize
  <2>1. Varint(s) = Number(s, VarintSize(s)) % AddressableSize
    BY DEF Varint, Number
  <2> QED
    BY <1>6, <2>1
<1>9. Varint(s) \in Nat
  <2>1. Bytes(s, size)
    <3>1. \A i \in 1 .. size : i \in 1 .. Len(s)
      OBVIOUS
    <3>2. 0 .. 255 \subseteq Nat
      OBVIOUS
    <3> QED
      BY <1>1, <3>1, <3>2, Zenon DEF Bytes
  <2>2. PICK n \in Nat : n = Number(s, size)
    BY <2>1, NumberBound
  <2>3. n % AddressableSize \in Nat
    BY <1>2, Divided
  <2> QED
    BY <1>8, <2>2, <2>3
<1>10. size \in 1 .. VarintMaxBytes /\ s[size] < 128
  BY <1>2, <1>3, <1>5, <1>6
<1> QED
  BY <1>6, <1>7, <1>8, <1>9, <1>10, Zenon DEF ReadsLength

\* There is one varint to read at most.
LEMMA ReadsVarint ==
  ASSUME NEW s \in Data, NEW k \in 1 .. Len(s), NEW n, ReadsLength(s, k, n)
  PROVE  VarintFits(s) /\ VarintSize(s) = k /\ Varint(s) = n
<1>1. Len(s) \in Nat /\ DOMAIN s = 1 .. Len(s)
  BY DEF Data
<1>2. k \in LastBytes(s)
  BY <1>1 DEF LastBytes, ReadsLength
<1>3. VarintFits(s)
  BY <1>2 DEF VarintFits
<1>4. VarintSize(s) \in 1 .. Len(s) /\ ReadsLength(s, VarintSize(s), Varint(s))
  BY <1>3, VarintReads
<1>5. PICK j \in 1 .. Len(s) : j = VarintSize(s)
  BY <1>4
<1>6. \A i \in 1 .. Len(s) : s[i] \in 0 .. 255
  BY ElementOfSeq, Zenon DEF Data
<1>7. ~ (j < k)
  <2>1. SUFFICES ASSUME j < k PROVE FALSE
    OBVIOUS
  <2>2. s[j] >= 128
    <3>1. j \in 1 .. k /\ j # k
      BY <2>1
    <3> QED
      BY <3>1 DEF ReadsLength
  <2>3. s[j] < 128
    BY <1>4, <1>5 DEF ReadsLength
  <2>4. PICK b \in 0 .. 255 : b = s[j]
    BY <1>6
  <2> QED
    BY <2>2, <2>3, <2>4
<1>8. ~ (k < j)
  <2>1. SUFFICES ASSUME k < j PROVE FALSE
    OBVIOUS
  <2>2. s[k] >= 128
    <3>1. k \in 1 .. j /\ k # j
      BY <2>1
    <3> QED
      BY <1>4, <1>5, <3>1 DEF ReadsLength
  <2>3. s[k] < 128
    BY DEF ReadsLength
  <2>4. PICK b \in 0 .. 255 : b = s[k]
    BY <1>6
  <2> QED
    BY <2>2, <2>3, <2>4
<1>9. j = k
  BY <1>7, <1>8
<1> QED
  BY <1>3, <1>4, <1>5, <1>9 DEF ReadsLength

\* What is read of a sequence depends on its first bytes only.
LEMMA ReadsAlike ==
  ASSUME NEW s, NEW t, NEW k \in Nat, NEW n, \A i \in 1 .. k : s[i] = t[i],
         ReadsLength(s, k, n)
  PROVE  ReadsLength(t, k, n)
<1>1. Number(s, k) = Number(t, k)
  BY NumberSame
<1>2. k \in 1 .. k
  BY DEF ReadsLength
<1> QED
  BY <1>1, <1>2, Zenon DEF ReadsLength

(***************************************************************************)
(* parse_protobuf_length_prefixed.                                         *)
(***************************************************************************)
\* The two bits of the wire type that are looked at.
LEMMA TagRead ==
  ASSUME NEW b \in 0 .. 255, NEW f \in Nat
  PROVE  b \in {8 * f + 2, 8 * f + 6} <=> b \div 8 = f /\ b % 4 = 2
  BY SMT

\* Where a field that is there begins and ends.
LEMMA FieldSpans ==
  ASSUME NEW s \in Data, s # <<>>, NEW f \in Nat, FieldFits(s, f)
  PROVE  \E k \in Nat \ {0}, n \in Nat :
           /\ Header(s) = 1 + k /\ Varint(Tail(s)) = n
           /\ 1 + k + n <= Len(s)
           /\ ReadsLength(Tail(s), k, n)
           /\ s[1] \in {8 * f + 2, 8 * f + 6}
<1>1. /\ s[1] \div 8 = f /\ s[1] % 4 = 2
      /\ VarintFits(Tail(s))
      /\ Header(s) + Varint(Tail(s)) <= Len(s)
  BY DEF FieldFits, WireTypeLengthDelimited
<1>2. Tail(s) \in Data /\ Len(Tail(s)) \in Nat /\ Len(s) \in Nat \ {0}
  BY RestOfData DEF Data
<1>3. PICK k \in Nat \ {0}, n \in Nat :
        /\ k = VarintSize(Tail(s)) /\ n = Varint(Tail(s))
        /\ ReadsLength(Tail(s), k, n)
  BY <1>1, <1>2, VarintReads
<1>4. Header(s) = 1 + k
  BY <1>3 DEF Header
<1>5. s[1] \in {8 * f + 2, 8 * f + 6}
  <2>1. 1 \in 1 .. Len(s)
    BY <1>2
  <2>2. s[1] \in 0 .. 255
    BY <2>1, ElementOfSeq, Zenon DEF Data
  <2> QED
    BY <1>1, <2>2, TagRead
<1> QED
  BY <1>1, <1>3, <1>4, <1>5

\* A field whose tag and length can be read, and whose payload is there, is
\* accepted.
LEMMA SpansField ==
  ASSUME NEW s \in Data, s # <<>>, NEW f \in Nat, NEW k \in Nat \ {0}, NEW n \in Nat,
         1 + k + n <= Len(s), ReadsLength(Tail(s), k, n),
         s[1] \in {8 * f + 2, 8 * f + 6}
  PROVE  FieldFits(s, f) /\ Header(s) = 1 + k /\ Varint(Tail(s)) = n
<1>1. Tail(s) \in Data /\ Len(Tail(s)) = Len(s) - 1 /\ Len(s) \in Nat \ {0}
  BY RestOfData
<1>2. k \in 1 .. Len(Tail(s))
  BY <1>1
<1>3. VarintFits(Tail(s)) /\ VarintSize(Tail(s)) = k /\ Varint(Tail(s)) = n
  BY <1>1, <1>2, ReadsVarint
<1>4. s[1] \div 8 = f /\ s[1] % 4 = 2
  <2>1. 1 \in 1 .. Len(s)
    BY <1>1
  <2>2. s[1] \in 0 .. 255
    BY <2>1, ElementOfSeq, Zenon DEF Data
  <2> QED
    BY <2>2, TagRead
<1>5. Header(s) = 1 + k
  BY <1>3 DEF Header
<1> QED
  BY <1>3, <1>4, <1>5 DEF FieldFits, WireTypeLengthDelimited

\* The length of a field in the first e bytes of s, and the bytes of Tail(s).
LEMMA LengthPart ==
  ASSUME NEW s \in Data, s # <<>>, NEW e \in 1 .. Len(s), NEW k \in Nat \ {0}, k < e
  PROVE  LET t == SubSeq(SubSeq(s, 1, e), 2, k + 1)
         IN  /\ t \in Data /\ Len(t) = k /\ t = SubSeq(s, 2, 1 + k)
             /\ \A i \in 1 .. k : t[i] = Tail(s)[i]
<1> DEFINE t == SubSeq(SubSeq(s, 1, e), 2, k + 1)
<1>1. /\ Len(s) \in Nat \ {0}
      /\ \A i \in 1 .. Len(s) - 1 : Tail(s)[i] = s[i + 1]
  BY RestOfData
<1>2. t = SubSeq(s, 2, k + 1)
  <2>1. /\ 1 \in Nat \ {0} /\ e \in 0 .. Len(s) /\ 1 <= e + 1
        /\ 2 \in Nat \ {0} /\ k + 1 \in 0 .. e - 1 + 1 /\ 2 <= (k + 1) + 1
        /\ 1 + 2 - 1 = 2 /\ 1 + (k + 1) - 1 = k + 1
    BY <1>1
  <2>2. t = SubSeq(s, 1 + 2 - 1, 1 + (k + 1) - 1)
    BY <2>1, PartOfPart, Zenon
  <2> QED
    BY <2>1, <2>2, Zenon
<1> HIDE DEF t
<1>3. /\ SubSeq(s, 2, k + 1) \in Data
      /\ Len(SubSeq(s, 2, k + 1)) = (k + 1) - 2 + 1
      /\ \A i \in 1 .. (k + 1) - 2 + 1 : SubSeq(s, 2, k + 1)[i] = s[2 + i - 1]
  <2>1. 2 \in Nat \ {0} /\ k + 1 \in 0 .. Len(s) /\ 2 <= (k + 1) + 1
    BY <1>1
  <2> QED
    BY <2>1, Part
<1>4. ASSUME NEW i \in 1 .. k PROVE t[i] = Tail(s)[i]
  <2>1. i \in 1 .. (k + 1) - 2 + 1 /\ i \in 1 .. Len(s) - 1 /\ 2 + i - 1 = i + 1
    BY <1>1
  <2> QED
    BY <1>1, <1>2, <1>3, <2>1
<1>5. t \in Data /\ Len(t) = k /\ t = SubSeq(s, 2, 1 + k)
  <2>1. (k + 1) - 2 + 1 = k /\ k + 1 = 1 + k
    OBVIOUS
  <2> QED
    BY <1>2, <1>3, <2>1
<1> QED
  BY <1>4, <1>5 DEF t

\* The two tolerated forms of a field that is there.
LEMMA ToleratedField ==
  ASSUME NEW s, s # <<>>, NEW k, Header(s) = 1 + k
  PROVE  Tolerated(s) <=> \/ s[1] % 8 # 2
                          \/ IsCutLength(SubSeq(s, 2, 1 + k), Varint(Tail(s)))
  BY Zenon DEF Tolerated, WireTypeLengthDelimited

\* A payload that was written is the field that is read.
LEMMA PayloadIsField ==
  ASSUME NEW s \in Data, s # <<>>, Len(s) < AddressableSize, NEW f \in Nat,
         NEW e \in 1 .. Len(s), NEW payload \in Payloads(SubSeq(s, 1, e), f)
  PROVE  /\ FieldFits(s, f) /\ e = Header(s) + Varint(Tail(s))
         /\ payload = Field(s) /\ ~ Tolerated(s)
<1> DEFINE p == SubSeq(s, 1, e)
<1>1. Len(s) \in Nat \ {0} /\ e \in Nat /\ e \in 0 .. Len(s)
  BY RestOfData
<1>2. p \in Data /\ Len(p) = e /\ p[1] = s[1]
  <2>1. 1 \in Nat \ {0} /\ 1 <= e + 1 /\ e - 1 + 1 = e /\ 1 \in 1 .. e /\ 1 + 1 - 1 = 1
    BY <1>1
  <2>2. /\ p \in Data /\ Len(p) = e - 1 + 1
        /\ \A i \in 1 .. e - 1 + 1 : p[i] = s[1 + i - 1]
    BY <1>1, <2>1, Part
  <2> HIDE DEF p
  <2> QED
    BY <2>1, <2>2
<1>3. PICK j \in 3 .. e + 1 :
        /\ p[1] = 8 * f + 2
        /\ IsLength(SubSeq(p, 2, j - 1), e - j + 1)
        /\ payload = SubSeq(p, j, e)
  BY <1>2 DEF Payloads
<1>4. PICK k \in Nat \ {0}, n \in Nat :
        /\ k = j - 2 /\ n = e - j + 1 /\ j - 1 = k + 1
        /\ 1 + k + n = e /\ j = k + 2 /\ k < e /\ n < AddressableSize
  <2>1. AddressableSize \in Nat
    BY ReplyDataAssumption
  <2>2. /\ j - 2 \in Nat \ {0} /\ e - j + 1 \in Nat /\ j - 1 = (j - 2) + 1
        /\ 1 + (j - 2) + (e - j + 1) = e /\ j = (j - 2) + 2 /\ j - 2 < e
        /\ e - j + 1 < AddressableSize
    BY <1>1, <2>1
  <2> QED
    BY <2>2
<1> DEFINE t == SubSeq(p, 2, k + 1)
<1>5. /\ t \in Data /\ Len(t) = k /\ t = SubSeq(s, 2, 1 + k)
      /\ \A i \in 1 .. k : t[i] = Tail(s)[i]
  BY <1>4, LengthPart
<1>6. IsLength(t, n)
  BY <1>3, <1>4
<1> HIDE DEF t
<1>7. ReadsLength(t, k, n) /\ ~ IsCutLength(t, n)
  BY <1>4, <1>5, <1>6, LengthIsRead DEF Data
<1>8. ReadsLength(Tail(s), k, n)
  BY <1>5, <1>7, ReadsAlike
<1>9. /\ FieldFits(s, f) /\ Header(s) = 1 + k /\ Varint(Tail(s)) = n
  <2>1. 1 + k + n <= Len(s)
    BY <1>1, <1>4
  <2> QED
    BY <1>2, <1>3, <1>8, <2>1, SpansField
<1>10. payload = SubSeq(s, k + 2, e)
  <2>1. /\ 1 \in Nat \ {0} /\ 1 <= e + 1
        /\ k + 2 \in Nat \ {0} /\ e \in 0 .. e - 1 + 1 /\ k + 2 <= e + 1
        /\ 1 + (k + 2) - 1 = k + 2 /\ 1 + e - 1 = e
    BY <1>1, <1>4
  <2>2. SubSeq(p, k + 2, e) = SubSeq(s, 1 + (k + 2) - 1, 1 + e - 1)
    BY <1>1, <2>1, PartOfPart, Zenon
  <2> QED
    BY <1>3, <1>4, <2>1, <2>2, Zenon
<1>11. Field(s) = SubSeq(s, k + 2, e)
  <2>1. (1 + k) + 1 = k + 2 /\ (1 + k) + n = e
    BY <1>4
  <2> QED
    BY <1>9, <2>1 DEF Field
<1>12. ~ Tolerated(s)
  <2>1. s[1] % 8 = 2
    BY <1>2, <1>3
  <2> QED
    BY <1>5, <1>7, <1>9, <2>1, ToleratedField
<1> QED
  BY <1>4, <1>9, <1>10, <1>11, <1>12

\* The field that is read is a payload some encoder may have written.
LEMMA FieldIsPayload ==
  ASSUME NEW s \in Data, s # <<>>, Len(s) < AddressableSize, NEW f \in Nat,
         FieldFits(s, f), ~ Tolerated(s), NEW e, e = Header(s) + Varint(Tail(s))
  PROVE  e \in 1 .. Len(s) /\ Field(s) \in Payloads(SubSeq(s, 1, e), f)
<1>1. PICK k \in Nat \ {0}, n \in Nat :
        /\ Header(s) = 1 + k /\ Varint(Tail(s)) = n
        /\ 1 + k + n <= Len(s)
        /\ ReadsLength(Tail(s), k, n)
        /\ s[1] \in {8 * f + 2, 8 * f + 6}
  BY FieldSpans, Zenon
<1>2. Len(s) \in Nat \ {0}
  BY RestOfData
<1>3. /\ e = 1 + k + n /\ e \in Nat \ {0} /\ e \in 1 .. Len(s) /\ e \in 0 .. Len(s)
      /\ k < e
  BY <1>1, <1>2
<1> DEFINE p == SubSeq(s, 1, e)
           t == SubSeq(p, 2, k + 1)
<1>4. p \in Data /\ Len(p) = e /\ p[1] = s[1]
  <2>1. 1 \in Nat \ {0} /\ 1 <= e + 1 /\ e - 1 + 1 = e /\ 1 \in 1 .. e /\ 1 + 1 - 1 = 1
    BY <1>3
  <2>2. /\ p \in Data /\ Len(p) = e - 1 + 1
        /\ \A i \in 1 .. e - 1 + 1 : p[i] = s[1 + i - 1]
    BY <1>3, <2>1, Part
  <2> HIDE DEF p
  <2> QED
    BY <2>1, <2>2
<1>5. /\ t \in Data /\ Len(t) = k /\ t = SubSeq(s, 2, 1 + k)
      /\ \A i \in 1 .. k : t[i] = Tail(s)[i]
  BY <1>3, LengthPart
<1> HIDE DEF t
<1>6. ReadsLength(t, k, n)
  BY <1>1, <1>5, ReadsAlike
<1>7. IsLength(t, n) /\ s[1] = 8 * f + 2
  <2>1. ~ IsCutLength(t, n) /\ s[1] % 8 = 2
    BY <1>1, <1>5, ToleratedField
  <2>2. IsLength(t, n)
    BY <1>5, <1>6, <2>1, ReadIsLength DEF Data
  <2>3. s[1] = 8 * f + 2
    BY <1>1, <2>1
  <2> QED
    BY <2>2, <2>3
<1>8. Field(s) = SubSeq(p, k + 2, e)
  <2>1. /\ 1 \in Nat \ {0} /\ 1 <= e + 1
        /\ k + 2 \in Nat \ {0} /\ e \in 0 .. e - 1 + 1 /\ k + 2 <= e + 1
        /\ 1 + (k + 2) - 1 = k + 2 /\ 1 + e - 1 = e
        /\ (1 + k) + 1 = k + 2 /\ (1 + k) + n = e
    BY <1>3
  <2>2. SubSeq(p, k + 2, e) = SubSeq(s, 1 + (k + 2) - 1, 1 + e - 1)
    BY <1>3, <2>1, PartOfPart, Zenon
  <2>3. Field(s) = SubSeq(s, k + 2, e)
    BY <1>1, <2>1 DEF Field
  <2> QED
    BY <2>1, <2>2, <2>3, Zenon
<1> HIDE DEF p
<1>9. /\ k + 2 \in 3 .. Len(p) + 1 /\ (k + 2) - 1 = k + 1
      /\ Len(p) - (k + 2) + 1 = n
  BY <1>3, <1>4
<1>10. IsLength(SubSeq(p, 2, (k + 2) - 1), Len(p) - (k + 2) + 1)
  BY <1>7, <1>9 DEF t
<1>11. Field(s) \in Payloads(p, f)
  BY <1>4, <1>7, <1>8, <1>9, <1>10 DEF Payloads
<1> QED
  BY <1>3, <1>11 DEF p

(***************************************************************************)
(* parse_instantiate_response_data.                                        *)
(***************************************************************************)
\* What an encoder may have put after the first e bytes of s.
Second(s, e) ==
  IF e = Len(s)
  THEN {<<>>}
  ELSE UNION {Payloads(SubSeq(s, e + 1, j), 2) : j \in e + 1 .. Len(s)}

\* It is the second field that is read, if one is.
LEMMA SecondIsField ==
  ASSUME NEW s \in Data, Len(s) < AddressableSize, NEW e \in 1 .. Len(s),
         NEW r, r = SubSeq(s, e + 1, Len(s)), NEW d
  PROVE  d \in Second(s, e) <=> FieldFits(r, 2) /\ ~ Tolerated(r) /\ d = Field(r)
<1>1. Len(s) \in Nat /\ e \in Nat /\ e + 1 \in Nat \ {0}
  BY LenProperties DEF Data
<1>2. AddressableSize \in Nat
  BY ReplyDataAssumption
<1>3. r \in Data /\ Len(r) = Len(s) - e /\ Len(r) \in Nat /\ Len(r) < AddressableSize
  <2>1. Len(s) \in 0 .. Len(s) /\ e + 1 <= Len(s) + 1 /\ Len(s) - (e + 1) + 1 = Len(s) - e
    BY <1>1
  <2>2. r \in Data /\ Len(r) = Len(s) - (e + 1) + 1
    BY <1>1, <2>1, Part
  <2>3. Len(s) - e \in Nat /\ Len(s) - e < AddressableSize
    BY <1>1, <1>2
  <2> QED
    BY <2>1, <2>2, <2>3, Zenon
<1>4. CASE e = Len(s)
  <2>1. r = <<>>
    <3>1. Len(r) = 0 /\ r \in Seq(0 .. 255)
      BY <1>1, <1>3, <1>4 DEF Data
    <3> QED
      BY <3>1, EmptySeq, Zenon
  <2>2. FieldFits(r, 2) /\ Field(r) = <<>> /\ ~ Tolerated(r)
    BY <2>1, Zenon DEF FieldFits, Field, Tolerated
  <2> QED
    BY <1>4, <2>2, Zenon DEF Second
<1>5. CASE e # Len(s)
  <2>1. r # <<>>
    <3>1. Len(r) # 0
      BY <1>1, <1>3, <1>5
    <3> QED
      BY <3>1, EmptySeq, Zenon
  <2>2. ASSUME NEW i \in 1 .. Len(r)
        PROVE  /\ e + i \in e + 1 .. Len(s)
               /\ SubSeq(r, 1, i) = SubSeq(s, e + 1, e + i)
    <3>1. /\ Len(s) \in 0 .. Len(s) /\ e + 1 <= Len(s) + 1
          /\ 1 \in Nat \ {0} /\ i \in 0 .. Len(s) - (e + 1) + 1 /\ 1 <= i + 1
          /\ (e + 1) + 1 - 1 = e + 1 /\ (e + 1) + i - 1 = e + i
          /\ e + i \in e + 1 .. Len(s)
      BY <1>1, <1>3
    <3>2. SubSeq(SubSeq(s, e + 1, Len(s)), 1, i)
            = SubSeq(s, (e + 1) + 1 - 1, (e + 1) + i - 1)
      BY <1>1, <3>1, PartOfPart, Zenon
    <3> QED
      BY <3>1, <3>2, Zenon
  <2>3. ASSUME d \in Second(s, e) PROVE FieldFits(r, 2) /\ ~ Tolerated(r) /\ d = Field(r)
    <3>1. PICK j \in e + 1 .. Len(s) : d \in Payloads(SubSeq(s, e + 1, j), 2)
      BY <1>5, <2>3, Zenon DEF Second
    <3>2. PICK i \in 1 .. Len(r) : e + i = j
      <4>1. j - e \in 1 .. Len(r) /\ e + (j - e) = j
        BY <1>1, <1>3
      <4> QED
        BY <4>1
    <3>3. d \in Payloads(SubSeq(r, 1, i), 2)
      BY <2>2, <3>1, <3>2, Zenon
    <3> QED
      BY <1>3, <2>1, <3>3, PayloadIsField
  <2>4. ASSUME FieldFits(r, 2), ~ Tolerated(r), d = Field(r) PROVE d \in Second(s, e)
    <3>1. PICK i : i = Header(r) + Varint(Tail(r))
      OBVIOUS
    <3>2. i \in 1 .. Len(r) /\ d \in Payloads(SubSeq(r, 1, i), 2)
      BY <1>3, <2>1, <2>4, <3>1, FieldIsPayload
    <3>3. e + i \in e + 1 .. Len(s) /\ d \in Payloads(SubSeq(s, e + 1, e + i), 2)
      BY <2>2, <3>2, Zenon
    <3> QED
      BY <1>5, <3>3, Zenon DEF Second
  <2> QED
    BY <2>3, <2>4, Zenon
<1> QED
  BY <1>4, <1>5, Zenon

\* The pair that is read, when the data are accepted and no field has a
\* tolerated form, is the pair that some encoder can have written; otherwise
\* there is none.
LEMMA EncodedIsRead ==
  ASSUME NEW s \in Data, Len(s) < AddressableSize, NEW p
  PROVE  p \in Encoded(s) <=>
           /\ FieldFits(s, 1) /\ FieldFits(AfterField(s), 2)
           /\ ~ Tolerated(s) /\ ~ Tolerated(AfterField(s))
           /\ p = <<Field(s), Field(AfterField(s))>>
<1>1. CASE s = <<>>
  <2>1. /\ FieldFits(s, 1) /\ Field(s) = <<>> /\ AfterField(s) = <<>>
    BY <1>1, Zenon DEF FieldFits, Field, AfterField
  <2>2. /\ FieldFits(AfterField(s), 2) /\ Field(AfterField(s)) = <<>>
        /\ ~ Tolerated(s) /\ ~ Tolerated(AfterField(s))
    BY <1>1, <2>1, Zenon DEF FieldFits, Field, Tolerated
  <2>3. Encoded(s) = {<< <<>>, <<>> >>}
    BY <1>1, Zenon DEF Encoded
  <2> QED
    BY <2>1, <2>2, <2>3, Zenon
<1>2. CASE s # <<>>
  <2>1. p \in Encoded(s) <=>
          \E i \in 1 .. Len(s) : p \in Payloads(SubSeq(s, 1, i), 1) \X Second(s, i)
    <3>1. Encoded(s) = UNION {Payloads(SubSeq(s, 1, i), 1) \X Second(s, i) : i \in 1 .. Len(s)}
      BY <1>2 DEF Encoded, Second
    <3> QED
      BY <3>1, Zenon
  <2>2. ASSUME NEW i \in 1 .. Len(s), FieldFits(s, 1), i = Header(s) + Varint(Tail(s))
        PROVE  AfterField(s) = SubSeq(s, i + 1, Len(s))
    BY <1>2, <2>2, Zenon DEF AfterField
  <2>3. ASSUME p \in Encoded(s)
        PROVE  /\ FieldFits(s, 1) /\ FieldFits(AfterField(s), 2)
               /\ ~ Tolerated(s) /\ ~ Tolerated(AfterField(s))
               /\ p = <<Field(s), Field(AfterField(s))>>
    <3>1. PICK i \in 1 .. Len(s) : p \in Payloads(SubSeq(s, 1, i), 1) \X Second(s, i)
      BY <2>1, <2>3, Zenon
    <3>2. PICK a \in Payloads(SubSeq(s, 1, i), 1), d \in Second(s, i) : p = <<a, d>>
      <4>1. \A A, B : p \in A \X B => \E a \in A, d \in B : p = <<a, d>>
        OBVIOUS
      <4> QED
        BY <3>1, <4>1, Zenon
    <3>3. /\ FieldFits(s, 1) /\ i = Header(s) + Varint(Tail(s)) /\ a = Field(s)
          /\ ~ Tolerated(s)
      BY <1>2, <3>2, PayloadIsField
    <3>4. /\ FieldFits(AfterField(s), 2) /\ d = Field(AfterField(s))
          /\ ~ Tolerated(AfterField(s))
      BY <2>2, <3>3, SecondIsField, Zenon
    <3> QED
      BY <3>2, <3>3, <3>4, Zenon
  <2>4. ASSUME FieldFits(s, 1), FieldFits(AfterField(s), 2),
               ~ Tolerated(s), ~ Tolerated(AfterField(s)),
               p = <<Field(s), Field(AfterField(s))>>
        PROVE  p \in Encoded(s)
    <3>1. PICK i : i = Header(s) + Varint(Tail(s))
      OBVIOUS
    <3>2. i \in 1 .. Len(s) /\ Field(s) \in Payloads(SubSeq(s, 1, i), 1)
      BY <1>2, <2>4, <3>1, FieldIsPayload
    <3>3. Field(AfterField(s)) \in Second(s, i)
      BY <2>2, <2>4, <3>1, <3>2, SecondIsField, Zenon
    <3> QED
      BY <2>1, <2>4, <3>2, <3>3, Zenon
  <2> QED
    BY <2>3, <2>4, Zenon
<1> QED
  BY <1>1, <1>2, Zenon

\* What is read of a sequence of bytes is one.
LEMMA FieldOfData ==
  ASSUME NEW s \in Data, NEW f \in Nat, FieldFits(s, f)
  PROVE  Field(s) \in Data /\ AfterField(s) \in Data
<1>1. CASE s = <<>>
  BY <1>1, Zenon DEF Field, AfterField
<1>2. CASE s # <<>>
  <2>1. PICK k \in Nat \ {0}, n \in Nat :
          /\ Header(s) = 1 + k /\ Varint(Tail(s)) = n
          /\ 1 + k + n <= Len(s)
    BY <1>2, FieldSpans
  <2>2. Len(s) \in Nat
    BY DEF Data
  <2>3. /\ (1 + k) + 1 \in Nat \ {0} /\ (1 + k) + n \in 0 .. Len(s)
        /\ (1 + k) + 1 <= ((1 + k) + n) + 1
        /\ ((1 + k) + n) + 1 \in Nat \ {0} /\ Len(s) \in 0 .. Len(s)
        /\ ((1 + k) + n) + 1 <= Len(s) + 1
    BY <2>1, <2>2
  <2>4. /\ SubSeq(s, (1 + k) + 1, (1 + k) + n) \in Data
        /\ SubSeq(s, ((1 + k) + n) + 1, Len(s)) \in Data
    BY <2>3, Part
  <2> QED
    BY <1>2, <2>1, <2>4 DEF Field, AfterField
<1> QED
  BY <1>1, <1>2

\* The response that is read is the only one the data stand for, if they have
\* no tolerated form.
LEMMA ResponseIsEncoded ==
  ASSUME NEW s \in Data, Len(s) < AddressableSize
  PROVE  LET text == {r \in Encoded(s) : IsUtf8(r[1])}
         IN IF ResponseFits(s) /\ ~ Tolerated(s) /\ ~ Tolerated(AfterField(s))
            THEN text = {<< Response(s).contract_address,
                            IF Response(s).data = None THEN <<>> ELSE Response(s).data >>}
            ELSE text = {}
<1> DEFINE read == <<Field(s), Field(AfterField(s))>>
           text == {r \in Encoded(s) : IsUtf8(r[1])}
<1>1. \A p : p \in Encoded(s) <=>
               /\ FieldFits(s, 1) /\ FieldFits(AfterField(s), 2)
               /\ ~ Tolerated(s) /\ ~ Tolerated(AfterField(s)) /\ p = read
  BY EncodedIsRead
<1>2. read[1] = Field(s)
  OBVIOUS
<1>3. CASE ResponseFits(s) /\ ~ Tolerated(s) /\ ~ Tolerated(AfterField(s))
  <2>1. FieldFits(s, 1) /\ IsUtf8(Field(s)) /\ FieldFits(AfterField(s), 2)
    BY <1>3 DEF ResponseFits
  <2>2. text = {read}
    <3> HIDE DEF read
    <3> QED
      BY <1>1, <1>2, <1>3, <2>1
  <2>3. Field(AfterField(s)) # None
    <3>1. Field(AfterField(s)) \in Data
      BY <2>1, FieldOfData
    <3> QED
      BY <3>1, DeploymentAssumption DEF Data
  <2>4. /\ Response(s).contract_address = Field(s)
        /\ (IF Response(s).data = None THEN <<>> ELSE Response(s).data)
             = Field(AfterField(s))
    BY <2>3 DEF Response
  <2> QED
    BY <1>3, <2>2, <2>4
<1>4. CASE ~ (ResponseFits(s) /\ ~ Tolerated(s) /\ ~ Tolerated(AfterField(s)))
  <2>1. text = {}
    <3>1. ~ (/\ FieldFits(s, 1) /\ FieldFits(AfterField(s), 2) /\ IsUtf8(Field(s))
             /\ ~ Tolerated(s) /\ ~ Tolerated(AfterField(s)))
      BY <1>4, Zenon DEF ResponseFits
    <3> HIDE DEF read
    <3> QED
      BY <1>1, <1>2, <3>1
  <2> QED
    BY <1>4, <2>1
<1> QED
  BY <1>3, <1>4

\* Whatever bytes the chain writes, the parser accepts what an encoder can have
\* written and returns what it meant.  What no encoder writes is refused, but
\* for a field of a tolerated form: another wire type that agrees with 2 in two
\* bits, or a length cut to the addressable size.  This holds for data of any
\* length below the addressable size, and varints of any number of bytes.
THEOREM ResponsesDecoded == Spec => []DecodesTheEncoded
<1>1. DeploymentInv => DecodesTheEncoded
  <2> SUFFICES ASSUME DeploymentInv, Written PROVE DecodesTheEncoded
    BY DEF DecodesTheEncoded
  <2>1. outcome # "reverted" /\ ReplyRight /\ reply # None /\ reply.data # None
    BY DEF Written, DeploymentInv
  <2>2. reply.data \in Seq(ReplyBytes) /\ Len(reply.data) <= MaxReplyBytes
    BY <2>1 DEF ReplyRight, ReplyRecords
  <2>3. reply.data \in Data
    <3>1. PICK T, s : T = 0 .. 255 /\ s = reply.data
      OBVIOUS
    <3>2. ReplyBytes \subseteq T
      BY <3>1, DeploymentAssumption
    <3>3. s \in Seq(ReplyBytes)
      BY <2>2, <3>1, Zenon
    <3>4. s \in Seq(T)
      BY <3>2, <3>3, SeqMonotonic, Zenon
    <3> QED
      BY <3>1, <3>4, Zenon DEF Data
  <2>4. Len(reply.data) < AddressableSize
    BY <2>2, DeploymentAssumption, ReplyDataAssumption
  <2> QED
    BY <2>3, <2>4, ResponseIsEncoded, Zenon DEF DecodesTheEncoded
<1> QED
  BY <1>1, DeploymentInvariant, PTL

(***************************************************************************)
(* The answer of the chain: a field of one tag byte, one length byte and   *)
(* an address.  The parser's varint of a byte below 128 is that byte.  An  *)
(* address of 128 bytes or more has a longer length; those of a chain have *)
(* 44 or 64.                                                               *)
(***************************************************************************)
ShortAddresses ==
  \A addr \in ValidAddresses : Len(addr) < 128 /\ Len(addr) < AddressableSize

\* The varint of one byte below 128 is that byte.
LEMMA VarintOfOneByte ==
  ASSUME NEW s \in Data, s # <<>>, s[1] < 128, s[1] < AddressableSize
  PROVE  VarintFits(s) /\ VarintSize(s) = 1 /\ Varint(s) = s[1]
<1>1. VarintMaxBytes \in Nat \ {0} /\ AddressableSize \in Nat \ {0}
  BY ReplyDataAssumption
<1>2. 1 \in 1 .. Len(s)
  BY RestOfData
<1>3. PICK b \in 0 .. 127 : b = s[1]
  <2>1. PICK b \in 0 .. 255 : b = s[1]
    BY <1>2, ElementOfSeq, Zenon DEF Data
  <2>2. b < 128
    BY <2>1, Zenon
  <2>3. b \in 0 .. 127
    BY <2>2
  <2> QED
    BY <2>1, <2>3, Zenon
<1>4. Number(s, 1) = Number(s, 0) + (s[1] % 128) * Place(0) /\ Number(s, 0) = 0
  <2>1. 0 \in Nat /\ 0 + 1 = 1
    OBVIOUS
  <2>2. Number(s, 0 + 1) = Number(s, 0) + (s[0 + 1] % 128) * Place(0) /\ Number(s, 0) = 0
    BY <2>1, NumberSteps, Zenon
  <2> QED
    BY <2>1, <2>2
<1>5. Number(s, 1) = s[1]
  <2>1. Place(0) = 1
    BY Places, Zenon
  <2>2. 0 + (b % 128) * 1 = b
    OBVIOUS
  <2> QED
    BY <1>3, <1>4, <2>1, <2>2, Zenon
<1>6. s[1] % AddressableSize = s[1]
  <2>1. b \in Nat
    OBVIOUS
  <2> QED
    BY <1>1, <1>3, <2>1, RemainderOfLess, Zenon
<1>7. ReadsLength(s, 1, s[1])
  BY <1>1, <1>5, <1>6 DEF ReadsLength
<1> QED
  BY <1>2, <1>7, ReadsVarint

\* The bytes of an address are letters, and numbers.
LEMMA BytesOfText ==
  ASSUME NEW a \in Seq(0 .. 127)
  PROVE  a \in Seq(Nat) /\ \A i \in DOMAIN a : a[i] \in 0 .. 127
<1>1. 0 .. 127 \subseteq Nat
  OBVIOUS
<1>2. a \in Seq(Nat)
  BY <1>1, SeqMonotonic, Zenon
<1>3. \A i \in 1 .. Len(a) : a[i] \in 0 .. 127
  BY ElementOfSeq, Zenon
<1>4. DOMAIN a = 1 .. Len(a)
  BY LenProperties, Zenon
<1> QED
  BY <1>2, <1>3, <1>4, Zenon

\* Where the bytes of a sequence are once two others stand before it.
LEMMA TwoBytesBefore ==
  ASSUME NEW h \in Seq(Nat), NEW a \in Seq(Nat), Len(h) = 2
  PROVE  /\ h \o a \in Seq(Nat) /\ Len(h \o a) = Len(a) + 2
         /\ (h \o a)[1] = h[1] /\ (h \o a)[2] = h[2]
         /\ \A i \in 1 .. Len(a) : (h \o a)[i + 2] = a[i]
<1> DEFINE s == h \o a
<1>1. /\ s \in Seq(Nat)
      /\ Len(s) = Len(h) + Len(a)
      /\ \A i \in 1 .. Len(h) + Len(a) :
           s[i] = IF i <= Len(h) THEN h[i] ELSE a[i - Len(h)]
  BY ConcatProperties, Zenon
<1>2. Len(a) \in Nat
  OBVIOUS
<1> HIDE DEF s
<1>3. s[1] = h[1] /\ s[2] = h[2]
  BY <1>1, <1>2
<1>4. ASSUME NEW i \in 1 .. Len(a) PROVE s[i + 2] = a[i]
  <2>1. i + 2 \in 1 .. Len(h) + Len(a) /\ ~ i + 2 <= Len(h) /\ (i + 2) - Len(h) = i
    BY <1>2
  <2>2. s[i + 2] = a[(i + 2) - Len(h)]
    BY <1>1, <2>1, Zenon
  <2> QED
    BY <2>1, <2>2
<1> QED
  BY <1>1, <1>2, <1>3, <1>4 DEF s

\* The parser returns the address of an answer.
LEMMA DecodesTheAnswer ==
  ASSUME ShortAddresses, NEW addr \in ValidAddresses
  PROVE  /\ ResponseFits(ChainAnswer(addr))
         /\ Response(ChainAnswer(addr)).contract_address = addr
<1> DEFINE s == ChainAnswer(addr)
           n == Len(addr)
<1>1. /\ addr \in Seq(0 .. 127) /\ addr # <<>>
      /\ n \in Nat /\ 0 < n /\ n < 128 /\ n < AddressableSize
  BY DeploymentAssumption DEF ShortAddresses
<1>2. /\ s \in Seq(Nat) /\ Len(s) = n + 2
      /\ s[1] = 10 /\ s[2] = n /\ s # <<>>
      /\ \A i \in 1 .. n : s[i + 2] = addr[i]
  <2> DEFINE head == <<10, n>>
  <2>1. head \in Seq(Nat) /\ Len(head) = 2 /\ head[1] = 10 /\ head[2] = n
    BY <1>1
  <2>2. s = head \o addr
    BY DEF ChainAnswer
  <2> HIDE DEF head, s
  <2>3. addr \in Seq(Nat)
    BY <1>1, BytesOfText
  <2>4. /\ s \in Seq(Nat) /\ Len(s) = n + 2
        /\ s[1] = 10 /\ s[2] = n
        /\ \A i \in 1 .. n : s[i + 2] = addr[i]
    BY <2>1, <2>2, <2>3, TwoBytesBefore
  <2> QED
    BY <1>1, <2>4
<1> HIDE DEF s
<1>3. Tail(s) \in Data /\ Tail(s) # <<>> /\ Tail(s)[1] = n
  <2>1. <<10, n>> \in Data
    <3>1. n \in Nat /\ n < 128
      BY <1>1, Zenon
    <3> HIDE DEF n
    <3>2. 10 \in 0 .. 255 /\ n \in 0 .. 255
      BY <3>1
    <3> QED
      BY <3>2 DEF Data
  <2>2. addr \in Data
    <3>1. PICK S, T : S = 0 .. 127 /\ T = 0 .. 255
      OBVIOUS
    <3>2. S \subseteq T
      BY <3>1
    <3>3. addr \in Seq(T)
      <4>1. addr \in Seq(S)
        BY <1>1, <3>1, Zenon
      <4> QED
        BY <3>2, <4>1, SeqMonotonic, Zenon
    <3> QED
      BY <3>1, <3>3, Zenon DEF Data
  <2>3. s \in Data
    <3>1. s = <<10, n>> \o addr
      BY DEF ChainAnswer, s
    <3> QED
      BY <2>1, <2>2, <3>1, ConcatProperties, Zenon DEF Data
  <2>4. /\ Tail(s) \in Data /\ Len(Tail(s)) = n + 1
        /\ Tail(s)[1] = s[1 + 1]
    <3>1. 1 \in 1 .. Len(s) - 1 /\ Len(s) - 1 = n + 1
      BY <1>1, <1>2
    <3> QED
      BY <1>2, <2>3, <3>1, RestOfData
  <2>5. Tail(s) # <<>>
    <3>1. Len(Tail(s)) # 0
      BY <1>1, <2>4
    <3> QED
      BY <3>1, EmptySeq, Zenon
  <2> QED
    BY <1>2, <2>4, <2>5
<1>4. VarintFits(Tail(s)) /\ VarintSize(Tail(s)) = 1 /\ Varint(Tail(s)) = n
  BY <1>1, <1>3, VarintOfOneByte
<1>5. Header(s) = 2
  BY <1>4 DEF Header
<1>6. FieldFits(s, 1)
  <2>1. s[1] \div 8 = 1 /\ s[1] % 4 = 2
    BY <1>2
  <2> QED
    BY <1>1, <1>2, <1>4, <1>5, <2>1 DEF FieldFits, WireTypeLengthDelimited
<1>7. Field(s) = addr
  <2>1. Field(s) = SubSeq(s, 3, n + 2)
    BY <1>1, <1>2, <1>4, <1>5 DEF Field
  <2>2. /\ SubSeq(s, 3, n + 2) \in Seq(Nat)
        /\ Len(SubSeq(s, 3, n + 2)) = n
        /\ \A i \in 1 .. n : SubSeq(s, 3, n + 2)[i] = s[i + 2]
    BY <1>1, <1>2
  <2> QED
    BY <1>1, <1>2, <2>1, <2>2
<1>8. AfterField(s) = <<>>
  <2>1. AfterField(s) = SubSeq(s, n + 3, n + 2)
    BY <1>1, <1>2, <1>4, <1>5 DEF AfterField
  <2> QED
    BY <1>1, <1>2, <2>1
<1>9. IsUtf8(addr)
  <2>1. \A i \in DOMAIN addr : addr[i] \in 0 .. 127
    BY <1>1, BytesOfText
  <2> QED
    BY <2>1 DEF IsUtf8
<1> QED
  BY <1>6, <1>7, <1>8, <1>9 DEF ResponseFits, Response, FieldFits, s

\* Whatever bytes the chain may write, a reply that holds the address of a new
\* token is accepted and recorded for the token it answers for.
THEOREM AnswersRecorded == ShortAddresses => (Spec => RecordsTheAnswer)
<1> SUFFICES ASSUME ShortAddresses PROVE Spec => RecordsTheAnswer
  OBVIOUS
<1> DEFINE Recorded ==
      \A addr \in ValidAddresses :
        Written /\ reply.data = ChainAnswer(addr) /\ reply' = None
          => /\ outcome' # "reverted"
             /\ address' = [address EXCEPT ![Head(messages).role] = addr]
             /\ messages' = Tail(messages)
<1>1. DeploymentInv /\ [Next]_deploymentVars => Recorded
  <2> SUFFICES ASSUME DeploymentInv, [Next]_deploymentVars, NEW addr \in ValidAddresses,
                      Written, reply.data = ChainAnswer(addr), reply' = None
               PROVE  /\ outcome' # "reverted"
                      /\ address' = [address EXCEPT ![Head(messages).role] = addr]
                      /\ messages' = Tail(messages)
    OBVIOUS
  <2>1. /\ reply # None /\ reply.data # None /\ outcome # "reverted"
        /\ reply \in ReplyRecords /\ messages # <<>>
        /\ reply.id = Head(messages).id
        /\ AddressesRight
    BY DEF Written, DeploymentInv, ReplyRight
  <2>2. /\ Head(messages).role \in Roles
        /\ RoleOfReply(reply.id) = Head(messages).role
        /\ Head(messages).role \in Named(messages)
        /\ contract # None
    BY <2>1, FirstMessage, DeploymentAssumption DEF DeploymentInv
  <2>3. ReplyAccepted /\ Response(reply.data).contract_address = addr
    <3>1. RoleOfReply(reply.id) # None
      BY <2>2, DeploymentAssumption
    <3>2. ReplyFits(reply) /\ Response(reply.data).contract_address = addr
      BY <2>1, DecodesTheAnswer DEF ReplyFits, ReplyRecords
    <3>3. address[RoleOfReply(reply.id)] = <<>>
      BY <2>1, <2>2 DEF AddressesRight, Answered
    <3> QED
      BY <3>1, <3>2, <3>3 DEF ReplyAccepted
  <2>4. HandleReply
    <3>1. ~ UNCHANGED deploymentVars
      BY <2>1 DEF deploymentVars
    <3>2. ASSUME NEW b \in ReplyBytes PROVE ~ WriteByte(b)
      <4> SUFFICES ASSUME WriteByte(b) PROVE FALSE
        OBVIOUS
      <4>1. reply' = [reply EXCEPT !.data = Append(@, b)]
        BY DEF WriteByte
      <4>2. Append(reply.data, b) \in Seq(ReplyBytes)
        BY <2>1 DEF ReplyRecords
      <4>3. reply' \in ReplyRecords
        BY <2>1, <4>1, <4>2 DEF ReplyRecords
      <4> QED
        BY <4>3, DeploymentAssumption DEF ReplyRecords
    <3>3. ~ InstantiateToken /\ ~ RefuseToken
      BY <2>1 DEF InstantiateToken, RefuseToken
    <3>4. ~ RefuseReply
      BY <2>3 DEF RefuseReply
    <3>5. ASSUME NEW coins PROVE ~ InstantiateStake(coins)
      BY <2>2 DEF InstantiateStake
    <3>6. ASSUME NEW coins, NEW share_max_cap
          PROVE  ~ InstantiatePool(coins, share_max_cap)
      BY <2>2 DEF InstantiatePool
    <3> QED
      BY <3>1, <3>2, <3>3, <3>4, <3>5, <3>6 DEF Next
  <2> QED
    BY <2>2, <2>3, <2>4 DEF HandleReply
<1> QED
  BY <1>1, DeploymentInvariant, PTL DEF Spec, RecordsTheAnswer
===============================================================================
