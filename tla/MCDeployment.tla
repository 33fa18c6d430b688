------------------------------ MODULE MCDeployment -----------------------------
(***************************************************************************)
(* A small instance of Deployment, and what its decoder should do, stated  *)
(* by the encoder: the forms protobuf gives a field.                       *)
(***************************************************************************)
EXTENDS Deployment

CONSTANTS ust, luna, none

MCFunds == {<<>>, [d \in {luna} |-> 2], [d \in {ust, luna} |-> IF d = ust THEN 1 ELSE 2]}
MCAddresses == {<<97>>, <<97, 97>>}

\* n in base 128, in k bytes, the lowest first.
VarintForm(n, k) ==
  [i \in 1 .. k |-> ((n \div Place(i - 1)) % 128) + (IF i < k THEN 128 ELSE 0)]

\* A length as an encoder may write it, padded or not.
IsLength(s, n) ==
  /\ Len(s) \in 1 .. VarintMaxBytes
  /\ n < Place(Len(s))
  /\ s = VarintForm(n, Len(s))

\* The payloads that field `number` has in the form s: a tag of wire type 2,
\* the length of the payload, the payload.
Payloads(s, number) ==
  { SubSeq(s, i, Len(s)) :
      i \in {j \in 3 .. Len(s) + 1 :
               /\ s[1] = 8 * number + 2
               /\ IsLength(SubSeq(s, 2, j - 1), Len(s) - j + 1)} }

\* The pairs of address and data a response s stands for: field 1, then
\* nothing or field 2 and anything after it.
Encoded(s) ==
  IF s = <<>>
  THEN {<< <<>>, <<>> >>}
  ELSE UNION { Payloads(SubSeq(s, 1, i), 1) \X
                 IF i = Len(s)
                 THEN {<<>>}
                 ELSE UNION {Payloads(SubSeq(s, i + 1, j), 2) : j \in i + 1 .. Len(s)}
               : i \in 1 .. Len(s) }

\* The two forms of a field no encoder writes and the parser accepts.  One
\* has a wire type that agrees with 2 only in the bits the code compares: 6.
\* The other has a length beyond the addressable size, and n is what the cut
\* to that size leaves of it.
IsCutLength(s, n) ==
  /\ Len(s) \in 1 .. VarintMaxBytes
  /\ \E c \in 1 .. (Place(Len(s)) - 1 - n) \div AddressableSize :
       s = VarintForm(n + c * AddressableSize, Len(s))

Tolerated(s) ==
  /\ s # <<>>
  /\ \/ s[1] % 8 # WireTypeLengthDelimited
     \/ IsCutLength(SubSeq(s, 2, Header(s)), Varint(Tail(s)))

Written == reply # None /\ reply.data # None

\* The parser accepts all data an encoder can have written and returns what
\* was encoded, for every sequence of bytes: no field is cut short, read past
\* its end or taken for another.  Of the data no encoder writes it accepts
\* those with a field of one of the two tolerated forms, and refuses all
\* others (utils lib.rs:75, 113; the two forms, lib.rs:83, 138).
DecodesTheEncoded ==
  Written =>
    LET s == reply.data
        text == {r \in Encoded(s) : IsUtf8(r[1])}
    IN IF ResponseFits(s) /\ ~Tolerated(s) /\ ~Tolerated(AfterField(s))
       THEN text = {<< Response(s).contract_address,
                       IF Response(s).data = None THEN <<>> ELSE Response(s).data >>}
       ELSE text = {}

\* When the chain answers a submessage as it does, with the address of the
\* token it instantiated, the contract records that address for that token
\* and no other, and the deployment goes on (pool contract.rs:116, stake
\* contract.rs:78).
ChainAnswer(addr) == <<10, Len(addr)>> \o addr

RecordsTheAnswer ==
  [][ \A addr \in ValidAddresses :
        Written /\ reply.data = ChainAnswer(addr) /\ reply' = None
          => /\ outcome' # "reverted"
             /\ address' = [address EXCEPT ![Head(messages).role] = addr]
             /\ messages' = Tail(messages) ]_deploymentVars

\* A pool that came into being starts with synth for the collateral it was
\* sent and for nothing else it was sent, with the share supply it was asked
\* for, and alone may mint either, without a cap: the initial state of
\* SynthPool (pool contract.rs:52, cw20 contract.rs:42).
TokensAsPromised ==
  outcome = "committed" =>
    /\ \A role \in Roles :
         /\ (token[role] # None) <=> (address[role] # <<>>)
         /\ token[role] # None =>
              token[role].mint = [minter |-> Contract, cap |-> None]
    /\ contract = "pool" =>
         /\ token["synth"].total_supply =
              IF CollateralDenom \in DOMAIN funds THEN funds[CollateralDenom] ELSE 0
         /\ token["share"].total_supply = shareCap
    /\ contract = "stake" => token["position"].total_supply = 0
===============================================================================
