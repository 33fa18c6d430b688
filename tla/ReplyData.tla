-------------------------------- MODULE ReplyData ------------------------------
(***************************************************************************)
(* packages/utils/src/lib.rs: the data of the reply to an instantiation is *)
(* a protobuf message of two length-delimited fields, the address of the   *)
(* new contract (1) and its optional data (2), decoded by hand.            *)
(*                                                                         *)
(* Bytes are numbers, data are sequences of them.  A ...Fits operator says *)
(* that the parser returns Ok; the operators after it what it returns.     *)
(***************************************************************************)
EXTENDS Integers, Sequences

CONSTANTS
  VarintMaxBytes,     \* VARINT_MAX_BYTES, 9 in the code
  AddressableSize,    \* 1 + usize::MAX, 2^32 in wasm
  None

ASSUME ReplyDataAssumption ==
  /\ VarintMaxBytes \in Nat \ {0}
  /\ AddressableSize \in Nat \ {0}

(***************************************************************************)
(* parse_protobuf_varint: seven bits a byte, the lowest first; a byte      *)
(* below 128 is the last one.                                              *)
(***************************************************************************)
LastBytes(s) == {i \in DOMAIN s : i <= VarintMaxBytes /\ s[i] < 128}

VarintFits(s) == LastBytes(s) # {}

VarintSize(s) == CHOOSE i \in LastBytes(s) : \A j \in LastBytes(s) : i <= j

\* What a bit i bytes further up counts for: `<< (i * 7)`.
Place(i) == 2^(7 * i)

\* Mutant: the highest bits first.
VarintBigEndian(s) ==
  LET value[i \in 0 .. VarintSize(s)] ==
        IF i = 0 THEN 0 ELSE 128 * value[i - 1] + (s[i] % 128)
  IN value[VarintSize(s)] % AddressableSize

\* `len as usize` drops the bits an address does not have.
Varint(s) ==
  LET value[i \in 0 .. VarintSize(s)] ==
        IF i = 0 THEN 0 ELSE value[i - 1] + (s[i] % 128) * Place(i - 1)
  IN value[VarintSize(s)] % AddressableSize

(***************************************************************************)
(* parse_protobuf_length_prefixed.  Of the three bits of the wire type the *)
(* code looks at two.  No data at all is an empty field.                   *)
(***************************************************************************)
WireTypeLengthDelimited == 2

Header(s) == 1 + VarintSize(Tail(s))

FieldFits(s, field_number) ==
  \/ s = <<>>
  \/ /\ s # <<>>
     /\ s[1] \div 8 = field_number
     /\ s[1] % 4 = WireTypeLengthDelimited
     /\ VarintFits(Tail(s))
     /\ Header(s) + Varint(Tail(s)) <= Len(s)

Field(s) ==
  IF s = <<>> THEN <<>> ELSE SubSeq(s, Header(s) + 1, Header(s) + Varint(Tail(s)))

AfterField(s) ==
  IF s = <<>> THEN <<>> ELSE SubSeq(s, Header(s) + Varint(Tail(s)) + 1, Len(s))

(***************************************************************************)
(* parse_instantiate_response_data.  What follows the second field is      *)
(* ignored.  String::from_utf8 is the library's: bytes below 128 are text, *)
(* and no other byte is without a lead byte from 194 on.                   *)
(***************************************************************************)
IsUtf8(s) == \A i \in DOMAIN s : s[i] < 128

ResponseFits(s) ==
  /\ FieldFits(s, 1)
  /\ IsUtf8(Field(s))
  /\ FieldFits(AfterField(s), 2)

Response(s) ==
  LET data == Field(AfterField(s))
  IN [ contract_address |-> Field(s),
       data             |-> IF data = <<>> THEN None ELSE data ]

\* parse_reply_instantiate_data: the reply must be a success with data.
ReplyFits(reply) ==
  /\ reply.success
  /\ reply.data # None
  /\ ResponseFits(reply.data)
===============================================================================
