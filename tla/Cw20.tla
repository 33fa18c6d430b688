---------------------------------- MODULE Cw20 --------------------------------
(***************************************************************************)
(* A fantastic-cw20 token, seen by the contract that mints it.  The token  *)
(* contract delegates every message to cw20_base, which is not in the      *)
(* repository; what it does is modelled from the messages the pool sends.  *)
(*                                                                         *)
(* Holders other than the contract transfer freely among themselves, and   *)
(* no code reads their individual balances: a token is its total supply    *)
(* and the part of it the contract holds.  cw20_base rejects a zero amount.*)
(***************************************************************************)
EXTENDS Integers

Tokens == {t \in [supply : Nat, held : Nat] : t.held <= t.supply}

\* create_accounts: the initial balances all belong to somebody else.
NewToken(initial) == [supply |-> initial, held |-> 0]

Circulating(t) == t.supply - t.held

MintTokens(t, n) == [t EXCEPT !.supply = @ + n]

\* A holder sends n tokens to the contract (Transfer, or Send with a callback).
ReceiveTokens(t, n) == [t EXCEPT !.held = @ + n]

\* The contract burns everything it holds.
BurnHeld(t) == [supply |-> t.supply - t.held, held |-> 0]

\* Another holder burns n of its tokens.
BurnCirculating(t, n) == [t EXCEPT !.supply = @ - n]
===============================================================================
