-------------------------------- MODULE Ownable -------------------------------
(***************************************************************************)
(* packages/ownable/src/lib.rs: ownership handed over in two steps.  Both  *)
(* contracts embed it.                                                     *)
(***************************************************************************)
CONSTANTS
  Accounts,
  None        \* Option::None

VARIABLE ownable

ASSUME OwnableAssumption == None \notin Accounts

OwnableStates == [owner : Accounts, pending_owner : Accounts \cup {None}]

InitialOwnable(owner) == [owner |-> owner, pending_owner |-> None]

IsOwner(caller) == caller = ownable.owner

TransferOwnership(caller, to) ==
  /\ IsOwner(caller)
  /\ ownable' = [ownable EXCEPT !.pending_owner = to]

\* Mutant: the offer stays in force once it is accepted.
AcceptOwnershipKeepsOffer(caller) ==
  /\ caller = ownable.pending_owner
  /\ ownable' = [ownable EXCEPT !.owner = caller]

AcceptOwnership(caller) ==
  /\ caller = ownable.pending_owner
  /\ ownable' = [owner |-> caller, pending_owner |-> None]
===============================================================================
