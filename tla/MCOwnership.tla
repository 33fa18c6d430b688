------------------------------ MODULE MCOwnership ------------------------------
(***************************************************************************)
(* SynthPool with a memory of who made the offer of the ownership that is  *)
(* in force: the contract keeps only the name of the account it was made   *)
(* to.                                                                     *)
(***************************************************************************)
EXTENDS MCSynthPool

VARIABLE offeredBy     \* sender of the last transfer_ownership, None if used

ownershipVars == <<vars, offeredBy>>

OwnershipInit ==
  /\ Init
  /\ offeredBy = None

OfferRecorded ==
  IF ownable' = ownable
  THEN UNCHANGED offeredBy
  ELSE IF ownable'.owner # ownable.owner \/ ownable'.pending_owner = None
  THEN offeredBy' = None
  ELSE \E caller \in Accounts :
         /\ TransferOwnership(caller, ownable'.pending_owner)
         /\ offeredBy' = caller

OwnershipNext == Next /\ OfferRecorded

\* Spec with that memory, and fairness.
OwnershipSpec == OwnershipInit /\ [][OwnershipNext]_ownershipVars /\ Fairness

\* An offer of the ownership that can still be accepted was made by the
\* account that owns the contract now: it does not survive a change of hands,
\* and a previous owner has no offer left to return by (ownable lib.rs:72,
\* accept_ownership lib.rs:89).
OfferFromOwner ==
  ownable.pending_owner # None => offeredBy = ownable.owner
===============================================================================
