\* A pool or a stake contract is instantiated, with any data in the replies.
SPECIFICATION Spec
CONSTANTS
  ust = ust
  luna = luna
  none = none
  None = none
  VarintMaxBytes = 2
  AddressableSize = 256
  Sender = sender
  Contract = contract
  CollateralDenom = ust
  FundsChoices <- MCFunds
  ShareCaps = {0, 3}
  ValidAddresses <- MCAddresses
  ReplyBytes = {0, 1, 2, 10, 14, 18, 22, 97, 129}
  MaxReplyBytes = 5
INVARIANTS DecodesTheEncoded TokensAsPromised
PROPERTIES RecordsTheAnswer
CHECK_DEADLOCK FALSE
