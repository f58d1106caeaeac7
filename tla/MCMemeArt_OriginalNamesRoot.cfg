CONSTANTS
  None = None
  BadAddr = BadAddr
  Empty = Empty
  Native = Native
  Other = Other
  NoFunds = NoFunds
  MultiCoins = MultiCoins
  u1 = u1
  u2 = u2
  a = a
  A = A
  b = b

  Users <- MCUsers
  RawIds <- MCRawIds
  Lower <- MCLower
  Exts <- MCExtsForged
  FeeSchedules <- MCFeeSchedules
  OriginAdminSets <- MCOriginAdminSets
  Amounts = {10, 15}
  InitNative = {0, 10}
  ZeroSendFails = TRUE
  ImageFlags = {None, TRUE, FALSE}
  DefaultLimit = 4000000
SPECIFICATION Spec
INVARIANT
  OriginalNamesRoot
