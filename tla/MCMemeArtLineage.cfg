CONSTANTS
  None = None
  BadAddr = BadAddr
  Empty = Empty
  Native = Native
  Other = Other
  NoFunds = NoFunds
  MultiCoins = MultiCoins
  u1 = u1
  u2 = u2
  a = a
  b = b
  c = c

  Users <- LinUsers
  RawIds <- LinRawIds
  Lower <- LinLower
  Exts <- LinExts
  FeeSchedules <- LinFeeSchedulesPaid
  OriginAdminSets <- LinOriginAdminSets
  Amounts = {10}
  InitNative = {0}
  ZeroSendFails = TRUE
  ImageFlags = {TRUE}
  DefaultLimit = 4000000
SPECIFICATION Spec
PROPERTIES
  MintPaysLineage
