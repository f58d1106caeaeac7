CONSTANTS
  None = None
  Admin = Admin
  ParentOwner = ParentOwner
  OriginalOwner = OriginalOwner
  Dao = Dao
  Funds = Funds
  Fees = {7, 15}
  Pcts = {0, 10, 50, 100, 150}
SPECIFICATION Spec
INVARIANTS
  SplitMatchesReference
  SplitDefinedForValidConfig
