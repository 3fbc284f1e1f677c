SPECIFICATION StoreSpec
CONSTANTS
  Limit = 2
  Below = 1
  Settings = {d1, d2}
  Zero = Zero
  Flags = {gain}
  Torn = Torn
  None = None
  MaxWrites = 3
  MaxCrashes = 1
INVARIANTS
  StoreTypeOK
  CopiesAgree
  ValidStaysValid
  NothingForgotten
  SpillsOnlyStrays
CHECK_DEADLOCK FALSE
