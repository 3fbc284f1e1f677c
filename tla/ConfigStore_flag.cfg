SPECIFICATION StoreSpec
CONSTANTS
  Limit = 2
  Below = 0
  Settings = {d1, d2}
  Zero = Zero
  Flags = {gain}
  Torn = Torn
  None = None
  MaxWrites = 2
  MaxCrashes = 0
INVARIANT FlagReadsBack
CHECK_DEADLOCK FALSE
