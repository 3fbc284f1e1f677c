SPECIFICATION ProgramsSpec
CONSTANTS
  Clients = {a, b, c}
  Nil = Nil
  MaxRequests = 1
  Tags = {t, u}
  Sockets = {4, 5}
  Timeout = 1
  MaxTies = 3
  MAX = 3
  MaxWrites = 6
  MaxReports = 3
INVARIANTS
  ProgramsTypeOK
  ListIsSound
  TiesAreRequests
  OperationalIsWarm
PROPERTIES
  Served
  ThreadsImplementQueue
CHECK_DEADLOCK FALSE
