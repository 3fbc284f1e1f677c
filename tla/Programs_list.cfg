SPECIFICATION ProgramsSpec
CONSTANTS
  Clients = {a, b, c}
  Nil = Nil
  MaxRequests = 0
  Tags = {t}
  Sockets = {4}
  Timeout = 1
  MaxTies = 1
  MAX = 2
  MaxWrites = 1
  MaxReports = 1
INVARIANT ListOfCurrentClients
CHECK_DEADLOCK FALSE
