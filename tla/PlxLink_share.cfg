SPECIFICATION LinkSpec
CONSTANTS
  Callers = {c1, c2}
  ProcReaders = {p1}
  ProcRegs = 2
  MaxTickets = 3
  None = None
INVARIANTS
  LinkTypeOK
  RequestKept
  OwnAnswer
  NothingLeftOver
  CommandsArrive
PROPERTIES
  CallsReturn
CHECK_DEADLOCK FALSE
