SPECIFICATION LinkSafety
CONSTANTS
  Callers = {c1, c2}
  ProcReaders = {}
  ProcRegs = 1
  MaxTickets = 3
  None = None
INVARIANT RequestRetrieved
CHECK_DEADLOCK FALSE
