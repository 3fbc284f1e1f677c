SPECIFICATION LinkSafety
CONSTANTS
  Callers = {c1}
  ProcReaders = {}
  ProcRegs = 1
  MaxTickets = 3
  None = None
INVARIANT RealDataRead
CHECK_DEADLOCK FALSE
