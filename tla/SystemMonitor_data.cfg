CHECK_DEADLOCK FALSE
CONSTANTS
  MAX_CONN_ATTEMPTS = 5
  SENT_ECHOS = 3
  MaxFaults = 4
SPECIFICATION FairSpec
PROPERTY DeathInDataNoticed
