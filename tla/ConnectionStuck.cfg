SPECIFICATION FairSpec
CONSTANTS
  c1 = c1
  c2 = c2
  pump1 = pump1
  Clients <- OneClient
  Others = {pump1}
  None = None
  SendBuffer = 1
  MaxAsks <- Asks
  MaxCasts = 1
PROPERTY
  DeadAreCleanedUp
