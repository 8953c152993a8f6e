SPECIFICATION Spec
CONSTANTS
  h1 = h1
  h2 = h2
  alice = alice
  bob = bob
  carol = carol
  Handlers <- TwoHandlers
  Users <- TwoUsers
  Lists <- ShortLists
  MaxRequests = 2
  MaxDeletes = 0
  MaxFaults = 0
INVARIANT
  LoserGetsWinner
