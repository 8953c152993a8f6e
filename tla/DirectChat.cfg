SPECIFICATION Spec
CONSTANTS
  h1 = h1
  h2 = h2
  alice = alice
  bob = bob
  carol = carol
  Handlers <- TwoHandlers
  Users <- ThreeUsers
  Lists <- AllLists
  MaxRequests = 3
  MaxDeletes = 1
  MaxFaults = 1
SYMMETRY Interchangeable
INVARIANTS
  TypeOK
  OneChatPerPair
  AnswerIsComplete
  HalfCreatedHasOwner
