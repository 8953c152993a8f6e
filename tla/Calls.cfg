SPECIFICATION CallsSpec
CONSTANTS
  a1 = a1
  a2 = a2
  b1 = b1
  alice = alice
  bob = bob
  Clients <- MCClients
  Users <- MCUsers
  Ids <- MCIds
  Peers = {p1}
  None = None
  MaxDrops = 1
  MaxCalls = 1
SYMMETRY MCSymmetry
INVARIANTS
  CallsTypeOK
  NoGhostSockets
  ShownOnlineIsOnline
  OnlineIsShown
  PeersAreOnline
PROPERTIES
  CallIsSettled
