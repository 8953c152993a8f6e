SPECIFICATION FairSpec
CONSTANTS
  c1 = c1
  c2 = c2
  r1 = r1
  r2 = r2
  Members <- Everyone
  Clients <- TwoClients
  Chats = {r1, r2}
  Messages = {m1, m2}
  SendBuffer = 1
  MaxPumps = 2
  Disciplined = TRUE
INVARIANTS
  TypeOK
  CountExact
  OccupantsMissNothing
  NoPumpIsLeaked
PROPERTY
  UnusedIsClosed
