SPECIFICATION Spec
CONSTANTS
  c1 = c1
  c2 = c2
  r1 = r1
  r2 = r2
  Members <- Everyone
  Clients <- TwoClients
  Chats = {r1}
  Messages = {m1}
  SendBuffer = 1
  MaxPumps = 3
  Disciplined = FALSE
INVARIANT
  SubscribedWhileOccupied
