SPECIFICATION SystemSpec
CONSTANTS
  alice = alice
  c1 = c1
  chat = chat
  w1 = w1
  w2 = w2
  Users <- OneUser
  Chats <- OneChat
  DirectChats <- OneChat
  Membership <- Membership1
  Null = Null
  Handlers = {h1}
  ClientIds = {k1}
  IdFields = {"clientMessageId"}
  MaxCalls = 1
  Workers <- OneWorker
  MaxAttempts = 2
  BatchSize = 1
  MaxFaults = 2
  Clients <- OneClient
  SendBuffer = 1
  MaxPumps = 1
  UserOf <- EveryoneAlice
INVARIANTS
  TypeOK
  EveryPublicationIsNew
  AnsweredReachesOccupants
CHECK_DEADLOCK FALSE
