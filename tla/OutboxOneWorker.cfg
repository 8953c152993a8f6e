SPECIFICATION FairSpec
CONSTANTS
  m1 = m1
  m2 = m2
  w1 = w1
  Workers <- OneWorker
  Events <- TwoEvents
  Messages <- TwoMessages
  Chats = {c1}
  MaxAttempts = 3
  BatchSize = 2
  MaxFaults = 4
INVARIANTS
  TypeOK
  NoSilentLoss
  DuplicatesBounded
  ExhaustedMarkedFailed
PROPERTY
  ImplementsReliableFanout
