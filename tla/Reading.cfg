SPECIFICATION ReadingSpec
CONSTANTS
  alice = alice
  chat = chat
  Users <- OneUser
  Chats <- OneChat
  DirectChats <- OneChat
  Membership <- Membership1
  Null = Null
  Handlers = {h1, h2}
  ClientIds = {}
  IdFields = {"clientMessageId"}
  MaxCalls = 2
  Chat = chat
  Readers = {r1}
  Syncers = {s1}
  Limits = {1}
  DefaultLimit = 1
  MaxLimit = 2
  ResyncLimit = 1
INVARIANTS
  TypeOK
  AnsweredIsFound
  ResyncMissesOnlyOvertaken
CHECK_DEADLOCK FALSE
