SPECIFICATION ReadingSpec
CONSTANTS
  alice = alice
  chat = chat
  Users <- OneUser
  Chats <- OneChat
  DirectChats = {}
  Membership <- Membership1
  Null = Null
  Handlers = {h1, h2}
  ClientIds = {}
  IdFields = {"clientMessageId"}
  MaxCalls = 2
  Chat = chat
  Readers = {}
  Syncers = {s1}
  Limits = {1}
  DefaultLimit = 1
  MaxLimit = 2
  ResyncLimit = 1
INVARIANT
  ResyncMissesNothing
