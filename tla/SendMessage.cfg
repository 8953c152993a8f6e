SPECIFICATION FairSpec
CONSTANTS
  alice = alice
  bob = bob
  direct = direct
  group = group
  Users <- MCUsers
  Chats <- MCChats
  DirectChats = {direct}
  Membership <- MCMembership
  Null = Null
  Handlers = {h1, h2}
  ClientIds = {k1}
  IdFields = {"clientMessageId", "client_message_id"}
  MaxCalls = 3
INVARIANTS
  TypeOK
  UniqueClientId
  AnswersAgree
  TransactionalOutbox
  AnsweredIsStored
PROPERTIES
  ImplementsMessageLog
  FeedsOutbox
  EveryCallEnds
