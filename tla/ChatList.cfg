SPECIFICATION Spec
CONSTANTS
  None = None
  Chats = {c1, c2}
  PageSize = 1
  MaxPages = 2
  MaxMessages = 2
INVARIANTS
  ChatListAssumption
  TypeOK
  DatesExplained
  ChatsExplained
PROPERTY
  BackExplained
CHECK_DEADLOCK FALSE
