CONSTANTS
  Ids = {a, b}
  Chats = {c1, c2}
  NoChat = NoChat
  MaxMade = 3
SPECIFICATION Spec
INVARIANTS TypeOK ConversationsStayHome
PROPERTY ImplementsDirectory
CHECK_DEADLOCK FALSE
