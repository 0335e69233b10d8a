SPECIFICATION FairSpec
CONSTANTS
  a = a
  b = b
  User = {a, b}
  NoUser = NoUser
  Buffer = 2
  AnswerSizes = {1, 3}
  ChatSizes = {1, 2}
  RequestSizes = {1, 2}
  MaxRead = 2
  MaxSends = 5
  MaxChats = 2
  MaxOthers = 2
INVARIANTS TypeOK CurrentIsMapped AnswerAwaited
PROPERTIES DisplayedToAddressee FirstAnswered
\* The client may have ended.
CHECK_DEADLOCK FALSE
