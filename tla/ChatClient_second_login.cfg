SPECIFICATION FairSpec
CONSTANTS
  a = a
  b = b
  User = {a, b}
  NoUser = NoUser
  Buffer = 2
  AnswerSizes = {1}
  ChatSizes = {1}
  RequestSizes = {1}
  MaxRead = 1
  MaxSends = 5
  MaxChats = 2
  MaxOthers = 0
PROPERTIES EveryoneAnswered
\* The client may have ended.
CHECK_DEADLOCK FALSE
