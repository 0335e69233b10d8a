SPECIFICATION FairSpec
CONSTANTS
  a = a
  b = b
  c1 = c1
  c2 = c2
  NoUser = NoUser
  NoConn = NoConn
  NoServer = NoServer
  NoMsg = NoMsg
  Server = {s1, s2}
  User = {a, b, x}
  Msg = {m1}
  Conn = {c1, c2}
  Uses <- Uses_ab
  MembersExcept <- Rows
  Passwords = {TRUE}
  Exclusive = TRUE
  MaxCmds = 1
  MaxBatch = 1
  MaxReqs = 1
  Faults = {}
  MaxFaults = 0
PROPERTIES ChatLands
\* Every client may have left.
CHECK_DEADLOCK FALSE
