SPECIFICATION Spec
CONSTANTS
  a = a
  b = b
  c1 = c1
  c2 = c2
  NoUser = NoUser
  NoConn = NoConn
  NoServer = NoServer
  NoMsg = NoMsg
  Server = {s1}
  User = {a, b}
  Msg = {m1, m2}
  Conn = {c1, c2}
  Uses <- Uses_ab
  MembersExcept <- NoRows
  Passwords = {TRUE}
  Exclusive = TRUE
  MaxCmds = 1
  MaxBatch = 1
  MaxReqs = 1
  Faults = {}
  MaxFaults = 0
PROPERTIES OnlyReadIsRemoved
\* Every client may have left.
CHECK_DEADLOCK FALSE
