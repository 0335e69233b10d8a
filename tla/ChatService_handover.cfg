SPECIFICATION FairSpec
CONSTANTS
  a = a
  b = b
  c1 = c1
  c2 = c2
  NoUser = NoUser
  NoConn = NoConn
  NoServer = NoServer
  NoMsg = NoMsg
  Server = {s1, s2}
  User = {a, b}
  Msg = {}
  Conn = {c1, c2}
  Uses <- Uses_move
  MembersExcept <- NoRows
  Passwords = {TRUE, FALSE}
  Exclusive = TRUE
  MaxCmds = 1
  MaxBatch = 1
  MaxReqs = 1
  Faults = {}
  MaxFaults = 0
INVARIANTS RegistryAgreement OneSession MapSound InlineHasConnection
PROPERTIES LoginAnswered
\* Every client may have left.
CHECK_DEADLOCK FALSE
