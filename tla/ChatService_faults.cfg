SPECIFICATION Spec
CONSTANTS
  a = a
  b = b
  c1 = c1
  c2 = c2
  NoUser = NoUser
  NoConn = NoConn
  NoServer = NoServer
  NoMsg = NoMsg
  Server = {s1, s2}
  User = {a, b}
  Msg = {m1}
  Conn = {c1, c2}
  Uses <- Uses_ab
  MembersExcept <- NoRows
  Passwords = {TRUE}
  Exclusive = TRUE
  MaxCmds = 1
  MaxBatch = 2
  MaxReqs = 2
  Faults = {"sigint", "crash"}
  MaxFaults = 1
INVARIANTS NoMisdelivery MapSound
SYMMETRY ServerSymmetry
\* Every client may have left.
CHECK_DEADLOCK FALSE
