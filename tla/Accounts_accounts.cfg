SPECIFICATION FairSpec
CONSTANTS
  Worker = {w1, w2}
  Handle = {h1, h2}
  InitSize = 1
  MaxSize = 2
  n1 = n1
  n2 = n2
  n3 = n3
  p1 = p1
  Name = {n1, n2, n3}
  Password = {p1}
  Registered <- Two
  Founded <- OnesGroup
  UniqueName = FALSE
  Ops = {"reg", "login", "createGroup", "joinGroup", "addFriend", "logout"}
  MaxReqs = 2
  MaxFaults = 2
INVARIANTS TypeOK RegTruthful GroupsAdministered 
PROPERTIES PoolUsed Handled
\* The process may have crashed, or the requests be used up.
CHECK_DEADLOCK FALSE
