\* A message to a full JID racing the presence of its resource.
SPECIFICATION FairSpec
CONSTANTS
  Users = {u1}
  Conns = {c1}
  Addrs = {a1}
  MsgIds = {m1}
  Priorities = {}
  None = None
  Persistence = TRUE
  AddrReuse = FALSE
  Faulty = {}
  MaxInbox = 1
  MaxPresence = 1
  MaxRestart = 0
PROPERTIES
  OnlineIsNotPending
CHECK_DEADLOCK FALSE
