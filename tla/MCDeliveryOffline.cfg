\* A message for an account whose only connection is gone.
SPECIFICATION Spec
CONSTANTS
  Users = {u1, u2}
  Conns = {c1, c2}
  Addrs = {a1, a2}
  MsgIds = {m1}
  Priorities = {}
  None = None
  Persistence = TRUE
  AddrReuse = FALSE
  Faulty = {}
  MaxInbox = 1
  MaxPresence = 1
  MaxRestart = 0
PROPERTIES
  OfflineMessageIsKept
CHECK_DEADLOCK FALSE
