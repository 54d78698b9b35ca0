\* A connection over the address of a dead one.
SPECIFICATION Spec
CONSTANTS
  Users = {u1, u2}
  Conns = {c1, c2}
  Addrs = {a1, a2}
  MsgIds = {m1}
  Priorities = {}
  None = None
  Persistence = TRUE
  AddrReuse = TRUE
  Faulty = {}
  MaxInbox = 1
  MaxPresence = 1
  MaxRestart = 0
INVARIANTS
  RightRecipient
CHECK_DEADLOCK FALSE
