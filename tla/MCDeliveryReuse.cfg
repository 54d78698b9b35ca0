\* Addresses come back: three connections over two addresses.
SPECIFICATION Spec
CONSTANTS
  Users = {u1}
  Conns = {c1, c2, c3}
  Addrs = {a1, a2}
  MsgIds = {m1}
  Priorities = {}
  None = None
  Persistence = TRUE
  AddrReuse = TRUE
  Faulty = {}
  MaxInbox = 1
  MaxPresence = 2
  MaxRestart = 0
SYMMETRY Symmetry
INVARIANTS
  AtMostOnce
  FullJidOneConnection
  AvailableIsOnline
CHECK_DEADLOCK FALSE
