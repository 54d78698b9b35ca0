\* Every address is used once; two accounts, a restart.
SPECIFICATION Spec
CONSTANTS
  Users = {u1, u2}
  Conns = {c1, c2}
  Addrs = {a1, a2}
  MsgIds = {m1}
  Priorities = {}
  None = None
  Persistence = TRUE
  AddrReuse = FALSE
  Faulty = {}
  MaxInbox = 2
  MaxPresence = 2
  MaxRestart = 1
SYMMETRY Symmetry
INVARIANTS
  TypeOK
  OnlineIffAvailable
  RightRecipient
PROPERTIES
  OnlyAvailableReceive
  ImplementsMailbox
CHECK_DEADLOCK FALSE
