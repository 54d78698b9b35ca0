\* Fair scheduling; stanzas whose handlers fail; no symmetry.
SPECIFICATION FairSpec
CONSTANTS
  Users = {u1}
  Conns = {c1, c2}
  Addrs = {a1, a2}
  MsgIds = {m1}
  Priorities = {1}
  None = None
  Persistence = TRUE
  AddrReuse = FALSE
  Faulty = {c1}
  MaxInbox = 1
  MaxPresence = 1
  MaxRestart = 0
PROPERTIES
  AcceptedIsSettled
CHECK_DEADLOCK FALSE
