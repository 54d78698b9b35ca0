\* Two hosts, each with an address of its own.
SPECIFICATION Spec
CONSTANTS
  Hosts = {h1, h2}
  Peers = {h1, h2}
  PeerOf <- OwnPeer
  Streams = {s1, s2, s3}
  MsgIds = {m1, m2, m3}
  None = None
SYMMETRY Symmetry
INVARIANTS
  TypeOK
  RightHost
  OneStreamPerHost
  SomeoneConnects
  AnnouncedIsListed
  ExactlyOnePlace
CHECK_DEADLOCK FALSE
