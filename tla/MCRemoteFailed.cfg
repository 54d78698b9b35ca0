\* One host that refuses the connection.
SPECIFICATION Spec
CONSTANTS
  Hosts = {h1}
  Peers = {h1}
  PeerOf <- OwnPeer
  Streams = {s1}
  MsgIds = {m1}
  None = None
PROPERTIES
  FailureIsHandled
CHECK_DEADLOCK FALSE
