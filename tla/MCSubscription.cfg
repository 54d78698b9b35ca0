SPECIFICATION Spec
CONSTANTS
    a = a
    b = b
    c1 = c1
    c2 = c2
    c3 = c3
    Users = {a, b}
    Conns = {c1, c2, c3}
    UserOf <- MCUserOf
    Peers <- MCPeers
    ClientSets <- MCClientSets
    MaxStanzas = 3
SYMMETRY Symmetry
INVARIANTS
    TypeOK
    DuplicatesOverlapped
    OnlyGranted
    AskedIsStored
    OwnWritesSeen
CHECK_DEADLOCK FALSE
