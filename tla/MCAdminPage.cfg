SPECIFICATION Spec
CONSTANTS
    empty = empty
    ann = ann
    Names = {empty, ann}
    Empty = empty
    Items = {i1}
    Clients = {c1}
    Matches <- MCMatches
    MaxInserted = 2
    MaxRequests = 5
    MaxInFlight = 2
    MaxVisits = 2
INVARIANTS
    TypeOK
    DuplicatesOverlapped
    DeletedNotShown
    DialogShowsSelected
    ShownOrLater
CHECK_DEADLOCK FALSE
