SPECIFICATION Spec
CONSTANTS
    Slots = {s1}
    Uploads = {u1, u2, u3}
    None = None
    Sizes <- MCSizes
    MaxSize = 2
    Chunks = {1, 2}
    MaxBody = 3
SYMMETRY Symmetry
INVARIANTS TypeOK SizeKept FilledIsWhole
PROPERTIES FilledStays
CHECK_DEADLOCK FALSE
