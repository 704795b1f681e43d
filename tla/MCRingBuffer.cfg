SPECIFICATION Spec
CONSTANTS
    Capacity = 3
    MaxPayload = 3
    Ids = {a, b}
    Lengths <- MCLengths
    Garbage = Garbage
    Nothing = Nothing
INVARIANTS
    TypeOK
    IndicesAgree
    LiveSlotsWritten
PROPERTY
    ImplementsFifo
