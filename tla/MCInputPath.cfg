SPECIFICATION PathSpec
CONSTANTS
    Fingers = 3
    LowByte = 2
    Byte = 4
    Word = 4
    MaxY = 2
    Rest = {0, 1}
    Reports <- MCReports
INVARIANTS
    TypeOK
    ShowsLastReport
    NothingHidden
    NoStuckTouch
    PackedContactsShown
    NoGhostContact
    LiftedContactsForgotten
