SPECIFICATION Spec
CONSTANTS
    N = 3
    Values <- MCValues
INVARIANTS
    SumMatches
PROPERTIES
    RemembersLast
