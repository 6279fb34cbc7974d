SPECIFICATION Spec
CONSTANTS
    t1 = t1
    t2 = t2
    Threads <- const_Threads
SYMMETRY Symmetry
INVARIANTS
    QuietUntilTerminated
    GateProtects
\* A device that was freed does nothing more.
CHECK_DEADLOCK FALSE
