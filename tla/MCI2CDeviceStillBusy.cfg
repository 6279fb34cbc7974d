SPECIFICATION Spec
CONSTANTS
    Main = Main
    WorkLoop = WorkLoop
    Nobody = Nobody
    Readers = {r1}
    SharedLine = FALSE
    BufferFaulty = FALSE
PROPERTIES
    StillBusyGivesUp
