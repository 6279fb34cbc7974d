SPECIFICATION EngineSpec
INVARIANTS
    NativeWholeUntilStopped
    TimersWaitForStart
