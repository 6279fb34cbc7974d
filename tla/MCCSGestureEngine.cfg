SPECIFICATION FairSpec
CONSTANTS
    Fingers = {0, 1}
    TapTicks = 2
    MoveTicks = 1
    GraceTicks = 1
    ScrollTicks = 2
    PalmTicks = 1
    FreshTicks = 2
    RecentTicks = 2
    AgeBound = 3
INVARIANTS
    ButtonOwned
PROPERTIES
    GestureOwned
    NoHandOver
    ScrollNeverTaps
    ComesToRest
