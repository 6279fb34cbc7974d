SPECIFICATION FairSpec
CONSTANTS
    Contacts = {2, 3, 4}
    Averages <- MCAverages
    SwipeTicks <- MCSwipeTicks
    RepeatTicks <- MCRepeatTicks
    Distance = 3
    Bound = 4
PROPERTIES
    KeysApart
    SteadySwipeTypes
