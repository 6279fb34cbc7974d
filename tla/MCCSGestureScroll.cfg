SPECIFICATION FairSpec
CONSTANTS
    Positions <- MCPositions
    Samples = 2
    SamplesMin = 1
    Gain = 2
    Notch = 1
    Jump = 5
    Mul = 3
    Div = 4
    Bound = 16
INVARIANTS
    NoStaleSamples
    RestFollowsMomentum
PROPERTIES
    MomentumFromLifts
    InertiaWearsOff
    InertiaDies
