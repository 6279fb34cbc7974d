SPECIFICATION ProtocolSpec
CONSTANTS
    Clients = {c1, c2, c3}
    Asked <- MCAsked
SYMMETRY MCSymmetry
INVARIANTS
    OwnAnswer
    AnswersOwned
