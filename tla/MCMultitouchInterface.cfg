SPECIFICATION Spec
CONSTANTS
    Engines = {1, 2, 3, 4}
    Score <- MCScore
INVARIANTS
    QuietReportReachesAll
    OpensDisturbLittle
