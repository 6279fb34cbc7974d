SPECIFICATION FairSpec
CONSTANTS
    Main = Main
    WorkLoop = WorkLoop
    Nobody = Nobody
    Readers = {r1, r2}
    SharedLine = FALSE
    BufferFaulty = TRUE
INVARIANTS
    GateExclusion
    OneTransferAtATime
    StartOnlyWhenIdle
    NoLostWakeup
    SleepingReaderNeverWoken
PROPERTIES
    TransferOwned
    SerialisesBus
    StartReturns
    ReleasesBus
    AdmittedReportClearsNotify
    NotifyRetried
