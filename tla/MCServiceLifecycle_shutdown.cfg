SPECIFICATION FairSpec
CONSTANTS
    h1 = h1
    h2 = h2
    g1 = g1
    g2 = g2
    Requests <- MCRequests
    Transport <- MCTransport
    Streams = {g2}
INVARIANTS TypeOK CleanExitIsDrained FailureIsReported StopIsNeverStuck
PROPERTIES ShutdownTerminates FailureIsAnnounced EveryStepCounts
