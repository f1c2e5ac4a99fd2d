\* Two writers, two payloads, two writes over two sessions; no symmetry under
\* liveness.
CONSTANTS
    w1 = w1
    w2 = w2
    d1 = d1
    d2 = d2
    Writers <- MCWriters
    Data <- MCData
    MaxWrites = 2
    MaxOpens = 2
SPECIFICATION FairSpec
INVARIANTS TypeOK StreamInOrder NoLostWakeup OneReader OneWriter ThreadJoined
PROPERTIES ChannelSpec CloseReturns FaultReported Delivered
