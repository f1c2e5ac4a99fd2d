\* The daemon with the 5 rounds of the code and its one session.
CONSTANTS
    main1 = main1
    query = query
    Writers <- MCWriters
    Data <- MCData
    Main = main1
    Query = query
    Polls = 5
    MaxWrites = 5
    MaxOpens = 1
SPECIFICATION CarPiFairSpec
INVARIANTS CarPiTypeOK OneQueryPerRound
PROPERTIES PortKept QuietAfterClear PollingReturns
