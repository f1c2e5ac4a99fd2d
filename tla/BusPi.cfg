\* A FIFO of two bytes, calls of up to three, three calls.
CONSTANTS
    FifoSize = 2
    MaxLen = 3
    MaxCalls = 3
SPECIFICATION FairSpec
INVARIANTS TypeOK OkIsOwn NoOverrun OnlyMissLeavesBusy
PROPERTIES CallReturns
