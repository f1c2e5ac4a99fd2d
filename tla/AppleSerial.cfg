\* Two writers and three sessions.
CONSTANTS
    Writers = {w1, w2}
    MaxOpens = 3
SPECIFICATION FairSpec
INVARIANTS TypeOK NoFalseAlarm LossReported ThreadJoined
PROPERTIES CloseReturns FaultNoticed
