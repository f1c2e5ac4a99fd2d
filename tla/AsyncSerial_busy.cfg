\* One writer, two writes over two sessions: BusyMeansWriting is violated.
CONSTANTS
    w1 = w1
    w2 = w2
    d1 = d1
    d2 = d2
    Writers = {w1}
    Data = {d1}
    MaxWrites = 2
    MaxOpens = 2
SPECIFICATION Spec
INVARIANT BusyMeansWriting
