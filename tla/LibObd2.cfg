\* Seven commands: initPort's six and a request, or seven requests.
CONSTANT MaxRequests = 7
SPECIFICATION FairSpec
INVARIANTS TypeOK LagBounded
PROPERTIES OwnReply TimedReturns
