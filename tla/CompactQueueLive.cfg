CONSTANTS
    p1 = p1  p2 = p2  c1 = c1  c2 = c2
    Worker = Worker  None = None
    Paths <- TwoPaths
    Clients <- TwoClients
    MinSample = 1
    MaxOps = 4
    QuiescentStop = TRUE
SPECIFICATION FairSpec
INVARIANT ReleaseNotForgotten
PROPERTIES ReleaseServed StopReturns
CHECK_DEADLOCK FALSE
