CONSTANTS
    p1 = p1  p2 = p2  c1 = c1  c2 = c2
    Worker = Worker  None = None
    Paths <- TwoPaths
    Clients <- TwoClients
    MinSample = 1
    MaxOps = 5
    QuiescentStop = FALSE
SPECIFICATION Spec
SYMMETRY Symmetry
INVARIANTS TypeOK TicketTracked EvidenceConserved OneRequestPerPath QueueServed
CHECK_DEADLOCK FALSE
