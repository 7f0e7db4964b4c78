SPECIFICATION Spec
CONSTANTS
  h1 = h1
  h2 = h2
  Handlers = {h1, h2}
  MaxRequests = 7
INVARIANTS WonHasReservation
PROPERTIES CancellationLeavesNothing ClosedIsNotWorkedAgain
SYMMETRY Interchangeable
CHECK_DEADLOCK FALSE
