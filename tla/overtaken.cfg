SPECIFICATION Spec
CONSTANTS
  r1 = r1
  r2 = r2
  h1 = h1
  h2 = h2
  Reservations = {r1, r2}
  Rooms = {1}
  Tasks = {t1}
  Tickets = {}
  Handlers = {h1, h2}
  Jobs = {"pay", "cancel"}
  Horizon = 2
  TicksPerDay = 1
  Periods <- Tonight
  Billed = {r1}
  Prepaid = {r1}
  NoRoom = NoRoom
  Nobody = Nobody
SYMMETRY Colleagues
INVARIANTS DeskInv ClosedHoldsNothing CancelledRequestIsOver
PROPERTIES ClosedForever LeavesBySettledCheckOut ExpiredHoldIsFinal
CHECK_DEADLOCK FALSE
