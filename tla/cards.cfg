SPECIFICATION Spec
CONSTANTS
  r1 = r1
  r2 = r2
  h1 = h1
  h2 = h2
  Reservations = {r1, r2}
  Rooms = {1}
  Tasks = {t1}
  Tickets = {k1}
  Handlers = {h1}
  Jobs = {"inspect", "mark", "block", "close", "advance", "lose"}
  Horizon = 3
  TicksPerDay = 2
  Periods <- HalfDays
  Billed = {}
  Prepaid = {}
  NoRoom = NoRoom
  Nobody = Nobody
SYMMETRY Guestbook
INVARIANTS OneOccupant UnitFollowsReservation OccupiedIsNotVacant
CHECK_DEADLOCK FALSE
