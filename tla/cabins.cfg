SPECIFICATION Spec
CONSTANTS
  r1 = r1
  r2 = r2
  h1 = h1
  h2 = h2
  Reservations = {r1, r2}
  Rooms = {1, 2}
  Tasks = {t1}
  Tickets = {}
  Handlers = {h1}
  Jobs = {"cancel", "further"}
  Horizon = 2
  TicksPerDay = 1
  Periods <- SharedNight
  Billed = {}
  Prepaid = {}
  NoRoom = NoRoom
  Nobody = Nobody
SYMMETRY Guestbook
INVARIANTS DeskInv NoDoubleBooking OccupantHoldsUnit RoomCardNamesOccupant
PROPERTIES KeepsCalendar
CHECK_DEADLOCK FALSE
