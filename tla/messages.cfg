SPECIFICATION Spec
CONSTANTS
  Workers = {w1}
  w1 = w1
  w2 = w2
  Triggers = {1}
  Arrivals = {1, 2}
  Manual = {m1}
  Horizon = 1
  Resends = {}
  MaxMoves = 1
  Never = 9
  MaxReceipts = 1
  Invoice = Invoice
  Confirmation = Confirmation
  Nothing = Nothing
INVARIANTS RecordsOnlyConfirmedDelivery WaitingReminderIsCurrent
PROPERTIES ExpiredTakesNoMoney DueIsDelivered
CHECK_DEADLOCK FALSE
