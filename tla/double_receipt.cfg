SPECIFICATION Spec
CONSTANTS
  Workers = {w1, w2}
  w1 = w1
  w2 = w2
  Triggers = {}
  Arrivals = {1}
  Manual = {}
  Horizon = 1
  Resends = {}
  MaxMoves = 0
  Never = 9
  MaxReceipts = 2
  Invoice = Invoice
  Confirmation = Confirmation
  Nothing = Nothing
INVARIANTS SinglePayment
SYMMETRY Colleagues
CHECK_DEADLOCK FALSE
