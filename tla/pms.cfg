SPECIFICATION FairSpec
CONSTANTS
  w1 = w1
  n1 = n1
  w2 = w2
  a = a
  b = b
  lead = lead
  Recovery = w1
  Handlers = {w2}
  Commands = {a, b}
  Requests = {lead}
  RequestOf <- OneLead
  Natives = {n1}
  None = None
  Page = 1
  Since = 2
  MaxFeed = 2
  MaxRefusals = 1
INVARIANTS OneStayPerRequest CursorCoversReceipts
PROPERTIES LeadStaysClosed ChangesArrive
CONSTRAINT InOrder
CHECK_DEADLOCK FALSE
