SPECIFICATION Spec
CONSTANTS
  m1 = m1  m2 = m2
  a1 = a1  a2 = a2
  u1 = u1  u2 = u2
  h1 = h1  h2 = h2
  Messages = {m1, m2}
  Answers = {a1, a2}
  Updates = {u1, u2}
  Handlers = {h1, h2}
INVARIANTS OneActionPerConsent OneWordAfterHandoff InboundCountedOnce
PROPERTY NoActionWhileStaffOwns
SYMMETRY Interchangeable
