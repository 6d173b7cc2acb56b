CONSTANTS
  t1 = t1
  t2 = t2
  a = a
  b = b
  Threads = {t1, t2}
  Sends = {a}
  Receives = {b}
  Quiet = TRUE
  Ordered = TRUE
  Most = 2
  MaxOpened = 3
  MaxRequests = 3
  MaxDelivered = 1
SPECIFICATION Spec
SYMMETRY Symmetric
CHECK_DEADLOCK FALSE
INVARIANTS
  OneUser
  AnsweredItsOwn
  AckedOnItsSession
  NoDeliveryLost
