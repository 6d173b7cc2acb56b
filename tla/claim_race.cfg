CONSTANTS
  n1 = n1
  n2 = n2
  x1 = x1
  NoNode = NoNode
  NoName = NoName
  Nodes = {n1, n2}
  Names = {x1}
  Times = {1, 2, 3}
  Most = 2
  Ordered = TRUE
  Tells = FALSE
  Overwrites = FALSE
  Failing = {}
  MaxDrops = 2
  MaxCrashes = 1
SPECIFICATION Spec
SYMMETRY Symmetric
INVARIANTS
  TypeOK
  InTurn
  NoTurnLeft
  HeldByItsCycle
  NoClaimLeft
PROPERTIES
  NotReceivedAgain
  ClaimsWhatItFound
