CONSTANTS
  n1 = n1
  x1 = x1
  NoNode = NoNode
  NoName = NoName
  Nodes = {n1}
  Names = {x1}
  Times = {1, 2, 3}
  Most = 2
  Ordered = FALSE
  Tells = TRUE
  Overwrites = FALSE
  Failing = {"list"}
  MaxDrops = 2
  MaxCrashes = 0
SPECIFICATION Spec
INVARIANTS
  HeldByItsCycle
