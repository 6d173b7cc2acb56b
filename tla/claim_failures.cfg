CONSTANTS
  n1 = n1
  x1 = x1
  NoNode = NoNode
  NoName = NoName
  Nodes = {n1}
  Names = {x1}
  Times = {1, 2}
  Most = 2
  Ordered = FALSE
  Tells = TRUE
  Overwrites = TRUE
  Failing = {"list", "take_turn", "stamp", "rename", "drop_turn", "restore", "delete"}
  MaxDrops = 2
  MaxCrashes = 1
SPECIFICATION Spec
INVARIANTS
  Conservation
PROPERTIES
  KeepsCustody
