CONSTANTS
  n1 = n1
  x1 = x1
  x2 = x2
  NoNode = NoNode
  NoName = NoName
  Nodes = {n1}
  Names = {x1, x2}
  Times = {1, 2, 3}
  Most = 1
  Ordered = TRUE
  Tells = FALSE
  Overwrites = FALSE
  Failing = {}
  MaxDrops = 3
  MaxCrashes = 1
SPECIFICATION LiveSpec
PROPERTIES
  EveryArtifactIsReceived
  NoClaimStays
