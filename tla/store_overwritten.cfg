CONSTANTS
  r1 = r1
  r2 = r2
  k1 = k1
  k2 = k2
  Records = 3
  MostRead = 2
  MaxOut = 2
  MaxUndone = 2
  MaxSet = 1
  Count = 3
  Tables = {FALSE}
  Places = 2
  Most = 1
  Overwrites = TRUE
  MaxWritten = 3
  MaxStorms = 1
  Receives = {r1, r2}
  AtOnce = 1
  MaxBacklog = 2
  MaxFaults = 1
  Clients = {k1, k2}
  Poke = Poke
  MaxQueue = 2
  s1 = s1
  s2 = s2
  l1 = l1
  l2 = l2
  e1 = e1
  e2 = e2
  e3 = e3
  v4 = v4
  v6 = v6
  f1 = f1
  f2 = f2
  a = a
  b = b
  Sends = {s1, s2}
  Starts = {l1, l2}
  MaxDeaths = 1
  MaxRefusals = 1
  Exchanges = {e1, e2, e3}
  Families = {v4, v6}
  DrainMost = 2
  FarEnds = {f1, f2}
  Keys = {a, b}
  NoKey = NoKey
  SpoiltKey = SpoiltKey
  MaxLines = 4
  MaxTroubles = 2
  MaxBytes = 5
  MaxPiece = 3
  MaxChunk = 2
  MaxChunks = 3
  CR = CR
  LF = LF
  Dot = Dot
  Bytes = {CR, LF, Dot}
  MaxBody = 3
  MaxBlocks = 2
  MaxBlock = 3
  MaxWire = 10
  Rounds = {s1, s2}
SPECIFICATION Spec
CHECK_DEADLOCK FALSE
INVARIANTS
  DeletedWasAccepted
