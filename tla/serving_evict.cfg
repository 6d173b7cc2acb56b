CONSTANTS
  c1 = c1
  c2 = c2
  c3 = c3
  Conns = {c1, c2, c3}
  MostKept = 2
  Parts = TRUE
  Leaves = TRUE
  Timed = TRUE
  Breaks = TRUE
  MaxSaid = 2
  Speakers = {c1, c2}
  Talkers = {c1}
  MaxInbox = 1
SPECIFICATION Spec
INVARIANTS
  TurnIsReady
  OneAnswerOwed
  NoWordLost
  LeftByAFailedWriteOnly
