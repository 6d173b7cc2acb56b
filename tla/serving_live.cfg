CONSTANTS
  c1 = c1
  c2 = c2
  c3 = c3
  Conns = {c1, c2, c3}
  MostKept = 2
  Parts = TRUE
  Leaves = FALSE
  Timed = FALSE
  Breaks = TRUE
  MaxSaid = 1
  Speakers = {c1, c2}
  Talkers = {c1}
  MaxInbox = 2
CHECK_DEADLOCK FALSE
SPECIFICATION LiveSpec
PROPERTIES
  EverythingSaidIsTaken
  AcceptedOnceReadersRunDry
