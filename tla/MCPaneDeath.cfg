CONSTANTS
  m1 = m1
  i1 = i1
  Inputs = {m1, i1}
  Members = {m1}
  Other = Other
  MaxSpawns = 2
  Meetings = {{"restart"}}
  Nil = Nil
SPECIFICATION Spec
PROPERTIES
  DeathIsAnnounced
CHECK_DEADLOCK FALSE
