CONSTANTS
  m1 = m1
  i1 = i1
  Inputs = {m1, i1}
  Members = {m1}
  Other = Other
  MaxSpawns = 2
  Meetings = {{"group", "restart"}, {"restart", "mode"}, {"restart", "archive", "halt"}, {"mode", "delete"}}
  Nil = Nil
SPECIFICATION Spec
INVARIANTS
  TypeOK
  OneProcess
  LiveIsNotExited
  EnterFollowsBody
  TypedAtMostOncePerInput
  RestartNeverGhosts
  MembersOwnTheirEdges
CHECK_DEADLOCK FALSE
