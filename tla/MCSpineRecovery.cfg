\* Two crashes, the second at any point of the boot walk; no symmetry, for liveness.
SPECIFICATION FairSpec
CONSTANTS
  Exchanges = {e1, e2}
  ApprovalIds = {e1, e2}
  Panes = {p1}
  None = None
  NoApproval = NoApproval
  MaxAttempt = 2
  MaxCrashes = 2
  StoreFaults = FALSE
PROPERTIES
  CrashIsQuarantined
