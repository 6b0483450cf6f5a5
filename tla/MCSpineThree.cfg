\* Three exchanges on one pane, one crash: supersession, retry and follow-ups.
SPECIFICATION Spec
CONSTANTS
  Exchanges = {e1, e2, e3}
  ApprovalIds = {e1, e2, e3}
  Panes = {p1}
  None = None
  NoApproval = NoApproval
  MaxAttempt = 2
  MaxCrashes = 1
  StoreFaults = FALSE
SYMMETRY Symmetry
INVARIANTS
  OneInFlightPerPane
  OneOpenFollowUp
