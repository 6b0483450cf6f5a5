\* Refuted: an approval that survived a restart is written uncovered.
SPECIFICATION Spec
CONSTANTS
  Exchanges = {e1}
  ApprovalIds = {e1}
  Panes = {p1}
  None = None
  NoApproval = NoApproval
  MaxAttempt = 2
  MaxCrashes = 1
  StoreFaults = FALSE
INVARIANTS
  ApprovedWriteIsCovered
