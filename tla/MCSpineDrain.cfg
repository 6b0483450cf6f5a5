\* Refuted: Full Auto promotion drops the approval and not the exchange.
SPECIFICATION Spec
CONSTANTS
  Exchanges = {e1}
  ApprovalIds = {e1}
  Panes = {p1}
  None = None
  NoApproval = NoApproval
  MaxAttempt = 2
  MaxCrashes = 0
  StoreFaults = FALSE
INVARIANTS
  WaitingHasApproval
