\* Refuted: a retry delivers without superseding.
SPECIFICATION Spec
CONSTANTS
  Exchanges = {e1, e2}
  ApprovalIds = {e1, e2}
  Panes = {p1}
  None = None
  NoApproval = NoApproval
  MaxAttempt = 2
  MaxCrashes = 0
  StoreFaults = FALSE
INVARIANTS
  SecondDeliverySupersedes
