\* The mirror loses any write; one crash.
SPECIFICATION Spec
CONSTANTS
  Exchanges = {e1, e2}
  ApprovalIds = {e1, e2}
  Panes = {p1}
  None = None
  NoApproval = NoApproval
  MaxAttempt = 2
  MaxCrashes = 1
  StoreFaults = TRUE
SYMMETRY Symmetry
INVARIANTS
  TypedAtMostOnce
  EvidenceNeedsWrite
PROPERTIES
  RowMovesLegally
