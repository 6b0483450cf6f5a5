\* Two exchanges on two panes, one crash; the store never fails.
SPECIFICATION Spec
CONSTANTS
  Exchanges = {e1, e2}
  ApprovalIds = {e1, e2}
  Panes = {p1, p2}
  None = None
  NoApproval = NoApproval
  MaxAttempt = 2
  MaxCrashes = 1
  StoreFaults = FALSE
SYMMETRY Symmetry
INVARIANTS
  TypeOK
  TypedAtMostOnce
  IntentBeforeWrite
  EvidenceNeedsWrite
  MirrorAgrees
  ApprovalsSurvive
  DoneLineIsOwn
PROPERTIES
  RowsObeyLaw
