\* Two exchanges, two approval ids, two draft versions, two attempts.
SPECIFICATION Spec
CONSTANTS
  Exchanges = {e1, e2}
  ApprovalIds = {a1, a2}
  NoApproval = NoApproval
  MaxVersion = 2
  MaxAttempt = 2
INVARIANTS
  TypeOK
  ConsentCoversSentText
  DeliveredOnceForEver
  DeliveryHadIntent
  WaitingBindsCurrentText
PROPERTY ImplementsLaw
