------------------------ MODULE ExchangeLifecycleProofs ------------------------
(***************************************************************************)
(* Lemmas about the rules of the lifecycle, which the machine and the      *)
(* spine share: where a legal move comes from, and what each result is.    *)
(***************************************************************************)
EXTENDS ExchangeLifecycle, TLAPS

\* The legal relation read backwards: the states from which each target is legal.
LEMMA Sources ==
  ASSUME NEW s
  PROVE  /\ isLegalTransition(s, "awaiting_clarification") <=> s = "draft"
         /\ isLegalTransition(s, "awaiting_approval") <=> s = "draft"
         /\ isLegalTransition(s, "draft") <=>
              s \in {"awaiting_clarification", "awaiting_approval", "staged"}
         /\ isLegalTransition(s, "staged") <=> s \in {"draft", "awaiting_approval"}
         /\ isLegalTransition(s, "delivered") <=> s = "staged"
         /\ isLegalTransition(s, "running") <=>
              s \in {"delivered", "needs_input", "terminal_idle"}
         /\ isLegalTransition(s, "needs_input") <=> s \in {"delivered", "running"}
         /\ isLegalTransition(s, "terminal_idle") <=>
              s \in {"delivered", "running", "needs_input"}
         /\ isLegalTransition(s, "agent_complete") <=> s = "terminal_idle"
         /\ isLegalTransition(s, "agent_failed") <=>
              s \in {"delivered", "running", "needs_input", "terminal_idle"}
         /\ isLegalTransition(s, "interrupted") <=> s \in InFlight
         /\ isLegalTransition(s, "cancelled") <=> s \in CANCELLABLE_STATES
  BY DEF isLegalTransition, LEGAL_TRANSITIONS, InFlight, CANCELLABLE_STATES,
         EXCHANGE_STATES, TERMINAL_STATES

\* What each result operator stores, field by field.
LEMMA Results ==
  ASSUME NEW s \in Snapshot
  PROVE  /\ reviseDraft(s) \in Snapshot /\ reviseDraft(s).state = "draft"
         /\ resolveClarification(s) \in Snapshot /\ resolveClarification(s).state = "draft"
         /\ markDeliveryFailed(s) \in Snapshot /\ markDeliveryFailed(s).state = "draft"
         /\ reviseDraft(s).attempt = s.attempt
         /\ resolveClarification(s).attempt = s.attempt
         /\ markDeliveryFailed(s).attempt = s.attempt
         /\ \A a \in ApprovalIds :
              /\ requestApproval(s, a) \in Snapshot
              /\ requestApproval(s, a).state = "awaiting_approval"
              /\ requestApproval(s, a).approvalId = a
              /\ requestApproval(s, a).approvalVersion = s.draftVersion
              /\ requestApproval(s, a).draftVersion = s.draftVersion
              /\ requestApproval(s, a).attempt = s.attempt
         /\ markDeliveryAttempted(s) \in Snapshot
         /\ markDeliveryAttempted(s).state = s.state
         /\ markDeliveryAttempted(s).approvalId = s.approvalId
         /\ markDeliveryAttempted(s).draftVersion = s.draftVersion
         /\ markDeliveryAttempted(s).approvalVersion = s.approvalVersion
         /\ markDeliveryAttempted(s).attempt > 0
         /\ \A to \in EXCHANGE_STATES :
              /\ transition(s, to) \in Snapshot
              /\ transition(s, to).state = to
              /\ transition(s, to).approvalId = s.approvalId
              /\ transition(s, to).draftVersion = s.draftVersion
              /\ transition(s, to).approvalVersion = s.approvalVersion
              /\ transition(s, to).attempt = s.attempt
<1>0. /\ "draft" \in EXCHANGE_STATES /\ "awaiting_approval" \in EXCHANGE_STATES
      /\ s.draftVersion \in Nat /\ s.attempt \in Nat /\ s.state \in EXCHANGE_STATES \cup {"absent"}
  BY DEF EXCHANGE_STATES, Snapshot
<1>1. reviseDraft(s) \in Snapshot /\ reviseDraft(s).state = "draft"
  <2>1. Unbound(s) \in Snapshot
    BY DEF Snapshot, Unbound, NoVersion
  <2>2. s.draftVersion + 1 \in Nat
    BY <1>0
  <2> QED
    BY <1>0, <2>1, <2>2 DEF Snapshot, reviseDraft
<1>2. resolveClarification(s) \in Snapshot /\ resolveClarification(s).state = "draft"
  <2>1. transition(s, "draft") \in Snapshot /\ transition(s, "draft").state = "draft"
    BY <1>0 DEF Snapshot, transition
  <2>2. s.draftVersion + 1 \in Nat
    BY <1>0
  <2> QED
    BY <2>1, <2>2 DEF Snapshot, resolveClarification
<1>3. markDeliveryFailed(s) \in Snapshot /\ markDeliveryFailed(s).state = "draft"
  BY <1>0 DEF Snapshot, markDeliveryFailed, Unbound, NoVersion, transition
<1>4. ASSUME NEW a \in ApprovalIds
      PROVE  /\ requestApproval(s, a) \in Snapshot
             /\ requestApproval(s, a).state = "awaiting_approval"
             /\ requestApproval(s, a).approvalId = a
             /\ requestApproval(s, a).approvalVersion = s.draftVersion
             /\ requestApproval(s, a).draftVersion = s.draftVersion
             /\ requestApproval(s, a).attempt = s.attempt
  BY <1>0 DEF Snapshot, requestApproval, transition
<1>5. /\ markDeliveryAttempted(s) \in Snapshot
      /\ markDeliveryAttempted(s).state = s.state
      /\ markDeliveryAttempted(s).approvalId = s.approvalId
      /\ markDeliveryAttempted(s).draftVersion = s.draftVersion
      /\ markDeliveryAttempted(s).approvalVersion = s.approvalVersion
      /\ markDeliveryAttempted(s).attempt > 0
  BY <1>0 DEF Snapshot, markDeliveryAttempted
<1>6. ASSUME NEW to \in EXCHANGE_STATES
      PROVE  /\ transition(s, to) \in Snapshot
             /\ transition(s, to).state = to
             /\ transition(s, to).approvalId = s.approvalId
             /\ transition(s, to).draftVersion = s.draftVersion
             /\ transition(s, to).approvalVersion = s.approvalVersion
             /\ transition(s, to).attempt = s.attempt
  BY DEF Snapshot, transition
<1>7. /\ reviseDraft(s).attempt = s.attempt
      /\ resolveClarification(s).attempt = s.attempt
      /\ markDeliveryFailed(s).attempt = s.attempt
  BY DEF Snapshot, reviseDraft, resolveClarification, markDeliveryFailed, Unbound, transition
<1> QED
  BY <1>1, <1>2, <1>3, <1>4, <1>5, <1>6, <1>7

=============================================================================
