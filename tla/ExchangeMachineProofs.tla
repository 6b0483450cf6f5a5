------------------------- MODULE ExchangeMachineProofs -------------------------
(***************************************************************************)
(* Proofs about ExchangeMachine for every set of exchanges and approvals   *)
(* and every bound.  The safety invariants are inductive together: the     *)
(* consent property needs the binding of the waiting state, the typing of  *)
(* the delivery count needs that a delivered exchange is never staged.     *)
(* From the same invariant, the machine implements the law (Refinement).   *)
(***************************************************************************)
EXTENDS ExchangeMachine, ExchangeLifecycleProofs, TLAPS

\* No attempt is recorded for an exchange the machine does not know.
UnknownIsBlank == \A e \in Exchanges : StateOf(e) = "absent" => exchanges[e].attempt = 0

IInv ==
  /\ TypeOK
  /\ UnknownIsBlank
  /\ WaitingBindsCurrentText
  /\ ConsentCoversSentText
  /\ DeliveredOnceForEver
  /\ DeliveryHadIntent

-----------------------------------------------------------------------------

\* The initial state satisfies the inductive invariant.
LEMMA InitInv == Init => IInv
  BY DEF Init, IInv, TypeOK, UnknownIsBlank, WaitingBindsCurrentText, ConsentCoversSentText,
         DeliveredOnceForEver, DeliveryHadIntent, Snapshot, Absent, NoVersion,
         NoConsent, StateOf, Sent, InFlight

\* What one exchange must satisfy: the invariant, exchange by exchange.
Holds(s, c, n) ==
  /\ s \in Snapshot
  /\ c \in (ApprovalIds \X Nat) \cup {NoConsent}
  /\ n \in {0, 1}
  /\ s.state = "absent" => s.attempt = 0
  /\ s.state = "awaiting_approval" =>
       s.approvalId \in ApprovalIds /\ s.approvalVersion = s.draftVersion
  /\ s.state \in Sent /\ c # NoConsent => c = <<s.approvalId, s.draftVersion>>
  /\ n = 1 => s.state \in (Sent \ {"staged"}) \cup {"cancelled"}
  /\ n > 0 => s.attempt > 0

LEMMA InvPointwise ==
  IInv <=> /\ exchanges = [e \in Exchanges |-> exchanges[e]]
           /\ consent = [e \in Exchanges |-> consent[e]]
           /\ landed = [e \in Exchanges |-> landed[e]]
           /\ \A e \in Exchanges : Holds(exchanges[e], consent[e], landed[e])
  BY DEF IInv, TypeOK, UnknownIsBlank, WaitingBindsCurrentText, ConsentCoversSentText,
         DeliveredOnceForEver, DeliveryHadIntent, StateOf, Holds

\* A step that touches one exchange keeps the invariant when it keeps it there.
LEMMA OneExchange ==
  ASSUME IInv, NEW e \in Exchanges, NEW s, NEW c, NEW n,
         exchanges' = [exchanges EXCEPT ![e] = s],
         consent' = [consent EXCEPT ![e] = c],
         landed' = [landed EXCEPT ![e] = n],
         Holds(s, c, n)
  PROVE  IInv'
<1>1. /\ exchanges' = [x \in Exchanges |-> exchanges'[x]]
      /\ consent' = [x \in Exchanges |-> consent'[x]]
      /\ landed' = [x \in Exchanges |-> landed'[x]]
  BY InvPointwise
<1>2. ASSUME NEW x \in Exchanges PROVE Holds(exchanges'[x], consent'[x], landed'[x])
  BY InvPointwise, <1>2
<1> QED
  BY <1>1, <1>2
  DEF IInv, TypeOK, UnknownIsBlank, WaitingBindsCurrentText, ConsentCoversSentText,
      DeliveredOnceForEver, DeliveryHadIntent, StateOf, Holds

\* A bare transition keeps an exchange good when it does not enter the waiting state,
\* enters the sent states only from one of them, and takes a landed exchange only to
\* where a landed exchange may be.
LEMMA Moved ==
  ASSUME NEW s, NEW c, NEW n, NEW m \in {0, 1}, NEW to \in EXCHANGE_STATES,
         Holds(s, c, n),
         to # "awaiting_approval",
         to \in Sent => s.state \in Sent,
         m = 1 => to \in (Sent \ {"staged"}) \cup {"cancelled"},
         m > 0 => s.attempt > 0
  PROVE  Holds(transition(s, to), c, m)
<1>1. s \in Snapshot
  BY DEF Holds
<1>2. /\ transition(s, to) \in Snapshot
      /\ transition(s, to).state = to
      /\ transition(s, to).approvalId = s.approvalId
      /\ transition(s, to).draftVersion = s.draftVersion
      /\ transition(s, to).attempt = s.attempt
  BY <1>1, Results
<1>3. to # "absent"
  BY DEF EXCHANGE_STATES
<1> QED
  BY <1>2, <1>3 DEF Holds

\* A call that stores a snapshot and touches no history keeps the invariant.
LEMMA StoreOnly ==
  ASSUME IInv, NEW e \in Exchanges, NEW s, Stored(e, s), UNCHANGED <<consent, landed>>,
         Holds(s, consent[e], landed[e])
  PROVE  IInv'
<1>1. /\ consent' = [consent EXCEPT ![e] = consent[e]]
      /\ landed' = [landed EXCEPT ![e] = landed[e]]
  BY InvPointwise
<1> QED
  BY <1>1, OneExchange DEF Stored

\* Every call of the machine keeps the inductive invariant.
LEMMA NextInv == IInv /\ [Next]_vars => IInv'
<1> SUFFICES ASSUME IInv, [Next]_vars PROVE IInv'
  OBVIOUS
<1>0. \A e \in Exchanges : Holds(exchanges[e], consent[e], landed[e])
  BY InvPointwise
<1>s. /\ Sent = {"staged", "delivered", "running", "needs_input", "terminal_idle",
                 "agent_complete", "agent_failed", "interrupted"}
      /\ MarkTargets \subseteq EXCHANGE_STATES
      /\ {"draft", "awaiting_clarification", "awaiting_approval", "staged", "delivered"}
           \subseteq EXCHANGE_STATES
  BY DEF Sent, InFlight, MarkTargets, EXCHANGE_STATES
<1>1. ASSUME NEW e \in Exchanges, Create(e) PROVE IInv'
  <2>1. landed[e] = 0
    BY <1>0, <1>1, <1>s DEF Holds, Create, StateOf
  <2>2. Holds(create, consent[e], landed[e])
    BY <1>0, <2>1, <1>s DEF Holds, create, Snapshot, NoVersion
  <2> QED
    BY <1>1, <2>2, StoreOnly DEF Create
<1>2. ASSUME NEW e \in Exchanges, ReviseDraft(e) PROVE IInv'
  <2>1. Holds(reviseDraft(exchanges[e]), consent[e], landed[e])
    BY <1>0, <1>2, <1>s, Results DEF Holds, ReviseDraft, reviseDraftOk
  <2> QED
    BY <1>2, <2>1, StoreOnly DEF ReviseDraft
<1>3. ASSUME NEW e \in Exchanges, RequestClarification(e) PROVE IInv'
  <2>1. StateOf(e) = "draft"
    BY <1>3, Sources DEF RequestClarification, requestClarificationOk, transitionOk, StateOf
  <2>2. landed[e] = 0
    BY <1>0, <1>s, <2>1 DEF Holds, StateOf
  <2>3. Holds(requestClarification(exchanges[e]), consent[e], landed[e])
    BY <1>0, <1>s, <2>2, Moved DEF requestClarification
  <2> QED
    BY <1>3, <2>3, StoreOnly DEF RequestClarification
<1>4. ASSUME NEW e \in Exchanges, ResolveClarification(e) PROVE IInv'
  <2>1. Holds(resolveClarification(exchanges[e]), consent[e], landed[e])
    BY <1>0, <1>4, <1>s, Results, Sources
    DEF Holds, ResolveClarification, resolveClarificationOk, transitionOk
  <2> QED
    BY <1>4, <2>1, StoreOnly DEF ResolveClarification
<1>5. ASSUME NEW e \in Exchanges, NEW a \in ApprovalIds, RequestApproval(e, a) PROVE IInv'
  <2>1. exchanges[e].state = "draft"
    BY <1>5, Sources DEF RequestApproval, requestApprovalOk, transitionOk
  <2>2. landed[e] = 0
    BY <1>0, <1>s, <2>1 DEF Holds
  <2>3. Holds(requestApproval(exchanges[e], a), consent[e], landed[e])
    BY <1>0, <1>s, <2>2, Results DEF Holds
  <2> QED
    BY <1>5, <2>3, StoreOnly DEF RequestApproval
<1>6. ASSUME NEW e \in Exchanges, NEW a \in ApprovalIds, NEW version \in 1..MaxVersion,
             ConfirmApproval(e, a, version)
      PROVE  IInv'
  <2>1. Holds(confirmApproval(exchanges[e]), <<a, version>>, landed[e])
    BY <1>0, <1>6, <1>s, Results, BoundsAssumption
    DEF Holds, ConfirmApproval, confirmApprovalOk, confirmApproval, Snapshot
  <2>2. landed' = [landed EXCEPT ![e] = landed[e]]
    BY <1>6, InvPointwise DEF ConfirmApproval
  <2> QED
    BY <1>6, <2>1, <2>2, OneExchange DEF ConfirmApproval, Stored
<1>7. ASSUME NEW e \in Exchanges, StageAutoExecute(e) PROVE IInv'
  <2>1. Holds(stageAutoExecute(exchanges[e]), NoConsent, landed[e])
    BY <1>0, <1>7, <1>s, Results, Sources
    DEF Holds, StageAutoExecute, stageAutoExecuteOk, stageAutoExecute, transitionOk
  <2>2. landed' = [landed EXCEPT ![e] = landed[e]]
    BY <1>7, InvPointwise DEF StageAutoExecute
  <2> QED
    BY <1>7, <2>1, <2>2, OneExchange DEF StageAutoExecute, Stored
<1>8. ASSUME NEW e \in Exchanges, MarkDeliveryAttempted(e) PROVE IInv'
  <2>1. Holds(markDeliveryAttempted(exchanges[e]), consent[e], landed[e])
    BY <1>0, <1>8, <1>s, Results
    DEF Holds, MarkDeliveryAttempted, markDeliveryAttemptedOk
  <2> QED
    BY <1>8, <2>1, StoreOnly DEF MarkDeliveryAttempted
<1>9. ASSUME NEW e \in Exchanges, MarkDelivered(e) PROVE IInv'
  <2>1. landed[e] = 0 /\ exchanges[e].attempt > 0
    BY <1>0, <1>9, <1>s DEF Holds, MarkDelivered, markDeliveredOk, Snapshot
  <2>2. Holds(markDelivered(exchanges[e]), consent[e], 1)
    BY <1>0, <1>9, <1>s, <2>1, Moved DEF MarkDelivered, markDeliveredOk, markDelivered
  <2>3. consent' = [consent EXCEPT ![e] = consent[e]]
    BY <1>9, InvPointwise DEF MarkDelivered
  <2>4. landed' = [landed EXCEPT ![e] = 1]
    BY <1>9, <2>1 DEF MarkDelivered
  <2>5. exchanges' = [exchanges EXCEPT ![e] = markDelivered(exchanges[e])]
    BY <1>9 DEF MarkDelivered, Stored
  <2> QED
    BY <2>2, <2>3, <2>4, <2>5, OneExchange
<1>10. ASSUME NEW e \in Exchanges, MarkDeliveryFailed(e) PROVE IInv'
  <2>1. Holds(markDeliveryFailed(exchanges[e]), consent[e], landed[e])
    BY <1>0, <1>10, <1>s, Results, Sources
    DEF Holds, MarkDeliveryFailed, markDeliveryFailedOk, transitionOk
  <2> QED
    BY <1>10, <2>1, StoreOnly DEF MarkDeliveryFailed
<1>11. ASSUME NEW e \in Exchanges, NEW to \in MarkTargets, Mark(e, to) PROVE IInv'
  <2>1. isLegalTransition(StateOf(e), to)
    BY <1>11 DEF Mark, transitionOk, StateOf
  <2>2. /\ to \in EXCHANGE_STATES
        /\ to # "awaiting_approval"
        /\ to \in (Sent \ {"staged"}) \cup {"cancelled"}
        /\ to \in Sent => StateOf(e) \in Sent
    BY <1>s, <2>1, Sources DEF MarkTargets, InFlight
  <2>3. landed[e] \in {0, 1} /\ (landed[e] > 0 => exchanges[e].attempt > 0)
    BY <1>0 DEF Holds
  <2>4. Holds(transition(exchanges[e], to), consent[e], landed[e])
    BY <1>0, <2>2, <2>3, Moved DEF StateOf
  <2> QED
    BY <1>11, <2>4, StoreOnly DEF Mark
<1>12. ASSUME RecoverOnBoot PROVE IInv'
  <2>1. ASSUME NEW e \in Exchanges
        PROVE  Holds(exchanges'[e], consent'[e], landed'[e])
    <3>1. CASE StateOf(e) \in InFlight
      <4>1. exchanges'[e] = transition(exchanges[e], "interrupted")
        BY <1>12, <3>1 DEF RecoverOnBoot, recoveryDisposition
      <4>2. "interrupted" \in EXCHANGE_STATES /\ StateOf(e) \in Sent
        BY <3>1 DEF EXCHANGE_STATES, Sent
      <4>3. landed[e] \in {0, 1} /\ (landed[e] > 0 => exchanges[e].attempt > 0)
        BY <1>0 DEF Holds
      <4>4. Holds(transition(exchanges[e], "interrupted"), consent[e], landed[e])
        BY <1>0, <1>s, <4>2, <4>3, Moved DEF StateOf
      <4> QED
        BY <1>12, <4>1, <4>4 DEF RecoverOnBoot
    <3>2. CASE StateOf(e) \notin InFlight
      BY <1>0, <1>12, <3>2 DEF RecoverOnBoot, recoveryDisposition
    <3> QED
      BY <3>1, <3>2
  <2>2. /\ exchanges' = [x \in Exchanges |-> exchanges'[x]]
        /\ consent' = [x \in Exchanges |-> consent'[x]]
        /\ landed' = [x \in Exchanges |-> landed'[x]]
    BY <1>12, InvPointwise DEF RecoverOnBoot
  <2> QED
    BY <2>1, <2>2
    DEF IInv, TypeOK, UnknownIsBlank, WaitingBindsCurrentText, ConsentCoversSentText,
        DeliveredOnceForEver, DeliveryHadIntent, StateOf, Holds
<1>13. CASE UNCHANGED vars
  BY <1>13 DEF vars, IInv, TypeOK, UnknownIsBlank, WaitingBindsCurrentText, ConsentCoversSentText,
               DeliveredOnceForEver, DeliveryHadIntent, StateOf
<1> QED
  BY <1>1, <1>2, <1>3, <1>4, <1>5, <1>6, <1>7, <1>8, <1>9, <1>10, <1>11, <1>12, <1>13
  DEF Next

\* The inductive invariant holds in every reachable state.
THEOREM Invariance == Spec => []IInv
<1>1. Init => IInv
  BY InitInv
<1>2. IInv /\ [Next]_vars => IInv'
  BY NextInv
<1> QED
  BY <1>1, <1>2, PTL DEF Spec

\* Type correctness of the machine, for every set of exchanges and approvals.
THEOREM TypeCorrect == Spec => []TypeOK
<1>1. IInv => TypeOK
  BY DEF IInv
<1> QED
  BY <1>1, Invariance, PTL

\* Whatever was confirmed is exactly what is in flight (confirmApproval's compare-and-set).
THEOREM ConsentCovers == Spec => []ConsentCoversSentText
<1>1. IInv => ConsentCoversSentText
  BY DEF IInv
<1> QED
  BY <1>1, Invariance, PTL

\* An exchange is delivered at most once in its life and never un-delivered.
THEOREM DeliveredOnce == Spec => []DeliveredOnceForEver
<1>1. IInv => DeliveredOnceForEver
  BY DEF IInv
<1> QED
  BY <1>1, Invariance, PTL

\* Nothing is called delivered without a recorded attempt.
THEOREM IntentFirst == Spec => []DeliveryHadIntent
<1>1. IInv => DeliveryHadIntent
  BY DEF IInv
<1> QED
  BY <1>1, Invariance, PTL

\* A waiting approval is bound to the text of now (requestApproval, reviseDraft).
THEOREM WaitingBinds == Spec => []WaitingBindsCurrentText
<1>1. IInv => WaitingBindsCurrentText
  BY DEF IInv
<1> QED
  BY <1>1, Invariance, PTL

-----------------------------------------------------------------------------
(* The machine implements the law.  One exchange at a time: snapshot s with   *)
(* delivery count n may become t with m.                                      *)

Lawful(s, n, t, m) ==
  \/ t.state = s.state /\ (t.attempt > 0) = (s.attempt > 0) /\ (m > 0) = (n > 0)
  \/ /\ s.state = "absent" /\ t.state = "draft"
     /\ (t.attempt > 0) = (s.attempt > 0) /\ (m > 0) = (n > 0)
  \/ s.state = "staged" /\ t.state = "staged" /\ t.attempt > 0 /\ (m > 0) = (n > 0)
  \/ /\ s.state = "staged" /\ t.state = "delivered"
     /\ s.attempt > 0 /\ ~(n > 0) /\ t.attempt > 0 /\ m > 0
  \/ /\ isLegalTransition(s.state, t.state) /\ t.state # "delivered"
     /\ (t.attempt > 0) = (s.attempt > 0) /\ (m > 0) = (n > 0)

\* The law's steps, read on the machine's variables.
LEMMA LawStepOf ==
  ASSUME NEW e \in Exchanges, Lawful(exchanges[e], landed[e], exchanges'[e], landed'[e])
  PROVE  Law!LawStep(e)
  BY DEF Lawful, Law!LawStep, Law!Stays, Law!Appears, Law!Arms, Law!Delivers, Law!Moves,
         Law!isLegalTransition, isLegalTransition,
         Law!LEGAL_TRANSITIONS, LEGAL_TRANSITIONS, Law!InFlight, InFlight,
         Law!CANCELLABLE_STATES, CANCELLABLE_STATES,
         Law!EXCHANGE_STATES, EXCHANGE_STATES, Law!TERMINAL_STATES, TERMINAL_STATES

\* Every call of the machine moves every exchange lawfully.
LEMMA NextLawful ==
  ASSUME IInv, [Next]_vars, NEW x \in Exchanges
  PROVE  Lawful(exchanges[x], landed[x], exchanges'[x], landed'[x])
<1>0. \A e \in Exchanges : Holds(exchanges[e], consent[e], landed[e])
  BY InvPointwise
<1>f. /\ exchanges = [e \in Exchanges |-> exchanges[e]]
      /\ landed = [e \in Exchanges |-> landed[e]]
  BY InvPointwise
<1>s. MarkTargets \cup {"draft", "awaiting_clarification", "awaiting_approval",
                        "staged", "delivered"} \subseteq EXCHANGE_STATES
  BY DEF MarkTargets, EXCHANGE_STATES
<1>u. ASSUME exchanges'[x] = exchanges[x], landed'[x] = landed[x]
      PROVE  Lawful(exchanges[x], landed[x], exchanges'[x], landed'[x])
  BY <1>u DEF Lawful
\* A call about e that leaves the count alone: lawful for e, hence lawful for x.
<1>o. ASSUME NEW e \in Exchanges, NEW s, Stored(e, s), UNCHANGED landed,
             Lawful(exchanges[e], landed[e], s, landed[e])
      PROVE  Lawful(exchanges[x], landed[x], exchanges'[x], landed'[x])
  <2>1. CASE x = e
    BY <1>f, <1>o, <2>1 DEF Stored
  <2>2. CASE x # e
    BY <1>f, <1>o, <1>u, <2>2 DEF Stored
  <2> QED
    BY <2>1, <2>2
<1>t. ASSUME NEW e \in Exchanges, NEW to \in EXCHANGE_STATES, to # "delivered",
             isLegalTransition(StateOf(e), to)
      PROVE  Lawful(exchanges[e], landed[e], transition(exchanges[e], to), landed[e])
  <2>1. exchanges[e] \in Snapshot
    BY <1>0 DEF Holds
  <2>2. /\ transition(exchanges[e], to).state = to
        /\ transition(exchanges[e], to).attempt = exchanges[e].attempt
    BY <2>1, Results
  <2> QED
    BY <1>t, <2>2 DEF Lawful, StateOf
<1>1. ASSUME NEW e \in Exchanges, Create(e)
      PROVE  Lawful(exchanges[x], landed[x], exchanges'[x], landed'[x])
  <2>1. Lawful(exchanges[e], landed[e], create, landed[e])
    BY <1>0, <1>1 DEF Holds, Create, StateOf, create, Lawful
  <2> QED
    BY <1>1, <1>o, <2>1 DEF Create
<1>2. ASSUME NEW e \in Exchanges, ReviseDraft(e)
      PROVE  Lawful(exchanges[x], landed[x], exchanges'[x], landed'[x])
  \* In a draft the state stays; a waiting exchange goes back to draft.
  <2>1. exchanges[e].state \in {"draft", "awaiting_approval"}
    BY <1>2 DEF ReviseDraft, reviseDraftOk
  <2>2. isLegalTransition("awaiting_approval", "draft")
    BY DEF isLegalTransition, LEGAL_TRANSITIONS
  <2>3. Lawful(exchanges[e], landed[e], reviseDraft(exchanges[e]), landed[e])
    BY <1>0, <2>1, <2>2, Results DEF Holds, Lawful
  <2> QED
    BY <1>2, <1>o, <2>3 DEF ReviseDraft
<1>3. ASSUME NEW e \in Exchanges, RequestClarification(e)
      PROVE  Lawful(exchanges[x], landed[x], exchanges'[x], landed'[x])
  BY <1>3, <1>o, <1>s, <1>t
  DEF RequestClarification, requestClarificationOk, requestClarification, transitionOk, StateOf
<1>4. ASSUME NEW e \in Exchanges, ResolveClarification(e)
      PROVE  Lawful(exchanges[x], landed[x], exchanges'[x], landed'[x])
  <2>1. Lawful(exchanges[e], landed[e], resolveClarification(exchanges[e]), landed[e])
    BY <1>0, <1>4, Results
    DEF Holds, Lawful, ResolveClarification, resolveClarificationOk, transitionOk
  <2> QED
    BY <1>4, <1>o, <2>1 DEF ResolveClarification
<1>5. ASSUME NEW e \in Exchanges, NEW a \in ApprovalIds, RequestApproval(e, a)
      PROVE  Lawful(exchanges[x], landed[x], exchanges'[x], landed'[x])
  <2>1. Lawful(exchanges[e], landed[e], requestApproval(exchanges[e], a), landed[e])
    <3>1. exchanges[e] \in Snapshot
      BY <1>0 DEF Holds
    <3>2. isLegalTransition(exchanges[e].state, "awaiting_approval")
      BY <1>5 DEF RequestApproval, requestApprovalOk, transitionOk
    <3>3. /\ requestApproval(exchanges[e], a).state = "awaiting_approval"
          /\ requestApproval(exchanges[e], a).attempt = exchanges[e].attempt
      BY <3>1 DEF Snapshot, requestApproval, transition
    <3> QED
      BY <3>2, <3>3 DEF Lawful
  <2> QED
    BY <1>5, <1>o, <2>1 DEF RequestApproval
<1>6. ASSUME NEW e \in Exchanges, NEW a \in ApprovalIds, NEW version \in 1..MaxVersion,
             ConfirmApproval(e, a, version)
      PROVE  Lawful(exchanges[x], landed[x], exchanges'[x], landed'[x])
  <2>1. isLegalTransition(StateOf(e), "staged")
    BY <1>6, Sources DEF ConfirmApproval, confirmApprovalOk, StateOf
  <2> QED
    BY <1>6, <1>o, <1>s, <1>t, <2>1 DEF ConfirmApproval, confirmApproval
<1>7. ASSUME NEW e \in Exchanges, StageAutoExecute(e)
      PROVE  Lawful(exchanges[x], landed[x], exchanges'[x], landed'[x])
  BY <1>7, <1>o, <1>s, <1>t
  DEF StageAutoExecute, stageAutoExecuteOk, stageAutoExecute, transitionOk, StateOf
<1>8. ASSUME NEW e \in Exchanges, MarkDeliveryAttempted(e)
      PROVE  Lawful(exchanges[x], landed[x], exchanges'[x], landed'[x])
  <2>1. Lawful(exchanges[e], landed[e], markDeliveryAttempted(exchanges[e]), landed[e])
    BY <1>0, <1>8, Results DEF Holds, Lawful, MarkDeliveryAttempted, markDeliveryAttemptedOk
  <2> QED
    BY <1>8, <1>o, <2>1 DEF MarkDeliveryAttempted
<1>9. ASSUME NEW e \in Exchanges, MarkDelivered(e)
      PROVE  Lawful(exchanges[x], landed[x], exchanges'[x], landed'[x])
  <2>1. exchanges[e].state = "staged" /\ exchanges[e].attempt > 0 /\ landed[e] = 0
    BY <1>0, <1>9 DEF Holds, MarkDelivered, markDeliveredOk, Sent, InFlight, Snapshot
  <2>2. Lawful(exchanges[e], landed[e], markDelivered(exchanges[e]), landed[e] + 1)
    <3>1. exchanges[e] \in Snapshot
      BY <1>0 DEF Holds
    <3>2. /\ markDelivered(exchanges[e]).state = "delivered"
          /\ markDelivered(exchanges[e]).attempt = exchanges[e].attempt
      BY <1>s, <3>1, Results DEF markDelivered
    <3>3. landed[e] + 1 > 0 /\ ~(landed[e] > 0)
      BY <2>1
    <3> QED
      BY <2>1, <3>2, <3>3 DEF Lawful
  <2>3. CASE x = e
    BY <1>9, <1>f, <2>2, <2>3 DEF MarkDelivered, Stored
  <2>4. CASE x # e
    BY <1>9, <1>f, <1>u, <2>4 DEF MarkDelivered, Stored
  <2> QED
    BY <2>3, <2>4
<1>10. ASSUME NEW e \in Exchanges, MarkDeliveryFailed(e)
       PROVE  Lawful(exchanges[x], landed[x], exchanges'[x], landed'[x])
  <2>1. Lawful(exchanges[e], landed[e], markDeliveryFailed(exchanges[e]), landed[e])
    BY <1>0, <1>10, Results
    DEF Holds, Lawful, MarkDeliveryFailed, markDeliveryFailedOk, transitionOk
  <2> QED
    BY <1>10, <1>o, <2>1 DEF MarkDeliveryFailed
<1>11. ASSUME NEW e \in Exchanges, NEW to \in MarkTargets, Mark(e, to)
       PROVE  Lawful(exchanges[x], landed[x], exchanges'[x], landed'[x])
  <2>1. to # "delivered" /\ to \in EXCHANGE_STATES
    BY <1>s DEF MarkTargets
  <2> QED
    BY <1>11, <1>o, <1>t, <2>1 DEF Mark, transitionOk, StateOf
<1>12. ASSUME RecoverOnBoot
       PROVE  Lawful(exchanges[x], landed[x], exchanges'[x], landed'[x])
  <2>1. CASE StateOf(x) \in InFlight
    <3>1. isLegalTransition(StateOf(x), "interrupted") /\ "interrupted" \in EXCHANGE_STATES
      BY <2>1, Sources DEF EXCHANGE_STATES
    <3>2. /\ exchanges'[x] = transition(exchanges[x], "interrupted")
          /\ landed'[x] = landed[x]
      BY <1>12, <2>1 DEF RecoverOnBoot, recoveryDisposition
    <3> QED
      BY <1>t, <3>1, <3>2
  <2>2. CASE StateOf(x) \notin InFlight
    BY <1>12, <1>u, <2>2 DEF RecoverOnBoot, recoveryDisposition
  <2> QED
    BY <2>1, <2>2
<1>13. CASE UNCHANGED vars
  BY <1>13, <1>u DEF vars
<1> QED
  BY <1>1, <1>2, <1>3, <1>4, <1>5, <1>6, <1>7, <1>8, <1>9, <1>10, <1>11, <1>12, <1>13
  DEF Next

\* The machine implements the law of the exchange: legal moves only, delivered once,
\* after a recorded attempt (the class ExchangeMachine against the spec's promises).
THEOREM Refinement == Spec => ImplementsLaw
<1>1. Init => Law!LawInit
  <2> SUFFICES ASSUME Init PROVE Law!LawInit
    OBVIOUS
  <2>1. ASSUME NEW e \in Exchanges
        PROVE  /\ exchanges[e].state = "absent"
               /\ (exchanges[e].attempt > 0) = FALSE
               /\ (landed[e] > 0) = FALSE
    BY DEF Init, Absent
  <2>2. [e \in Exchanges |-> exchanges[e].state] = [e \in Exchanges |-> "absent"]
    BY <2>1
  <2>3. [e \in Exchanges |-> exchanges[e].attempt > 0] = [e \in Exchanges |-> FALSE]
    BY <2>1, Zenon
  <2>4. [e \in Exchanges |-> landed[e] > 0] = [e \in Exchanges |-> FALSE]
    BY <2>1, Zenon
  <2> QED
    BY <2>2, <2>3, <2>4 DEF Law!LawInit
<1>2. IInv /\ [Next]_vars => [Law!LawNext]_(Law!lawVars)
  <2> SUFFICES ASSUME IInv, [Next]_vars PROVE Law!LawNext
    OBVIOUS
  <2>1. \A e \in Exchanges : Law!LawStep(e)
    BY NextLawful, LawStepOf
  <2> QED
    BY <2>1 DEF Law!LawNext
<1> QED
  BY <1>1, <1>2, Invariance, PTL DEF Spec, ImplementsLaw, Law!LawSpec

=============================================================================
