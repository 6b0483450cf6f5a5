---------------------------- MODULE ExchangeMachine ----------------------------
(***************************************************************************)
(* The class ExchangeMachine of src/exchanges/lifecycle.ts under every     *)
(* sequence of calls: the Map of snapshots, one action per method, with a  *)
(* refused call changing nothing.  hydrate(), which seeds the map from a   *)
(* durable row, belongs to recovery and is an action of ExchangeSpine.     *)
(*                                                                         *)
(* Two history variables serve the properties: the (approval, version)     *)
(* pair the operator was shown and confirmed when the exchange was last    *)
(* staged, and how often the exchange has been called delivered.           *)
(***************************************************************************)
EXTENDS ExchangeLifecycle

CONSTANTS
  Exchanges,    \* exchange ids
  MaxVersion,   \* bound: draft revisions per exchange
  MaxAttempt    \* bound: recorded delivery attempts per exchange

ASSUME BoundsAssumption ==
  /\ MaxVersion \in Nat \ {0}
  /\ MaxAttempt \in Nat \ {0}

NoConsent == <<NoApproval, NoVersion>>

VARIABLES
  exchanges,   \* the machine's Map: id -> snapshot, Absent when not in the map
  consent,     \* history: the pair confirmed when last staged, NoConsent if auto-staged
  landed       \* history: how often markDelivered answered ok

vars == <<exchanges, consent, landed>>

StateOf(e) == exchanges[e].state

Init ==
  /\ exchanges = [e \in Exchanges |-> Absent]
  /\ consent = [e \in Exchanges |-> NoConsent]
  /\ landed = [e \in Exchanges |-> 0]

Stored(e, s) == exchanges' = [exchanges EXCEPT ![e] = s]

Create(e) ==
  /\ StateOf(e) = "absent"
  /\ Stored(e, create)
  /\ UNCHANGED <<consent, landed>>

ReviseDraft(e) ==
  /\ reviseDraftOk(exchanges[e])
  /\ exchanges[e].draftVersion < MaxVersion
  /\ Stored(e, reviseDraft(exchanges[e]))
  /\ UNCHANGED <<consent, landed>>

RequestClarification(e) ==
  /\ requestClarificationOk(exchanges[e])
  /\ Stored(e, requestClarification(exchanges[e]))
  /\ UNCHANGED <<consent, landed>>

ResolveClarification(e) ==
  /\ resolveClarificationOk(exchanges[e])
  /\ exchanges[e].draftVersion < MaxVersion
  /\ Stored(e, resolveClarification(exchanges[e]))
  /\ UNCHANGED <<consent, landed>>

RequestApproval(e, a) ==
  /\ requestApprovalOk(exchanges[e])
  /\ Stored(e, requestApproval(exchanges[e], a))
  /\ UNCHANGED <<consent, landed>>

\* The operator presents the pair they were shown; any pair may arrive, however old.
ConfirmApproval(e, a, version) ==
  /\ confirmApprovalOk(exchanges[e], a, version)
  /\ Stored(e, confirmApproval(exchanges[e]))
  /\ consent' = [consent EXCEPT ![e] = <<a, version>>]
  /\ UNCHANGED landed

StageAutoExecute(e) ==
  /\ stageAutoExecuteOk(exchanges[e])
  /\ Stored(e, stageAutoExecute(exchanges[e]))
  /\ consent' = [consent EXCEPT ![e] = NoConsent]
  /\ UNCHANGED landed

MarkDeliveryAttempted(e) ==
  /\ markDeliveryAttemptedOk(exchanges[e])
  /\ exchanges[e].attempt < MaxAttempt
  /\ Stored(e, markDeliveryAttempted(exchanges[e]))
  /\ UNCHANGED <<consent, landed>>

MarkDelivered(e) ==
  /\ markDeliveredOk(exchanges[e])
  /\ Stored(e, markDelivered(exchanges[e]))
  /\ landed' = [landed EXCEPT ![e] = @ + 1]
  /\ UNCHANGED consent

MarkDeliveryFailed(e) ==
  /\ markDeliveryFailedOk(exchanges[e])
  /\ Stored(e, markDeliveryFailed(exchanges[e]))
  /\ UNCHANGED <<consent, landed>>

\* markRunning, markNeedsInput, markTerminalIdle, markAgentComplete, markAgentFailed,
\* cancel and markInterrupted: the transition to their target and nothing more.
MarkTargets ==
  {"running", "needs_input", "terminal_idle", "agent_complete", "agent_failed",
   "cancelled", "interrupted"}

Mark(e, to) ==
  /\ transitionOk(exchanges[e], to)
  /\ Stored(e, transition(exchanges[e], to))
  /\ UNCHANGED <<consent, landed>>

\* The loop over the whole map quarantines every in-flight exchange at once.
RecoverOnBoot ==
  /\ exchanges' = [e \in Exchanges |->
       IF recoveryDisposition(StateOf(e)) = "interrupt"
       THEN transition(exchanges[e], "interrupted") ELSE exchanges[e]]
  /\ UNCHANGED <<consent, landed>>

Next ==
  \/ \E e \in Exchanges :
       \/ Create(e)
       \/ ReviseDraft(e)
       \/ RequestClarification(e)
       \/ ResolveClarification(e)
       \/ \E a \in ApprovalIds : RequestApproval(e, a)
       \/ \E a \in ApprovalIds, version \in 1..MaxVersion : ConfirmApproval(e, a, version)
       \/ StageAutoExecute(e)
       \/ MarkDeliveryAttempted(e)
       \/ MarkDelivered(e)
       \/ MarkDeliveryFailed(e)
       \/ \E to \in MarkTargets : Mark(e, to)
  \/ RecoverOnBoot

Spec == Init /\ [][Next]_vars

-----------------------------------------------------------------------------
(* Properties. *)

\* Every snapshot is well formed and the histories stay in range.
TypeOK ==
  /\ exchanges \in [Exchanges -> Snapshot]
  /\ consent \in [Exchanges -> (ApprovalIds \X Nat) \cup {NoConsent}]
  /\ landed \in [Exchanges -> {0, 1}]

\* States reached through staged, in which the text is on its way or has landed.
Sent == InFlight \cup {"agent_complete", "agent_failed", "interrupted"}

\* The operator's confirmation covers exactly the text that is sent: when an exchange
\* went out on a confirmation (confirmApproval, lifecycle.ts:249-259), the version in
\* flight is the version of the pair that was confirmed, whatever revisions, repeated
\* requests or failed deliveries came before it.
ConsentCoversSentText ==
  \A e \in Exchanges :
    /\ StateOf(e) \in Sent
    /\ consent[e] # NoConsent
    => consent[e] = <<exchanges[e].approvalId, exchanges[e].draftVersion>>

\* "A landed write can never be un-delivered" (spec 1.3): an exchange is called
\* delivered at most once in its life, and from then on it never is a draft, waiting
\* for approval or staged again -- not after failures, quarantine or a cancel.
DeliveredOnceForEver ==
  \A e \in Exchanges :
    /\ landed[e] <= 1
    /\ landed[e] = 1 =>
         StateOf(e) \in (Sent \ {"staged"}) \cup {"cancelled"}

\* Two-phase delivery (spec 2b): whatever has been called delivered carries a recorded
\* attempt, through every later state (markDelivered, lifecycle.ts:281-290).
DeliveryHadIntent ==
  \A e \in Exchanges : landed[e] > 0 => exchanges[e].attempt > 0

\* What a waiting approval is bound to: an approval id, and the draft version that is
\* current now, so a revision can never be approved by the old binding.
WaitingBindsCurrentText ==
  \A e \in Exchanges :
    StateOf(e) = "awaiting_approval" =>
      /\ exchanges[e].approvalId \in ApprovalIds
      /\ exchanges[e].approvalVersion = exchanges[e].draftVersion

\* The machine implements the law of the exchange.
Law == INSTANCE ExchangeLaw WITH
  st <- [e \in Exchanges |-> exchanges[e].state],
  armed <- [e \in Exchanges |-> exchanges[e].attempt > 0],
  delivered <- [e \in Exchanges |-> landed[e] > 0]

ImplementsLaw == Law!LawSpec

=============================================================================
