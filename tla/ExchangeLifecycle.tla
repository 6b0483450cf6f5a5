-------------------------- MODULE ExchangeLifecycle --------------------------
(***************************************************************************)
(* The exchange lifecycle of src/exchanges/lifecycle.ts as constant        *)
(* operators: the twelve states, the legal-transition relation, the boot   *)
(* disposition, and for every method of ExchangeMachine the condition      *)
(* under which it answers ok and the snapshot it then stores.  A refused   *)
(* call leaves the snapshot alone, so a handler is a guard "XxxOk(s)" and  *)
(* a result "xxx(s)".                                                      *)
(*                                                                         *)
(* Of ExchangeSnapshot (lifecycle.ts:108-125) only the fields that guards  *)
(* and properties tell apart are kept: texts, ids of the owner, timestamps *)
(* and result prose are dropped.  An id the machine does not know maps to  *)
(* a snapshot whose state is "absent".                                     *)
(***************************************************************************)
EXTENDS Naturals

CONSTANTS
  ApprovalIds,   \* ids of pending approvals
  NoApproval     \* approvalId === null

ASSUME NoApprovalAssumption == NoApproval \notin ApprovalIds

NoVersion == 0   \* approvalDraftVersion === null; real versions start at 1

EXCHANGE_STATES ==
  {"draft", "awaiting_clarification", "awaiting_approval", "staged", "delivered",
   "running", "needs_input", "terminal_idle", "agent_complete", "agent_failed",
   "interrupted", "cancelled"}

TERMINAL_STATES == {"agent_complete", "agent_failed", "cancelled"}

CANCELLABLE_STATES == EXCHANGE_STATES \ TERMINAL_STATES

\* The states whose outcome a restart or a supersession makes uncertain.
InFlight == {"staged", "delivered", "running", "needs_input", "terminal_idle"}

LEGAL_TRANSITIONS ==
       ({"draft"} \X {"awaiting_clarification", "awaiting_approval", "staged"})
  \cup ({"awaiting_clarification"} \X {"draft"})
  \cup ({"awaiting_approval"} \X {"draft", "staged"})
  \cup ({"staged"} \X {"delivered", "draft"})
  \cup ({"delivered", "running"} \X {"needs_input", "terminal_idle", "agent_failed"})
  \cup ({"delivered", "needs_input", "terminal_idle"} \X {"running"})
  \cup ({"needs_input"} \X {"terminal_idle", "agent_failed"})
  \cup ({"terminal_idle"} \X {"agent_complete", "agent_failed"})
  \cup (InFlight \X {"interrupted"})
  \cup (CANCELLABLE_STATES \X {"cancelled"})

isLegalTransition(from, to) == <<from, to>> \in LEGAL_TRANSITIONS

\* Mutant: every live state is quarantined, the kept ones included.
recoveryDispositionKeepsNothing(st) ==
  IF st \in CANCELLABLE_STATES THEN "interrupt" ELSE "keep"

\* Mutant: an open question is taken to survive the restart.
recoveryDispositionKeepsQuestions(st) ==
  IF st \in InFlight \ {"needs_input"} THEN "interrupt" ELSE "keep"

recoveryDisposition(st) == IF st \in InFlight THEN "interrupt" ELSE "keep"

-----------------------------------------------------------------------------
(* Snapshots. *)

Snapshot ==
  [state           : EXCHANGE_STATES \cup {"absent"},
   draftVersion    : Nat,
   approvalId      : ApprovalIds \cup {NoApproval},
   approvalVersion : Nat,
   attempt         : Nat]

Absent == [state |-> "absent", draftVersion |-> 0, approvalId |-> NoApproval,
           approvalVersion |-> NoVersion, attempt |-> 0]

create == [state |-> "draft", draftVersion |-> 1, approvalId |-> NoApproval,
           approvalVersion |-> NoVersion, attempt |-> 0]

\* transition(): legality comes from the relation alone, the patch is the caller's.
transitionOk(s, to) == isLegalTransition(s.state, to)
transition(s, to) == [s EXCEPT !.state = to]

\* Mutant: the version of the dropped approval stays.
UnboundIdOnly(s) == [s EXCEPT !.approvalId = NoApproval]
Unbound(s) == [s EXCEPT !.approvalId = NoApproval, !.approvalVersion = NoVersion]

reviseDraftOk(s) == s.state \in {"draft", "awaiting_approval"}
\* Mutant: the text is revised in place and the waiting approval stays bound.
reviseDraftInPlace(s) == [s EXCEPT !.draftVersion = s.draftVersion + 1]
reviseDraft(s) ==
  [Unbound(s) EXCEPT !.state = "draft", !.draftVersion = s.draftVersion + 1]

requestClarificationOk(s) == transitionOk(s, "awaiting_clarification")
requestClarification(s) == transition(s, "awaiting_clarification")

\* Guarded by the relation only: staged -> draft and awaiting_approval -> draft are
\* legal too, and the binding is not cleared.
resolveClarificationOk(s) == transitionOk(s, "draft")
resolveClarification(s) ==
  [transition(s, "draft") EXCEPT !.draftVersion = s.draftVersion + 1]

requestApprovalOk(s) == transitionOk(s, "awaiting_approval")
requestApproval(s, a) ==
  [transition(s, "awaiting_approval") EXCEPT
     !.approvalId = a, !.approvalVersion = s.draftVersion]

\* Mutant: the compare-and-set forgets the draft version.
confirmApprovalOkAnyVersion(s, a, version) ==
  s.state = "awaiting_approval" /\ s.approvalId = a /\ version > 0

confirmApprovalOk(s, a, version) ==
  /\ s.state = "awaiting_approval"
  /\ s.approvalId = a
  /\ s.approvalVersion = version
confirmApproval(s) == transition(s, "staged")

\* draft is the intended source, but awaiting_approval -> staged is legal as well.
stageAutoExecuteOk(s) == transitionOk(s, "staged")
stageAutoExecute(s) == transition(s, "staged")

markDeliveryAttemptedOk(s) == s.state = "staged"
markDeliveryAttempted(s) == [s EXCEPT !.attempt = s.attempt + 1]

\* Mutant: delivered without a recorded attempt.
markDeliveredOkNoIntent(s) == s.state = "staged"
markDeliveredOk(s) == s.state = "staged" /\ s.attempt >= 1
markDelivered(s) == transition(s, "delivered")

\* Mutant: a late write error re-arms an exchange that already landed.
markDeliveryFailedOkLate(s) == s.state \in {"staged", "delivered"}
\* Shares its target with resolveClarification, hence its sources.
markDeliveryFailedOk(s) == transitionOk(s, "draft")
markDeliveryFailed(s) == Unbound(transition(s, "draft"))

=============================================================================
