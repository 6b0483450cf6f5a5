----------------------------- MODULE ExchangeSpine -----------------------------
(***************************************************************************)
(* The exchange spine of the server: ExchangeService (the in-memory        *)
(* machine, the pane binding and the durable mirror, exchanges/service.ts),*)
(* the four ways the text of an exchange reaches a pane (voice             *)
(* auto-execute, voice approval, Workbench send, retry) and the writes     *)
(* without an exchange (send_keys, which is logged, and those the log      *)
(* never sees), the observed pane signals and reports that settle an       *)
(* exchange, the operator's recovery actions, and what a crash and the     *)
(* boot walk (recovery.ts) make of all this.                               *)
(*                                                                         *)
(* Concurrency.  The server is one Node thread and every handler here is   *)
(* synchronous, so handlers do not interleave; but each makes several      *)
(* durable or external effects and the process may die between any two of  *)
(* them.  "turn" is the handler now running: a lane (a sequence of tasks,  *)
(* one per effect) and the position reached.  While a turn runs only its   *)
(* next task or a crash can happen.  A row update and the event appended   *)
(* with it are one task.                                                   *)
(*                                                                         *)
(* Abstractions.  The approval minted for exchange e has id e.  Of the     *)
(* event log only what retry asks is kept: whether the last event of an    *)
(* exchange is delivery_failed, and the follow_up_of of its creation.      *)
(* draftVersion stays 1: no production path revises an exchange in place   *)
(* (a revised instruction is a new exchange; see ExchangeMachine for the   *)
(* machine under revisions).  The link exchangeId of an approval record is *)
(* left out: where it is missing (a record hydrated after a restart) the   *)
(* machine does not know the exchange either, or knows it as cancelled,    *)
(* and each makes the exchange hooks of the approval lanes do nothing.     *)
(* Store faults are those of the mirror, which swallows them; the recovery *)
(* actions and the boot walk write their rows without fault.  The registry *)
(* of open drafts is not part of this module: a Workbench send ends by     *)
(* withdrawing the approval of the pane's open draft, which appears here   *)
(* as a Reject that may follow it.                                         *)
(***************************************************************************)
EXTENDS ExchangeLifecycle, Sequences, FiniteSets

CONSTANTS
  Exchanges,     \* exchange ids; also the ids of the approvals minted for them
  Panes,
  None,          \* no exchange / no pane
  MaxAttempt,    \* bound: recorded delivery attempts of an exchange
  MaxCrashes,    \* bound: process crashes
  StoreFaults    \* TRUE: a mirrored store write may fail (and is swallowed)

ASSUME SpineAssumption ==
  /\ ApprovalIds = Exchanges
  /\ None \notin Exchanges \cup Panes
  /\ MaxAttempt \in Nat \ {0} /\ MaxCrashes \in Nat
  /\ StoreFaults \in BOOLEAN

\* Mutants: the text is written before the intent is recorded; delivery is reported
\* before the text is written.
WriteThenIntent == <<"kick", "write", "stage", "attempt", "complete", "record">>
ReportThenWrite == <<"stage", "attempt", "complete", "record", "kick", "write">>

\* Two-phase delivery around a write.
TwoPhase == <<"stage", "attempt", "kick", "write", "complete", "record">>

\* The tasks of each handler, in the order of the code; "kick" and "write" are the two
\* halves of writeInput.
Lane == [
  voice      |-> <<"kick", "write", "stage", "attempt", "complete", "record">>,
  propose    |-> <<"hold", "request">>,
  refuse     |-> <<"cancel">>,
  workbench  |-> TwoPhase,
  approve    |-> <<"claim", "drop", "confirm">> \o TwoPhase,
  deadpane   |-> <<"drop", "cancel">>,
  reject     |-> <<"claim", "drop", "cancel">>,
  drain      |-> <<"drain">>,
  retry      |-> <<"restage", "reattempt", "kick", "write", "redelivered">>,
  followup   |-> <<"insert", "link">>,
  complete   |-> <<"idled", "finish">>,
  needsInput |-> <<"resumed", "ask">>]

VARIABLES
  proc,         \* "up", "boot" while the boot walk runs, or "down"
  turn,         \* the running handler [lane, e, of, at], or Rest
  mem,          \* ExchangeMachine.exchanges
  paneActive,   \* ExchangeService.paneActive
  lastCmd,      \* newest entry of the pane's command log: its exchange id or None
  approval,     \* PendingApprovalStore.records holds the approval of e
  term,         \* manager.terminals[p]: "absent", "live" or "exited"
  row,          \* durable: agent_exchanges
  paneOf,       \* durable: agent_exchanges.pane_id
  failedLast,   \* durable: the last event of e is delivery_failed
  followUpOf,   \* durable: follow_up_of of e's exchange_created event
  approvalRow,  \* durable: pending_approvals: "none", "open" or "claimed"
  toRecover,    \* rows the boot walk has still to visit
  crashes,      \* history: crashes so far
  handed,       \* history: how often a terminal accepted the text of e
  lane,         \* history: the lane that handed e over, "uncovered" if without the spine
  lastHanded,   \* history: the pane's last write: an exchange, "manual", or "around" the log
  misread,      \* history: a done-line settled an exchange on another's logged output
  landed        \* history: the exchanges whose row has been "delivered"

rows == <<row, landed>>
durable == <<rows, paneOf, failedLast, followUpOf, approvalRow>>
live == <<mem, paneActive, lastCmd, approval, term>>
boot == <<proc, toRecover, crashes>>
history == <<handed, lane, lastHanded, misread>>
besidesMirror == <<paneActive, lastCmd, approval, term, paneOf, followUpOf, approvalRow,
                   history, boot>>
vars == <<boot, turn, live, durable, history>>

Rest == [lane |-> "none", e |-> None, of |-> None, at |-> 0]

Idle == proc = "up" /\ turn = Rest

Start(l, e) == turn' = [lane |-> l, e |-> e, of |-> None, at |-> 1]

\* The running handler is about to perform this task.
Doing(task) ==
  /\ proc = "up" /\ turn # Rest
  /\ Lane[turn.lane][turn.at] = task

Advance ==
  turn' = IF turn.at = Len(Lane[turn.lane]) THEN Rest ELSE [turn EXCEPT !.at = @ + 1]

Init ==
  /\ proc = "up" /\ turn = Rest /\ toRecover = {} /\ crashes = 0
  /\ mem = [e \in Exchanges |-> Absent]
  /\ row = [e \in Exchanges |-> Absent]
  /\ paneActive = [p \in Panes |-> None]
  /\ lastCmd = [p \in Panes |-> None]
  /\ approval = [e \in Exchanges |-> FALSE]
  /\ approvalRow = [e \in Exchanges |-> "none"]
  /\ term = [p \in Panes |-> "absent"]
  /\ paneOf = [e \in Exchanges |-> None]
  /\ failedLast = [e \in Exchanges |-> FALSE]
  /\ followUpOf = [e \in Exchanges |-> None]
  /\ handed = [e \in Exchanges |-> 0]
  /\ lane = [e \in Exchanges |-> "none"]
  /\ lastHanded = [p \in Panes |-> None]
  /\ misread = FALSE
  /\ landed = {}

-----------------------------------------------------------------------------
(* The durable mirror. *)

RowsBecome(r) ==
  /\ row' = r
  /\ landed' = landed \cup {e \in Exchanges : r[e].state = "delivered"}

\* Mutant: the row is overwritten whatever it holds.
PersistedBlindly(e, from, s) == [row EXCEPT ![e] = s]

\* persistTransition: the row follows when it still is where the machine was; the
\* event is appended in any case.  A failing store loses the event, or both, and nobody
\* notices.
Persisted(e, from, s) ==
  IF row[e].state = from THEN [row EXCEPT ![e] = s] ELSE row

Persist(e, from, s, event) ==
  \E moved, logged \in IF StoreFaults THEN BOOLEAN ELSE {TRUE} :
    /\ logged => moved
    /\ RowsBecome(IF moved THEN Persisted(e, from, s) ELSE row)
    /\ failedLast' = IF logged /\ event # "none"
                     THEN [failedLast EXCEPT ![e] = event = "delivery_failed"]
                     ELSE failedLast

\* mirrored(): the machine moves, then the row.
Mirror(e, s, event) ==
  /\ mem' = [mem EXCEPT ![e] = s]
  /\ Persist(e, mem[e].state, s, event)

\* One service call of a handler: mirrored when the machine accepts it, otherwise
\* nothing; either way the handler goes on.
Call(e, ok, s, event) ==
  \/ ok /\ Mirror(e, s, event)
  \/ ~ok /\ UNCHANGED <<mem, rows, failedLast>>

\* casTransitionWithEvent, on a row whose state the handler has just read.
Transit(e, s, event) ==
  /\ RowsBecome([row EXCEPT ![e] = s])
  /\ failedLast' = [failedLast EXCEPT ![e] = event = "delivery_failed"]

\* Mutant: the row moves and the live machine is not told.
AdoptedNothing(e, s) == mem

\* adoptExchangeSnapshot: the machine takes the row over; an in-flight row also becomes
\* the pane's active exchange.
Adopted(e, s) == [mem EXCEPT ![e] = s]
Bound(e, s) ==
  IF s.state \in InFlight THEN [paneActive EXCEPT ![paneOf[e]] = e] ELSE paneActive

-----------------------------------------------------------------------------
(* Minting, and what the gate decided. *)

Mint(e, p) ==
  /\ Idle /\ row[e].state = "absent" /\ mem[e].state = "absent" /\ paneOf[e] = None
  /\ mem' = [mem EXCEPT ![e] = create]
  /\ paneOf' = [paneOf EXCEPT ![e] = p]
  /\ Persist(e, "absent", create, "exchange_created")
  /\ UNCHANGED <<paneActive, lastCmd, approval, term, followUpOf, approvalRow,
                 history, boot>>

\* dispatchProposal: Full Auto needs a live pane; a refusal, a clarification and the
\* dead-pane error of Full Auto all cancel.
DispatchAuto(e, p) == term[p] = "live" /\ Mint(e, p) /\ Start("voice", e)
DispatchHeld(e, p) == Mint(e, p) /\ Start("propose", e)
DispatchRefused(e, p) == Mint(e, p) /\ Start("refuse", e)

\* POST draft/send asks for a registered terminal only: an exited one is written to.
WorkbenchSend(e, p) == term[p] # "absent" /\ Mint(e, p) /\ Start("workbench", e)

\* applyPendingApproval, then settleExchangeForDispatch.
Hold ==
  /\ Doing("hold") /\ Advance
  /\ approval' = [approval EXCEPT ![turn.e] = TRUE]
  /\ approvalRow' = [approvalRow EXCEPT ![turn.e] = "open"]
  /\ UNCHANGED <<mem, paneActive, lastCmd, term, rows, paneOf, failedLast, followUpOf,
                 history, boot>>

Request ==
  /\ Doing("request") /\ Advance
  /\ Call(turn.e, requestApprovalOk(mem[turn.e]), requestApproval(mem[turn.e], turn.e),
          "approval_requested")
  /\ UNCHANGED besidesMirror

-----------------------------------------------------------------------------
(* The resolution of an approval: applyResolution over resolveDecision. *)

Approve(e) ==
  /\ Idle /\ approval[e] /\ approvalRow[e] = "open"
  /\ IF term[paneOf[e]] = "live" THEN Start("approve", e) ELSE Start("deadpane", e)
  /\ UNCHANGED <<live, durable, history, boot>>

\* Also the expiry of the TTL sweep: the same tasks.
Reject(e) ==
  /\ Idle /\ approval[e] /\ approvalRow[e] = "open" /\ Start("reject", e)
  /\ UNCHANGED <<live, durable, history, boot>>

\* drainPaneOnPromotion: the pane of e goes Full Auto and its approvals are dropped, one
\* by one.
Drain(e) ==
  /\ Idle /\ approval[e] /\ Start("drain", e)
  /\ UNCHANGED <<live, durable, history, boot>>

DrainOne ==
  /\ Doing("drain")
  /\ LET held == {x \in Exchanges : approval[x] /\ paneOf[x] = paneOf[turn.e]} IN
       \E x \in held :
         /\ approval' = [approval EXCEPT ![x] = FALSE]
         /\ approvalRow' = [approvalRow EXCEPT ![x] = "none"]
         /\ IF held = {x} THEN Advance ELSE UNCHANGED turn
  /\ UNCHANGED <<mem, paneActive, lastCmd, term, rows, paneOf, failedLast, followUpOf,
                 history, boot>>

Claim ==
  /\ Doing("claim") /\ Advance
  /\ approvalRow' = [approvalRow EXCEPT ![turn.e] = "claimed"]
  /\ UNCHANGED <<live, rows, paneOf, failedLast, followUpOf, history, boot>>

\* Mutant: the resolved approval leaves memory, and its row stays behind.
DropInMemory ==
  /\ Doing("drop") /\ Advance
  /\ approval' = [approval EXCEPT ![turn.e] = FALSE]
  /\ UNCHANGED <<mem, paneActive, lastCmd, term, durable, history, boot>>

Drop ==
  /\ Doing("drop") /\ Advance
  /\ approval' = [approval EXCEPT ![turn.e] = FALSE]
  /\ approvalRow' = [approvalRow EXCEPT ![turn.e] = "none"]
  /\ UNCHANGED <<mem, paneActive, lastCmd, term, rows, paneOf, failedLast, followUpOf,
                 history, boot>>

\* beginExchangeDeliveryOnApprove presents the binding the snapshot itself carries.
Confirm ==
  /\ Doing("confirm") /\ Advance
  /\ LET s == mem[turn.e] IN
       Call(turn.e, confirmApprovalOk(s, turn.e, s.approvalVersion), confirmApproval(s),
            "approval_confirmed")
  /\ UNCHANGED besidesMirror

Cancel ==
  /\ Doing("cancel") /\ Advance
  /\ Call(turn.e, transitionOk(mem[turn.e], "cancelled"),
          transition(mem[turn.e], "cancelled"), "exchange_cancelled")
  /\ UNCHANGED besidesMirror

-----------------------------------------------------------------------------
(* Two-phase delivery: stage, attempt, the write, complete. *)

Stage ==
  /\ Doing("stage") /\ Advance
  /\ Call(turn.e, stageAutoExecuteOk(mem[turn.e]), stageAutoExecute(mem[turn.e]), "none")
  /\ UNCHANGED besidesMirror

Attempt ==
  /\ Doing("attempt") /\ Advance
  /\ Call(turn.e, markDeliveryAttemptedOk(mem[turn.e]), markDeliveryAttempted(mem[turn.e]),
          "delivery_attempted")
  /\ UNCHANGED besidesMirror

\* writeInput first marks the pane running: a pane that was not tells the observer so at
\* once (onRunning), and the exchange active on the pane resumes.
Resumes(p) ==
  LET prior == paneActive[p] IN
    \/ /\ term[p] = "live" /\ prior # None
       /\ transitionOk(mem[prior], "running")
       /\ Mirror(prior, transition(mem[prior], "running"), "terminal_running")
    \/ UNCHANGED <<mem, rows, failedLast>>

Kick ==
  /\ Doing("kick") /\ Advance
  /\ Resumes(paneOf[turn.e])
  /\ UNCHANGED besidesMirror

\* No staged exchange stands behind the approved write: it will not be logged.
Uncovers == turn.lane = "approve" /\ mem[turn.e].state # "staged"

\* Then the terminal takes the text.
Write ==
  /\ Doing("write") /\ Advance
  /\ LET e == turn.e IN
       /\ handed' = [handed EXCEPT ![e] = @ + 1]
       /\ lane' = [lane EXCEPT ![e] = IF Uncovers THEN "uncovered" ELSE turn.lane]
       /\ lastHanded' = [lastHanded EXCEPT ![paneOf[e]] = IF Uncovers THEN "around" ELSE e]
  /\ UNCHANGED <<live, durable, misread, boot>>

\* writeInput throws.  The Workbench re-arms the exchange, retry re-arms the row and
\* adopts it; the voice and approval lanes let the exception out of the handler.
WriteThrows ==
  /\ Doing("write") /\ turn' = Rest
  /\ LET e == turn.e IN
       CASE turn.lane = "workbench" ->
              /\ Call(e, markDeliveryFailedOk(mem[e]), markDeliveryFailed(mem[e]), "delivery_failed")
              /\ UNCHANGED paneActive
         [] turn.lane = "retry" ->
              LET s == markDeliveryFailed(row[e]) IN
                /\ Transit(e, s, "delivery_failed")
                /\ mem' = Adopted(e, s)
                /\ paneActive' = Bound(e, s)
         [] OTHER -> UNCHANGED <<mem, rows, failedLast, paneActive>>
  /\ UNCHANGED <<lastCmd, approval, term, paneOf, followUpOf, approvalRow,
                 history, boot>>

\* Mutant: the new delivery just takes the pane.
SupersededNothing(e, p) == {}

\* supersede(): what was active on the pane before is interrupted, best effort.
Superseded(e, p) ==
  LET prior == paneActive[p] IN
    IF prior # None /\ prior # e /\ transitionOk(mem[prior], "interrupted")
    THEN {prior} ELSE {}

\* completeDelivery up to its own row: the machine delivers, the pane's previous
\* exchange is interrupted (row too), the pane is bound and the command logged.
Complete ==
  /\ Doing("complete")
  /\ LET e == turn.e  p == paneOf[e]  prior == Superseded(e, p) IN
       IF markDeliveredOk(mem[e])
       THEN /\ Advance
            /\ mem' = [x \in Exchanges |->
                 IF x = e THEN markDelivered(mem[e])
                 ELSE IF x \in prior THEN transition(mem[x], "interrupted") ELSE mem[x]]
            /\ \/ /\ prior = {} /\ UNCHANGED <<rows, failedLast>>
               \/ \E x \in prior :
                    Persist(x, mem[x].state, transition(mem[x], "interrupted"), "exchange_recovered")
            /\ paneActive' = [paneActive EXCEPT ![p] = e]
            /\ lastCmd' = [lastCmd EXCEPT ![p] = e]
       ELSE /\ turn' = Rest
            /\ UNCHANGED <<mem, rows, failedLast, paneActive, lastCmd>>
  /\ UNCHANGED <<approval, term, paneOf, followUpOf, approvalRow, history, boot>>

\* completeDelivery's last effect: the row of the exchange itself.
Record ==
  /\ Doing("record") /\ Advance
  /\ Persist(turn.e, "staged", mem[turn.e], "delivery_succeeded")
  /\ UNCHANGED <<live, paneOf, followUpOf, approvalRow, history, boot>>

-----------------------------------------------------------------------------
(* What the pane shows: signals, reports, manual input. *)

\* Everything the observer can tell of a pane, and the state it moves an exchange to;
\* "error" stands for the failed build and the exited pane as well.
SignalTarget ==
  [running |-> "running", idle |-> "terminal_idle", prompt |-> "needs_input",
   error |-> "agent_failed"]

\* An ambient idle never answers an open question.
PaneSignal(p, kind) ==
  /\ Idle /\ paneActive[p] # None
  /\ LET e == paneActive[p] IN
       /\ ~(kind = "idle" /\ mem[e].state = "needs_input")
       /\ transitionOk(mem[e], SignalTarget[kind])
       /\ Mirror(e, transition(mem[e], SignalTarget[kind]), kind)
  /\ UNCHANGED <<turn, besidesMirror>>

\* recordReportedOutcome, for an envelope naming the pane's active exchange.  A report
\* of another exchange is ignored.
Report(p, outcome) ==
  /\ Idle /\ paneActive[p] # None
  /\ LET e == paneActive[p] IN
       \/ /\ outcome = "failed" /\ transitionOk(mem[e], "agent_failed")
          /\ Mirror(e, transition(mem[e], "agent_failed"), "agent_failure_reported")
          /\ UNCHANGED turn
       \/ /\ outcome \in {"complete", "needsInput"} /\ Start(outcome, e)
          /\ UNCHANGED <<mem, rows, failedLast>>
  /\ UNCHANGED besidesMirror

\* settleTerminalOutcome without an envelope: a done-line in the output of a pane whose
\* newest command is the active exchange's own.
LegacyReport(p) ==
  /\ Idle /\ paneActive[p] # None
  /\ LET e == paneActive[p] IN
       /\ lastCmd[p] = e
       /\ mem[e].state \in {"terminal_idle", "needs_input"}
       /\ Start("complete", e)
       /\ misread' = (misread \/ lastHanded[p] \notin {e, "around"})
  /\ UNCHANGED <<live, durable, handed, lane, lastHanded, boot>>

\* One hop of a report: when the machine refuses it the report ends there.
Hop(task, needed, to, event) ==
  /\ Doing(task)
  /\ LET s == mem[turn.e] IN
       CASE ~needed -> Advance /\ UNCHANGED <<mem, rows, failedLast>>
         [] needed /\ transitionOk(s, to) ->
              Advance /\ Mirror(turn.e, transition(s, to), event)
         [] OTHER -> turn' = Rest /\ UNCHANGED <<mem, rows, failedLast>>
  /\ UNCHANGED besidesMirror

SettleReport ==
  \/ Hop("idled", mem[turn.e].state # "terminal_idle", "terminal_idle", "terminal_idle")
  \/ Hop("finish", TRUE, "agent_complete", "agent_completion_reported")
  \/ Hop("resumed", mem[turn.e].state = "terminal_idle", "running", "terminal_running")
  \/ Hop("ask", mem[turn.e].state # "needs_input", "needs_input", "needs_input_detected")

\* Mutant: manual input is not logged.
ManualCommandUnlogged(p) ==
  /\ Idle /\ term[p] # "absent"
  /\ lastHanded' = [lastHanded EXCEPT ![p] = "manual"]
  /\ Resumes(p)
  /\ UNCHANGED <<turn, paneActive, lastCmd, approval, term, paneOf, followUpOf, approvalRow,
                 handed, lane, misread, boot>>

\* send_keys: logged without an exchange, then written.
ManualCommand(p) ==
  /\ Idle /\ term[p] # "absent"
  /\ lastCmd' = [lastCmd EXCEPT ![p] = None]
  /\ lastHanded' = [lastHanded EXCEPT ![p] = "manual"]
  /\ Resumes(p)
  /\ UNCHANGED <<turn, paneActive, approval, term, paneOf, followUpOf, approvalRow,
                 handed, lane, misread, boot>>

\* The writes that have no exchange and no entry in the command log: a REST plan step or
\* dispatch on a Full-Auto pane, the approval of a write held without an exchange, and
\* bytes typed in the terminal (which mark nothing running).
WriteAround(p) ==
  /\ Idle /\ term[p] = "live"
  /\ lastHanded' = [lastHanded EXCEPT ![p] = "around"]
  /\ Resumes(p)
  /\ UNCHANGED <<turn, paneActive, lastCmd, approval, term, paneOf, followUpOf, approvalRow,
                 handed, lane, misread, boot>>

PaneStarts(p) ==
  /\ Idle /\ term[p] # "live" /\ term' = [term EXCEPT ![p] = "live"]
  /\ UNCHANGED <<turn, mem, paneActive, lastCmd, approval, durable, history, boot>>

PaneExits(p) ==
  /\ Idle /\ term[p] = "live" /\ term' = [term EXCEPT ![p] = "exited"]
  /\ UNCHANGED <<turn, mem, paneActive, lastCmd, approval, durable, history, boot>>

-----------------------------------------------------------------------------
(* The operator's recovery actions, on the rows. *)

\* Mutants: any draft may be sent again; so may what was interrupted.
RetryEligibleAnyDraft(e) == row[e].state = "draft"
RetryEligibleInterrupted(e) == row[e].state = "interrupted"

\* Only a write known to have failed may be repeated.
RetryEligible(e) == row[e].state = "draft" /\ failedLast[e]

Retry(e) ==
  /\ Idle /\ RetryEligible(e) /\ term[paneOf[e]] = "live"
  /\ row[e].attempt < MaxAttempt
  /\ Start("retry", e)
  /\ UNCHANGED <<live, durable, history, boot>>

\* The row is staged without an event and adopted: it becomes the pane's active exchange.
Restage ==
  /\ Doing("restage") /\ Advance
  /\ LET e == turn.e  s == stageAutoExecute(row[e]) IN
       /\ RowsBecome([row EXCEPT ![e] = s])
       /\ mem' = Adopted(e, s)
       /\ paneActive' = Bound(e, s)
  /\ UNCHANGED <<lastCmd, approval, term, paneOf, failedLast, followUpOf, approvalRow,
                 history, boot>>

\* retry_initiated is the durable intent; the live snapshot is not told.
Reattempt ==
  /\ Doing("reattempt") /\ Advance
  /\ Transit(turn.e, markDeliveryAttempted(row[turn.e]), "retry_initiated")
  /\ UNCHANGED <<live, paneOf, followUpOf, approvalRow, history, boot>>

Redelivered ==
  /\ Doing("redelivered") /\ Advance
  /\ LET e == turn.e  s == markDelivered(row[e]) IN
       /\ Transit(e, s, "delivery_succeeded")
       /\ mem' = Adopted(e, s)
       /\ paneActive' = Bound(e, s)
  /\ UNCHANGED <<lastCmd, approval, term, paneOf, followUpOf, approvalRow,
                 history, boot>>

OpenFollowUps(e) == {f \in Exchanges : followUpOf[f] = e /\ row[f].state = "draft"}

\* Also the mutant: a new draft f is made whatever follow-up is open.
FollowUpUnchecked(e, f) ==
  /\ Idle /\ row[e].state = "interrupted"
  /\ row[f].state = "absent" /\ mem[f].state = "absent" /\ paneOf[f] = None
  /\ turn' = [lane |-> "followup", e |-> f, of |-> e, at |-> 1]
  /\ UNCHANGED <<live, durable, history, boot>>

\* Retry of an interrupted exchange: a new draft f, unless one is open already.
FollowUp(e, f) == OpenFollowUps(e) = {} /\ FollowUpUnchecked(e, f)

Insert ==
  /\ Doing("insert") /\ Advance
  /\ RowsBecome([row EXCEPT ![turn.e] = create])
  /\ paneOf' = [paneOf EXCEPT ![turn.e] = paneOf[turn.of]]
  /\ UNCHANGED <<live, failedLast, followUpOf, approvalRow, history, boot>>

Link ==
  /\ Doing("link") /\ Advance
  /\ followUpOf' = [followUpOf EXCEPT ![turn.e] = turn.of]
  /\ UNCHANGED <<live, rows, paneOf, failedLast, approvalRow, history, boot>>

\* cancelExchangeDurable: any live row, and the live snapshot with it.
CancelDurable(e) ==
  /\ Idle /\ row[e].state \in CANCELLABLE_STATES
  /\ LET s == transition(row[e], "cancelled") IN
       /\ Transit(e, s, "exchange_cancelled")
       /\ mem' = Adopted(e, s)
       /\ paneActive' = Bound(e, s)
  /\ UNCHANGED <<turn, lastCmd, approval, term, paneOf, followUpOf, approvalRow,
                 history, boot>>

-----------------------------------------------------------------------------
(* Crash and boot. *)

Crash ==
  /\ proc # "down" /\ crashes < MaxCrashes
  /\ proc' = "down" /\ crashes' = crashes + 1 /\ turn' = Rest /\ toRecover' = {}
  /\ mem' = [e \in Exchanges |-> Absent]
  /\ paneActive' = [p \in Panes |-> None]
  /\ lastCmd' = [p \in Panes |-> None]
  /\ approval' = [e \in Exchanges |-> FALSE]
  /\ term' = [p \in Panes |-> "absent"]
  /\ UNCHANGED <<durable, history>>

Boot ==
  /\ proc = "down" /\ proc' = "boot"
  /\ toRecover' = {e \in Exchanges : row[e].state \in InFlight \cup {"awaiting_approval"}}
  /\ UNCHANGED <<turn, crashes, live, durable, history>>

\* One row of recoverExchangesOnBoot.  hasPendingApproval counts a claimed row too.
Kept(e) ==
  IF row[e].state = "awaiting_approval"
  THEN approvalRow[e] # "none"
  ELSE recoveryDisposition(row[e].state) = "keep"

RecoverRow(e) ==
  /\ proc = "boot" /\ e \in toRecover
  /\ toRecover' = toRecover \ {e}
  /\ \/ Kept(e) /\ UNCHANGED <<rows, failedLast>>
     \/ ~Kept(e) /\ Transit(e, IF row[e].state = "awaiting_approval"
                               THEN Unbound(transition(row[e], "draft"))
                               ELSE transition(row[e], "interrupted"), "exchange_recovered")
  /\ UNCHANGED <<proc, turn, crashes, live, paneOf, followUpOf, approvalRow, history>>

\* hydrateFromStore: the unclaimed approvals are back; panes stay inert.
BootDone ==
  /\ proc = "boot" /\ toRecover = {}
  /\ proc' = "up"
  /\ approval' = [e \in Exchanges |-> approvalRow[e] = "open"]
  /\ UNCHANGED <<turn, toRecover, crashes, mem, paneActive, lastCmd, term, durable, history>>

-----------------------------------------------------------------------------

Mints ==
  \E e \in Exchanges, p \in Panes :
    DispatchAuto(e, p) \/ DispatchHeld(e, p) \/ DispatchRefused(e, p) \/ WorkbenchSend(e, p)

Tasks ==
  \/ Hold \/ Request \/ Claim \/ Drop \/ DrainOne \/ Confirm \/ Cancel
  \/ Stage \/ Attempt \/ Kick \/ Write \/ WriteThrows \/ Complete \/ Record
  \/ SettleReport \/ Restage \/ Reattempt \/ Redelivered \/ Insert \/ Link

Recovery == Boot \/ (\E e \in Exchanges : RecoverRow(e)) \/ BootDone

Operator ==
  \E e \in Exchanges :
    \/ Approve(e) \/ Reject(e) \/ Drain(e) \/ Retry(e) \/ CancelDurable(e)
    \/ \E f \in Exchanges : FollowUp(e, f)

Pane ==
  \E p \in Panes :
    \/ \E kind \in DOMAIN SignalTarget : PaneSignal(p, kind)
    \/ \E outcome \in {"failed", "complete", "needsInput"} : Report(p, outcome)
    \/ LegacyReport(p) \/ ManualCommand(p) \/ WriteAround(p) \/ PaneStarts(p) \/ PaneExits(p)

\* A handler begins when none is running; its tasks follow until it is over.
Next ==
  \/ Idle /\ (Mints \/ Operator \/ Pane)
  \/ turn # Rest /\ Tasks
  \/ Crash \/ Recovery

Spec == Init /\ [][Next]_vars

\* The boot walk, once begun, goes on: it is one synchronous loop.  Whether a crashed
\* server is started again is the operator's affair and is not assumed.
BootWalks == WF_vars((\E e \in Exchanges : RecoverRow(e)) \/ BootDone)

FairSpec == Spec /\ BootWalks

-----------------------------------------------------------------------------
(* Properties. *)

Bindings == {"none", "open", "claimed"}

\* Every variable keeps to its values, and a snapshot has an approval id exactly when it
\* has the version that id was bound to.
TypeOK ==
  /\ mem \in [Exchanges -> Snapshot] /\ row \in [Exchanges -> Snapshot]
  /\ \A e \in Exchanges : \A s \in {mem[e], row[e]} :
       (s.approvalId = NoApproval) <=> (s.approvalVersion = NoVersion)
  /\ proc \in {"up", "boot", "down"}
  /\ turn = Rest \/ turn.at \in DOMAIN Lane[turn.lane]
  /\ paneActive \in [Panes -> Exchanges \cup {None}]
  /\ lastCmd \in [Panes -> Exchanges \cup {None}]
  /\ approval \in [Exchanges -> BOOLEAN] /\ approvalRow \in [Exchanges -> Bindings]
  /\ term \in [Panes -> {"absent", "live", "exited"}]
  /\ paneOf \in [Exchanges -> Panes \cup {None}]
  /\ followUpOf \in [Exchanges -> Exchanges \cup {None}]
  /\ failedLast \in [Exchanges -> BOOLEAN]
  /\ landed \subseteq Exchanges /\ toRecover \subseteq Exchanges

\* No text is typed twice: a terminal accepts the text of an exchange at most once, over
\* crashes, restarts, retries, repeated approvals and superseding deliveries.  This is
\* what retry eligibility (recoveryActions.ts:101-120), the claim of an approval and the
\* boot quarantine are for.
TypedAtMostOnce == \A e \in Exchanges : handed[e] <= 1

\* "a durable delivery_attempted genuinely precedes the pane write": where a two-phase
\* lane has written, the row shows an attempt, whatever crashed since.
IntentBeforeWrite ==
  \A e \in Exchanges :
    lane[e] \in {"workbench", "approve", "retry"} => row[e].attempt > 0

\* The record never claims more than the terminal took: an exchange whose row was
\* called delivered has been written.
EvidenceNeedsWrite == \A e \in landed : handed[e] = 1

\* Between handlers the live machine and the rows say the same of every exchange the
\* machine knows, and no row in flight is left without a machine that follows it: a
\* restart has quarantined it, a recovery action has handed it over.
MirrorAgrees ==
  Idle => \A e \in Exchanges :
    IF mem[e].state = "absent" THEN row[e].state \notin InFlight ELSE mem[e] = row[e]

\* An approval that can still be answered is waiting in memory and in the store alike,
\* and one that was claimed is never offered again.
ApprovalsSurvive ==
  Idle => \A e \in Exchanges : approval[e] <=> approvalRow[e] = "open"

Outstanding(p) ==
  {e \in Exchanges : paneOf[e] = p /\ mem[e].state \in InFlight \ {"staged"}}

\* A pane works for one exchange at a time, unless a retry was ever attempted on it:
\* completeDelivery interrupts what the pane was doing before.
OneInFlightPerPane ==
  \A p \in Panes :
    \/ Cardinality(Outstanding(p)) <= 1
    \/ \E e \in Exchanges : paneOf[e] = p /\ row[e].attempt > 1

\* A done-line settles the exchange whose text the pane was given last, never on the
\* output of another exchange's text or of a command logged since
\* (lastCommandBelongsToActiveExchange), unless the last write went round the command
\* log: that guard cannot see it, and its done-line does settle the exchange before.
DoneLineIsOwn == ~misread

\* At most one unsent follow-up of an interrupted exchange is linked to it, however
\* often the operator asks (findOpenFollowUpDraft).
OneOpenFollowUp == \A e \in Exchanges : Cardinality(OpenFollowUps(e)) <= 1

\* The rows, which outlive every crash, obey the law of the exchange.
Law == INSTANCE ExchangeLaw WITH
  st <- [e \in Exchanges |-> row[e].state],
  armed <- [e \in Exchanges |-> row[e].attempt > 0],
  delivered <- [e \in Exchanges |-> e \in landed]

RowsObeyLaw == Law!LawSpec

\* Even when the store loses writes, the state of a row moves along the legal relation
\* only: a mirrored move whose predecessor was lost is refused by the compare-and-set
\* (updateExchange) and never invents a history.
RowMovesLegally ==
  [][\A e \in Exchanges :
       \/ row'[e].state = row[e].state
       \/ row[e].state = "absent" /\ row'[e].state = "draft"
       \/ isLegalTransition(row[e].state, row'[e].state)]_row

\* Every row the crash left in flight is quarantined by the boot walk that finds it,
\* unless the process dies again first.
CrashIsQuarantined ==
  \A e \in Exchanges :
    (proc = "boot" /\ row[e].state \in InFlight)
      ~> (row[e].state = "interrupted" \/ proc = "down")

-----------------------------------------------------------------------------
(* Claims of the documentation that the code does not keep. *)

\* "a second delivery on the same pane supersedes (interrupts) the previous in-flight
\* one" (service.ts:14-16): retry delivers too.
SecondDeliverySupersedes == \A p \in Panes : Cardinality(Outstanding(p)) <= 1

\* "Every delivery has a durable pre-write intent row" (spec, 1.3): an approval that
\* survived a restart is written without one.  (So is one whose exchange was cancelled
\* meanwhile; that case is excused here.)
ApprovedWriteIsCovered ==
  \A e \in Exchanges : lane[e] = "uncovered" => row[e].state = "cancelled"

\* An exchange whose approval dies is cancelled (spec, 1.3): between handlers one that
\* awaits approval has an approval to wait for.
WaitingHasApproval ==
  Idle => \A e \in Exchanges :
    row[e].state = "awaiting_approval" => approvalRow[e] # "none"

=============================================================================
