# Verification of OrbitalVoiceRunner

OrbitalVoiceRunner ("Janus") is a voice cockpit over terminal panes in which
coding agents run. A Node server owns the panes, a voice model proposes
instructions for them, gates decide whether an instruction is typed at once,
held for the operator's approval or refused, and each instruction becomes an
*exchange* whose life is kept in SQLite. This directory specifies the parts of
that server on which the operator's consent and the single delivery of an
instruction depend, checks them with TLC on small instances, and proves the
core of them with TLAPS. Paths below are relative to the repository's root.

## 1. The system

### Components

| Component | Source | State | Operations | What makes it correct |
|---|---|---|---|---|
| Exchange lifecycle | `src/exchanges/lifecycle.ts` | a map from id to snapshot (state, draft version, approval binding, attempts) | create, revise, clarify, request / confirm approval, stage, attempt, deliver, fail, pane marks, cancel, interrupt, recover | moves along the legal relation; delivered at most once; consent is for the text that is sent |
| Exchange service | `src/exchanges/service.ts`, `deliveryHooks.ts` | the machine, the active exchange of each pane, a command log per pane | the lifecycle mirrored into rows and events; supersession; pane signals; reported outcomes; adoption of rows | rows and memory agree; signals settle the exchange they belong to |
| Boot recovery | `src/exchanges/recovery.ts`, `spine.ts` | rows and events | quarantine what was in flight, revert what awaits a vanished approval | nothing uncertain is resumed or sent again |
| Recovery actions | `src/exchanges/recoveryActions.ts` | rows, then the live machine | retry, follow-up, cancel | repeats only what is known to have failed |
| Pending approvals | `src/pendingApprovals.ts` | records, sessions, durable rows, TTL | add, claim, delete, drain, hydrate, detach, reattach, expire | answered once; survive restarts; owned by one session |
| Approval resolution and gates | `src/gating/` | gate matrix, autonomy windows, freeze | approve, reject, expire, defer, sweep, brake | one writer per approval; gates only tighten |
| Dispatch | `src/dispatch/paneWrite.ts` | none | auto-execute, hold, refuse | a text reaches a pane through one decision |
| Open drafts | `src/exchanges/draftRegistry.ts`, `src/actions/defs/voice_ux.ts` | open draft and approval binding per pane | compose, revise, retarget, send, rehydrate | an approval never fires a newer or an older text |
| Observation | `src/observe/index.ts`, `resultEnvelope.ts` | last transition per pane | running / idle / prompt / error signals, envelopes, done-lines | output settles the exchange that caused it |
| Panes | `src/terminal.ts`, `ptyTransport.ts`, `statusMachine.ts` | transport, status, input queue | start, stop, write, exit | accepted input is typed once, in order |
| Dispatch joins | `src/dispatch/joinTracker.ts` | groups and members | fan out, note edges | a group ends when its members do |
| Turn arbiter, announcements | `src/voice/turnArbiter.ts`, `src/announcementBus.ts` | queues, floor | submit, coalesce, drain, remove | no stale fact is spoken |
| Pending actions, handoffs, locks, memory, session pool, store migration | see `PROJECT.json` | | | |

Frontends, the Python cortex, routing and parsing are data and I/O; they are
listed in `PROJECT.json` with the reason they are left out.

### How they interact

A voice proposal (`dispatchProposal`, `src/voice/index.ts`) mints an exchange,
asks the gates, and then writes to the pane, holds an approval, or cancels the
exchange. The Workbench mints and writes directly. An approval is resolved by
`applyResolution` (`src/gating/index.ts`) over the store of pending approvals:
claim, delete, confirm the exchange, record the intent, write, record the
delivery. The pane reports back through its status machine and the observer to
the service, which settles the exchange *active* on the pane. Operator recovery
actions work on the rows and hand the row to the live machine. After a crash
the boot walk quarantines what was in flight, approvals are hydrated from their
rows, and panes stay inert until started.

### What is hard

The server is one Node thread. Most handlers are synchronous, so two of them
never interleave; but each performs several durable or external effects, and
the process can die between any two. The store's failures are swallowed and the
live machine goes on. State is kept four times: in the machine, the rows, the
approvals and their rows, each surviving different things. The binding of a
pane to an exchange is what makes the difference between the output of an
instruction and the output of something else.

Where handlers do wait, others run in between. `retarget_instruction` reads a
draft, awaits its resolver and moves the draft it read. Restart, mode change
and archive await a pane's teardown and act on the pane afterwards, whatever
happened to it; the callbacks of a killed process still arrive. Approvals live
against a clock: a TTL, a spoken last call, its grace, the pause under a held
floor, a periodic sweep, sessions that come and go. `PROJECT.json` lists each
hazard at its line with the properties aimed at it.

## 2. The modules

```
ExchangeLifecycle          states, legal relation, guard and result of every method
  |-- ExchangeLifecycleProofs       (TLAPS, lemmas for the two below)
  |-- ExchangeLaw          abstract: what an exchange promises at any level
  |-- ExchangeMachine      class ExchangeMachine under every order of calls
  |     |-- MCExchangeMachine       (TLC)
  |     `-- ExchangeMachineProofs   (TLAPS)
  `-- ExchangeSpine        service + approvals + panes + recovery + crash and boot
        |-- MCExchangeSpine         (TLC)
        |-- ExchangeSpineProofs     (TLAPS, safety of the writes)
        `-- ExchangeAgreementProofs (TLAPS, memory, rows and panes agree)

DecisionOnce               abstract: a request is decided once
  `-- ApprovalGate         approvals, actions, sweep, sessions, last calls, stop-all, time
        |-- MCApprovalGate          (TLC)
        `-- ApprovalGateProofs      (TLAPS)

InstructionDrafts          open drafts, approval bindings, retarget, rehydration
  |-- MCInstructionDrafts           (TLC)
  `-- InstructionDraftsProofs       (TLAPS)

PaneTerminal               one pane: processes, status, input, lifecycle callers
  `-- DispatchJoin         the pane with the observer and a dispatch group on it
        |-- MCDispatchJoin          (TLC)
        |-- PaneTerminalProofs      (TLAPS, processes and members)
        `-- PaneInputProofs         (TLAPS, input, and the types of both)
```

The four families look at the same server from four sides and meet in what each
takes as a choice of the others: ExchangeSpine lets an approval be answered or
refused at any time, ApprovalGate says when that happens; InstructionDrafts says
which text an approval offers, ExchangeSpine what becomes of the exchange that
carries it; ExchangeSpine takes acceptance by the pane as typing, PaneTerminal
shows what the pane does with accepted input.

**ExchangeLifecycle** has no variables. A method of `lifecycle.ts` is a guard
`xxxOk(s)` and a result `xxx(s)` on a snapshot; both other modules use them, so
the rules are written once. Two facts of the code are kept on purpose because
they are easy to read over: `resolveClarification` and `markDeliveryFailed`
share their target `draft`, so each is accepted from `awaiting_clarification`,
`awaiting_approval` and `staged` alike; and `stageAutoExecute` is accepted from
`awaiting_approval`.

**ExchangeLaw** is the abstract specification: the state follows the legal
relation, a recorded attempt comes before the delivery, and an exchange is
delivered at most once, for ever. The machine implements it with its snapshots
(`ImplementsLaw`), and the rows implement it across every crash and restart
(`RowsObeyLaw`).

**ExchangeMachine** is the map of snapshots with one action per method. History
variables remember the pair that was confirmed and the number of deliveries.
The service passes every id and version straight through, so any pair may be
presented to `ConfirmApproval`.

**ExchangeSpine** composes the machine with what surrounds it.

| Variable | Code |
|---|---|
| `mem` | `ExchangeMachine.exchanges` in the service |
| `paneActive`, `lastCmd` | `ExchangeService.paneActive`, the newest entry of `commandLogs` |
| `approval`, `approvalRow` | `PendingApprovalStore.records`, table `pending_approvals` with its claim |
| `term` | `manager.terminals[p]`, by what the guards ask: absent, live, exited |
| `row`, `paneOf` | table `agent_exchanges` |
| `failedLast`, `followUpOf` | what retry reads back from table `exchange_events` |
| `proc`, `toRecover`, `crashes` | the process and the boot walk |
| `turn` | the handler that is running and how far it got |
| `handed`, `lane`, `lastHanded`, `misread`, `landed` | history, for the properties |

A handler is a *lane*: the sequence of its durable and external effects, in the
order of the code (`Lane`). Between two tasks of a lane only a crash can
happen; memory that dies with the process needs no task of its own. For
instance `approve` is claim, drop, confirm, stage, attempt, kick, write,
complete, record: claim and delete of the approval (`resolveDecision`), the
three mirrored calls before the write (`beginExchangeDeliveryOnApprove`), the
two halves of `writeInput` (the status edge, which may resume the exchange
active on the pane, then the text), and `completeDelivery`, whose supersession
is durable before its own row is. The voice lane really has the write first:
`dispatchProposal` does not pass the exchange to `applyDispatchDecision` and
stages, attempts and completes only on the outcome. `IntentBeforeWrite`
therefore speaks of the two-phase lanes only.

Besides these four lanes of exchanges (voice auto-execute, approval, Workbench,
retry), texts reach a pane that no exchange stands behind. `ManualCommand` is
`send_keys`, which the service logs, so that a done-line after it is not taken
for the active exchange's. `WriteAround` is every write that the log does not
see: a plan step or a dispatch over REST on a Full-Auto pane
(`restDispatchProposal` in `server.ts`, `applyAutoExecute` without an exchange),
the approval of a write that was held without one, and bytes typed in the
terminal. An approval whose exchange the machine cannot stage is the same to
the log (`Uncovers`). `RecoverOnBoot` in the machine leaves out the legality
check of `lifecycle.ts:360-361`, which its disposition always passes.

**ApprovalGate** is the gate: held pane writes (*approvals*,
`pendingApprovals.ts`) and deferred side effects (*actions*,
`pendingActions.ts`) with the handlers `gating/index.ts` binds to them. It
implements **DecisionOnce** (`DecidesOnce`): asked once, decided once, in effect
at most once.

| Variable | Code |
|---|---|
| `mem`, `row` | the two stores' maps; `pending_approvals` and `pending_actions` with their claim |
| `conn`, `active` | the live sessions; `coreState.activeLiveSession` |
| `gone` | lost sessions whose handle a tool call may still hold |
| `letter`, `credit` | the `last-call:<id>` items queued in the turn arbiter; `lastKnownPausedMs` |
| `frozen`, `torn` | stop-all, durable; history: a crash cut a stop-all short |
| `ran`, `ended`, `window` | history: effects, endings, age of the present window |

Approvals and actions differ where the code differs, and the model keeps each
difference: an approval expires by its durable row and hears its last call in
its own session, an action expires by memory and hears it in the live one; only
the rows of actions are pruned by age; only an expired approval leaves a notice.
`Sweep` is one tick of `sweepExpiredApprovals`, `TornSweep` a tick that throws
half way. A tool call that awaits keeps the session it captured, so an approval may
be staged under a session that was lost meanwhile (`late` in its record);
`Lose` is both the loss of a session and the client's close, which detaches such
records too. `DrainArbiterTick` is one pass of the drain loop with every choice of
the floor and of the send's outcome. Time is kept as ages, each counted up to
the first value no guard tells from a larger one, and `Tick` lets a unit pass.
A unit is long against the drain tick, so a unit ends only after the arbiter
has seen every deadline (`DrainKeepsPace`).

**InstructionDrafts** is `draftRegistry.ts`, the instruction verbs of
`voice_ux.ts` and the Workbench's routes. A draft is an identity and a version,
which stand for its text. `open` and `bound` are the two maps of the registry,
`row` the exchanges in `draft` or `awaiting_approval` with their stamped
envelope, `ask` the approvals still open, `moving` the retarget that is waiting
for its resolver. `Boot` rebuilds the registry from the rows in the order of
the code: drafts first, then waiting rows, the first row of a pane wins, a
missing approval turns a waiting row back.

**PaneTerminal** is `UniversalTerminal` for one pane, with the callers of
`panes_rest.ts`, `applyPaneMode.ts` and stop-all. `proc` holds every process
the pane ever spawned, so that a callback of an old one can arrive after a new
one started; `transport` is the current one. `queue`, `chain` and `gap` are
`pendingInput`, `submitChain` and the command between its body and its Enter.
`queue` keeps commands and raw bytes apart, because the flush does: it writes
the bytes at once, while the commands wait for their turn in the chain.
`op` says where each caller is: queued for the lock, awaiting the teardown, or
resumed. A continuation of a promise runs before the next event of the loop:
actions that start from an event require `Settled`. The status machine is
`Verdict`, a table from event to status and timer.

**DispatchJoin** extends it with the observer (`observe/index.ts`) and the join
tracker. The callbacks are synchronous, so what is heard (`Hear`) is a conjunct
of the pane's step, computed from the edge the step makes. A group comes from
`stageDispatchGroup` (`Dispatch`), which stages every member, or from the
parallel steps of a plan (`DispatchPlan`, then a `PlanStep` for each of `todo`),
which are typed, held or refused as the mode of the pane says. `bound` are the
members recorded with an exchange. With the spine on there still are others:
the steps of a plan, a dispatch over REST, and one by voice on a Full-Auto pane
(its exchange is cancelled when the write is staged after all). The tracker
matches those by pane.

## 3. What the runs check

| Run | Instance | States | Shows |
|---|---|---|---|
| `machine` | 2 exchanges, 2 approval ids, 2 versions, 2 attempts | 0.24 million | consent covers the sent text; one delivery; intent; refinement of the law |
| `spine` | 2 exchanges, 2 panes, 1 crash | 3.07 million | at-most-once typing, intent and evidence around the write, agreement of memory and rows, survival of approvals, logged commands guard done-lines, the law for rows |
| `spine_three` | 3 exchanges, 1 pane, 1 crash | 6.96 million | one exchange in flight per pane; one open follow-up |
| `spine_faults` | 2 exchanges, 1 pane, 1 crash, store loses writes | 3.53 million | the same safety when the mirror is lossy; legal moves only |
| `spine_recovery` | 2 exchanges, 1 pane, 2 crashes, fair boot walk | 0.76 million | every row found in flight is quarantined |
| `approvals` | 1 approval, 1 action, 2 sessions, all times 1 | 0.53 million | decided once; no early and no false last call; approvals stay reachable; stop-all leaves nothing; heard requests are settled |
| `drafts` | 2 panes, 2 drafts, 2 sends, 2 versions | 0.52 million | an approval offers the open text only; claims are sound; no version is typed twice |
| `join` | 1 pane, 2 processes, 2 inputs, 1 member | 2.61 million | one process; no false exit; Enter after its body; nothing typed twice; no ghost; members with an exchange own their edges |
| `spine_supersede` | 2 exchanges, 1 pane | violation | retry does not supersede |
| `spine_survivor` | 1 exchange, 1 pane, 1 crash | violation | a surviving approval is written without an intent |
| `spine_drain` | 1 exchange, 1 pane | violation | Full Auto promotion strands exchanges |
| `pane_death` | 1 pane, 2 processes | violation | the second death of a pane is not announced |

**Bounds.** `MaxVersion` and `MaxAttempt` cap revisions and attempts in the
guards of the actions that count; two of each suffice for "the old one and the
new one", and every rule compares at most two. `MaxCrashes` caps crashes; one
crash at every point of every lane is what the safety properties need, and the
liveness run allows a second inside the boot walk. An exchange is minted once
and each id may fail, be retried, be interrupted and be followed up, so two
exchanges on one pane already contain every pairwise race; three are needed for
an interrupted exchange with two follow-ups. Ids of exchanges and of panes are
interchangeable (symmetry in the safety runs, none in the liveness run). The runs of the spine and the
machine check for deadlock: the machine can always sweep (`RecoverOnBoot`), a server
that is down can be started, and one that is idle sees panes exit and start.

In `approvals`, `TTL`, `GRACE` and `CAP` are one unit and `PRUNE` is zero: each
deadline then has a before, an at and an after, and every order of them occurs;
what only a longer extension shows is left to the proofs, which are for all times
(without the liveness property, `CAP` of two was run by hand: 1.08 million states).
Two sessions are needed for a loss that is not the live session's; one approval
and one action suffice because requests meet only in the sweep, the brake and
the drain, which act on each by itself (the proofs say so for any number). A
request has one deferral and is asked once, so a behaviour may end: no deadlock
check.

`drafts` checks for deadlock: a restart is always possible. Instances with a
third version (10 million states), and with one pane, three drafts and three
sends, were run by hand and hold too.

In `join`, a pane may really stop for ever, so there is no deadlock check.
`MaxSpawns` is two: the old process and the new. `Meetings` bounds which calls
meet in one behaviour: group and restart; restart and mode change; restart,
archive and halt; mode change and delete. One member and one other command make
every pair that can be mistaken; groups of any size are left to the proof.

**Fairness.** In `spine_recovery` only `BootWalks` is assumed: the boot walk, once
begun, goes on. It is one synchronous loop (`recoverExchangesOnBoot`, called by
`server.ts` before anything listens), so only a crash can stop it. In
`approvals`, the sweep and the drain loop are weakly fair, because a
`setInterval` fires them and the drain loop re-arms itself, and time passes
(`Tick` is strongly fair: the arbiter's own passes enable and disable it).
Nothing is assumed of operators, sessions, panes or restarts.

### Where the code and its documents part

1. *Retry does not supersede.* `performSameExchangeRetry` adopts the row, which
   rebinds the pane, and never calls `supersede()`. The exchange that was in
   flight stays so, and no signal can reach it. `service.ts:13-14` says that a
   second delivery supersedes the previous one. `OneInFlightPerPane` holds as
   long as no retry was attempted on the pane.
2. *A surviving approval is written uncovered.* The link from an approval to
   its exchange is kept in memory only, and after a restart the machine knows
   no exchange to confirm. The text is typed, the row stays
   `awaiting_approval`. The exchange specification
   (`docs/superpowers/specs/2026-07-09-agent-exchange-spine.md`) says every
   delivery has a durable intent before the write.
3. *Full Auto strands exchanges.* `drainPaneOnPromotion` removes approvals and
   cancels no exchange; the specification says an exchange whose approval dies
   is cancelled.
4. *A second death is silent.* `start()` sets the status itself and fires no
   `onRunning`, so the observer still remembers the first death and drops the
   second as a repeat. `observe/index.ts:688-691` says that a fresh spawn clears
   the edge; the test of it calls `onRunning` by hand.

## 4. What is proved

`ExchangeMachineProofs` proves, for every set of exchanges and approvals and
all bounds, `Spec => []TypeOK` (`TypeCorrect`), `[]ConsentCoversSentText`
(`ConsentCovers`), `[]DeliveredOnceForEver` (`DeliveredOnce`),
`[]DeliveryHadIntent` (`IntentFirst`), `[]WaitingBindsCurrentText`
(`WaitingBinds`), and that the machine implements the abstract specification:
`Spec => ImplementsLaw` (`Refinement`), that is `Law!LawSpec` under the
refinement mapping of `ExchangeMachine`.

The assumptions are `NoApprovalAssumption` (the null id is not an approval id)
and `BoundsAssumption` (the bounds are positive numbers). The inductive
invariant `IInv` is the conjunction of the type invariant with `UnknownIsBlank` (an
exchange the machine does not know has no attempt), `WaitingBindsCurrentText`, `ConsentCoversSentText`, `DeliveredOnceForEver` and
`DeliveryHadIntent`. None of the parts is inductive alone: consent needs to know
that a waiting approval is bound to the current version; that the delivery
count stays below two needs that a delivered exchange is never staged again;
that a delivery carries an attempt has to be carried through the states after
it. Because every action but `RecoverOnBoot` touches one exchange, the
invariant is restated exchange by exchange (`Holds`, `InvPointwise`), a lemma
(`OneExchange`) lifts a step of one exchange to the invariant, `Moved` deals
with all bare transitions at once, and the legal relation is used only through
`Sources`, which reads it backwards.

For the refinement, `Lawful` states the law of one exchange over its snapshot
and delivery count; `NextLawful` shows action by action that every call moves
every exchange lawfully, `LawStepOf` reads that as a step of the law, and the
law's stuttering takes the calls that change nothing it sees. `IInv` is needed
for "delivered once" and for the attempt of an exchange that just appears.

`ApprovalGateProofs` proves, for every set of requests and sessions and all
times, `[]TypeOK` (`TypeCorrect`), `[]FrozenIsQuiet` (`QuietWhenFrozen`),
`[]ApprovalsReachable` (`AlwaysReachable`), `NoEarlyLastCall` (`NoEarlyCall`),
`[]LettersHonest` (`HonestLetters`) and that the gate implements DecisionOnce
(`Refinement`). Requests do not act on
each other, so the invariant `IInv` is the type invariant and a fact about each
request (`Point`): an unclaimed row has its record; an open approval has its
unclaimed row and, unless it was staged late, a live owner or none; nothing confirmable is open under a
brake; a record means undecided and undecided means without effect; and, of the
two clocks the sweep asks, one is no older than the present window, which is
why a last call cannot be early although a deferral leaves the durable expiry
stale. `EveryItem` shows, action by action, that a step keeps `Point`, moves the
request as the abstract specification allows (`Move`) and calls it no earlier
than due (`OnTime`). `RebootKeeps` says once what the three ways of coming back
from a crash leave. For the letters, `LetterPoint` adds that a letter with a
deadline is as old as the last call it announces, so that its own deadline and
the grace of the sweep run out together. The proof had to be for every
extension, and that showed a gap the run cannot reach: with `CAP` of two units or
more the letter of an expired action can come back to life (section 5), which
`LettersHonest` therefore excepts. Assumptions: `TimesAssumption` (times are
numbers, TTL and grace positive), `NamesAssumption`, `NilAssumption`.

`InstructionDraftsProofs` proves `[]TypeOK` (`TypeCorrect`),
`[]OffersCurrentText` (`NoStaleOffer`), `[]ClaimsAreSound` (`SoundClaims`) and
`[]TypedOnce` (`NothingTwice`), for all panes and bounds.
`IInv` adds to the first three that a binding names a send that was minted (`BindingsMinted`) and that a waiting retarget holds a pane and a draft
(`MovingWasOpen`): the late move is harmless to approvals only because it
withdraws what the source awaits when it happens, and a destination without a
draft awaits nothing, by `ClaimsAreSound`. For `TypedOnce`, `Once` adds that every
draft has a number that was given out (`Numbered`) and, as long as none was
cloned, that a draft is open in one pane (`OpenOnce`) and what was typed is
closed (`TypedIsClosed`). Assumptions: `BoundsAssumption`,
`NilAssumption`.

`PaneTerminalProofs` proves `[]OneProcess` (`SingleProcess`), `[]LiveIsNotExited`
(`NoFalseExit`) and `[]RestartNeverGhosts` (`NoGhost`) of the pane as it is
composed with its observer, and `[]MembersOwnTheirEdges`
(`MembersAreNotMistaken`) of the members that have an exchange, whatever the members
without one do beside them, for every set of inputs, any number of
processes and any meeting of calls. `PInv` is the types of the pane with, besides the
three properties: when a caller resumes, the teardown it awaited is over
(`ResumedAfterStop`), the lock admits one caller (`LockExcludes`), and while a
teardown or an archive is under way no live process is a restart's (`TeardownSpares`).
`JoinStepsArePaneSteps` carries the pane's invariant over to the composition: every step
of DispatchJoin is a step of the pane or leaves it alone. Assumptions: `SpawnsAssumption`,
`MembersAssumption`.

`PaneInputProofs` proves `[]EnterFollowsBody` (`EnterIsOwn`) and
`[]TypedAtMostOncePerInput` (`NothingTwice`) for any inputs and any number of
processes, and `[]TypeOK` of the composition (`TypeCorrect`). `InputInv` says
that an accepted input waits in one place, once (`InLine`: pending commands,
pending bytes, chain), that what was typed waits no more (`Spent`), and that the
command between its body and its Enter has its body last in the process it was
typed into, up to raw bytes (`GapOpen`). The types need more than types: that
`start` never counts past `MaxSpawns` follows from `SpawnsFit`, processes spawned
and callers that may still spawn one.

Proofs about ExchangeSpine come in two modules, for every set of exchanges and
panes and all bounds. `ExchangeSpineProofs` proves, **whether or not the store
loses writes**, `[]TypeOK` (`TypeCorrect`), `[]TypedAtMostOnce`
(`TypedOnceEver`), `[]EvidenceNeedsWrite` (`EvidenceIsReal`), `[]ApprovalsSurvive`
(`ApprovalsInBoth`) and `RowMovesLegally` (`RowsMoveLegally`). No text is typed
twice because three things are only ever about an exchange whose text nobody
typed: an open approval, a failure that was logged last, and a handler that has
still to write. `IInv` says so: `Types`; `TurnOK`, what the running handler relies
on task by task; `Point` of each exchange, with `Fresh`, `Unsent` and `Evidence`;
and `Offered`, that approvals in memory and rows agree but for the moment between
claim and drop. `Stations` adds how far machine and row have come at each task,
which the legal moves need.

`ExchangeAgreementProofs` builds on it. When the store loses no write
(`~StoreFaults`, the setting of the runs `spine` and `spine_three`; with lost
writes these are false and no run claims them) it proves `[]MirrorAgrees`
(`MirrorAgreement`), `[]IntentBeforeWrite` (`IntentIsRecorded`), `RowsObeyLaw`
(`RowsImplementLaw`), that is, the rows implement `ExchangeLaw` across crashes,
and `[]OneInFlightPerPane` (`OneAtATime`). The invariant `Told` says of every
exchange how machine and row differ while a handler runs: the row is *behind* in
the last task of a delivery, the machine is *untold* in the middle of a retry,
and otherwise they are the same or the row is out of flight (`Agreed`); and
what a row knows of its attempts (`Recorded`, `Repeats`). `OnePerPane` says that
the busy exchange of a pane is the one its signals go to, unless a retry has
taken the pane. Whatever the store loses, it proves `[]OneOpenFollowUp`
(`OneFollowUp`; the link of a follow-up is written with its row, `Linked`,
and one that is not over blocks another, `OpensOne`) and `[]DoneLineIsOwn`
(`DoneLineSettlesOwn`; the newest logged command of a pane was typed there, and
when it is the active exchange's nothing that the log sees was typed since, unless its
delivery is just being finished: `Logged`, `Finishing`). A write that went round the
log is excused by the property, as it must be (section 5).

The invariants of the two modules were checked by TLC before they were proved, on the
instances of `spine`, `spine_three` and `spine_faults`; so was each of the
others on its family's instance. The assumptions are `SpineAssumption` and
`NoApprovalAssumption`: bounds are numbers, an exchange's approval bears its id,
and the null values are none of the ids.

Only model-checked: `CrashIsQuarantined` and `SettledIfHeard`, which are liveness
under fairness and out of the prover's reach. Every invariant and every action
property that a passing run checks is also a theorem.

## 5. Not modelled, and the plan

Inside ExchangeSpine: message texts, redaction and envelopes; drafts, sessions,
clocks and the pane's input queue, which the other families model (a refusal
may come at any time, acceptance counts as typing); closing a pane (an exited
one is like it for every guard but the Workbench's). Store faults are those the
mirror swallows.

Inside ApprovalGate: which requests the capability gates, autonomy windows and
postures hold at all (a choice); the wording of what is spoken; other items of
the arbiter's queue. An approval that came over REST is owned by the null
session, which the sweep takes for connected, as in the model. Inside
InstructionDrafts: texts, readiness, the resolver's answer (a choice among
panes). Inside PaneTerminal: two panes at once (they share nothing but the
manager's maps), scrollback, resizing, a submit delay of zero, the legacy
transport without a pid (`terminal.ts:1417-1420`), and the stop of an exited
pane by `clear_exited`, which takes no lock. The ring of 50
groups of the join tracker is not modelled.

Behaviour that the properties except or that the models show and no document
speaks against, for whoever changes the code:

* Retention prunes the row of an action that is still held in memory; the
  action can then be neither confirmed nor cancelled (its claim finds no row).
* A promotion to Full Auto leaves the queued last call of a drained approval,
  and the sweep that of an expired action: `LettersHonest` excepts both. The
  action's letter asks for an answer again when it was put back after a failed
  send, without its deadline, or when the floor was held at the last tick before
  a session was lost and at the first after the reconnect: the whole gap, up to
  60 s, then counts as pause (`turnArbiter.ts:318`), also when the sweep has
  expired the action in between.
* Raw bytes queued before a pane is ready overtake the commands queued before
  them when the submit delay is positive: the flush writes bytes at once and
  puts commands into the promise chain (`terminal.ts:1238-1243`, `1297`), while
  the comments at `terminal.ts:483-486` and `1325-1328` say that the order among
  them is preserved. No run states this yet.
* A deferral is memory: after a restart the durable expiry counts again.
* After a restart the binding of an approval carries the exchange's draft
  version, always 1 (`draftRegistry.ts:384`), so `OffersCurrentText` speaks of
  approvals staged in the running process.
* A retarget that awaited moves the draft it read, also when it changed
  meanwhile (`voice_ux.ts:337`), and may clone it: `TypedOnce` excepts clones.
* A write that goes round the command log (a REST plan step or dispatch on a
  Full-Auto pane, an approval held without an exchange, typed bytes) leaves
  `lastCommandBelongsToActiveExchange` true (`service.ts:469`), and its done-line
  settles the exchange that was active before (`observe/index.ts:594`).
  `DoneLineIsOwn` excuses these writes: what it shows is that the guard does its
  work for everything that is logged.
* A group member recorded without an exchange follows every edge of its pane,
  also with the spine on (`joinTracker.ts:128`, `179`): any other command starts
  and settles it. `MembersOwnTheirEdges` speaks of the others.
* A group member whose approval was rejected stays staged, and its group is
  never announced.
* An approval staged by a tool call that outlived its session belongs to the dead
  handle (`voice/index.ts:2082`). The sweep takes it for connected, no reconnect
  takes it over (`orphans()` lists only what has no handle), and only the client's
  close detaches it. `ApprovalsReachable` excepts its owner, not its row.
* A process that is stopped still delivers late output, which may drain the
  queue of the pane; input typed raw may fall between a body and its Enter.
* A mode change takes no lock and does not look again whether the pane is still
  on the board (`applyPaneMode.ts:207`): `RestartNeverGhosts` speaks of restarts.

Not modelled at all: replay, metrics and fleet projections, memory ranking, the
Python cortex and the frontends (no control of their own); handoffs (their only
state follows an approval); schema migration; the session pool, reconnect
budgets and resumption; worktree locks with expiry; mode changes driven by key
sequences. `PROJECT.json` gives the reason for each.

What the plan has left, in order: the gate algebra (capabilities, windows,
postures) as operators against a reference definition; worktree locks and the
session pool; the context-version handshake; the order of queued commands and
bytes as a property of the pane.

## 6. Running

```
tlc -workers 2 -config MCExchangeMachine.cfg MCExchangeMachine
tlc -workers 2 -config MCExchangeSpine.cfg  MCExchangeSpine     # and the other MCSpine*.cfg
tlc -workers 2 -config MCApprovalGate.cfg MCApprovalGate
tlc -workers 2 -config MCInstructionDrafts.cfg MCInstructionDrafts
tlc -workers 2 -config MCDispatchJoin.cfg MCDispatchJoin        # and MCPaneDeath.cfg
tlapm ExchangeMachineProofs.tla                                 # and the other *Proofs.tla
```
