------------------------- MODULE InstructionDrafts -------------------------
(***************************************************************************)
(* The open instruction drafts of the panes and the approvals staged from  *)
(* them (draftRegistry.ts, instructionEnvelope.ts, the instruction verbs   *)
(* of voice_ux.ts, the Workbench routes of server.ts), with the exchange   *)
(* spine authoritative.  A pane has at most one open draft.  A draft is an *)
(* identity and a version; its text is the pair: every edit makes a new    *)
(* version.  Of the versions already sent only the newest can be refused   *)
(* again, so "sent" says whether the current one was.  A send mints a durable exchange row and, behind an Ask gate,  *)
(* parks an approval under the same number.  retarget_instruction awaits   *)
(* the target resolver and then moves the draft it read before the await.  *)
(***************************************************************************)
EXTENDS Naturals

CONSTANTS
    Panes,
    Nil,
    MaxDrafts,      \* bound: drafts created
    MaxSends,       \* bound: dispatches that mint an exchange
    MaxVersion      \* bound: the version of a draft

Ids == 1..MaxDrafts
Sends == 1..MaxSends
Versions == 1..MaxVersion

ASSUME BoundsAssumption ==
    MaxDrafts \in Nat /\ MaxSends \in Nat /\ MaxVersion \in Nat \ {0}
ASSUME NilAssumption == Nil \notin Panes

Draft == [id : Ids, ver : Versions, sent : BOOLEAN]
Row == [pane : Panes, id : Ids \cup {0}, ver : Versions, lane : {"send", "command"},
        state : {"draft", "awaiting"}]
NoDraft == [id |-> 0, ver |-> 1, sent |-> FALSE]

VARIABLES
    open,       \* openDrafts: the open draft of each pane, or NoDraft
    bound,      \* approvalBindings: [send, ver] of each pane, send 0 when none
    made,       \* drafts created so far
    minted,     \* dispatches that minted an exchange row so far
    row,        \* the rows in state draft or awaiting_approval, with the envelope stamped
    ask,        \* the sends whose approval is still open (record and durable row)
    here,       \* those of them staged since the process started
    moving,     \* the retarget that awaits its resolver: the pane and the draft it read
    cloned,     \* a draft of this process may be open twice: a retarget moved one that
                \* had changed meanwhile, or boot rebuilt one from the rows of two panes
    typed,      \* what sends of this process typed: <<pane, id, version>>
    doubled     \* one of them was typed again

vars == <<open, bound, made, minted, row, ask, here, moving, cloned, typed, doubled>>
ghosts == <<cloned, typed, doubled>>

Unbound == [send |-> 0, ver |-> 1]
Binding == [send : Sends \cup {0}, ver : Versions]
Still == [pane |-> Nil, draft |-> NoDraft]
IsOpen(p) == open[p].id # 0

(* createDraft, reviseDraft and recordSend.                                *)
Created == [id |-> made + 1, ver |-> 1, sent |-> FALSE]
Revised(d) == [id |-> d.id, ver |-> d.ver + 1, sent |-> FALSE]
Sendable(d) == ~d.sent
Marked(d) == [id |-> d.id, ver |-> d.ver, sent |-> TRUE]

(* invalidateOutstandingApproval: the binding goes, and its approval (when *)
(* it is still open) is rejected, which cancels the exchange.              *)
Withdrawn(p) == IF bound[p].send \in ask THEN {bound[p].send} ELSE {}
Without(done) == [s \in {t \in DOMAIN row : t \in done => row[t].state = "draft"} |-> row[s]]
(* Mutant: a resolution drops the exchange row and not the approval.       *)
SettleRowOnly(done) ==
    /\ UNCHANGED <<ask, here>>
    /\ row' = Without(done)
Settle(done) ==
    /\ ask' = ask \ done
    /\ here' = here \ done
    /\ row' = Without(done)
Invalidate(p) ==
    /\ bound' = [bound EXCEPT ![p] = Unbound]
    /\ Settle(Withdrawn(p))

Init ==
    /\ open = [p \in Panes |-> NoDraft]
    /\ bound = [p \in Panes |-> Unbound]
    /\ made = 0
    /\ minted = 0
    /\ row = << >>
    /\ ask = {}
    /\ here = {}
    /\ moving = Still
    /\ cloned = FALSE
    /\ typed = {}
    /\ doubled = FALSE

(* draft_instruction: the pane's draft is revised, or a new one is opened. *)
DraftInstruction(p) ==
    /\ IF IsOpen(p)
       THEN open[p].ver < MaxVersion /\ open' = [open EXCEPT ![p] = Revised(@)] /\ made' = made
       ELSE made < MaxDrafts /\ open' = [open EXCEPT ![p] = Created] /\ made' = made + 1
    /\ IF IsOpen(p) THEN Invalidate(p) ELSE UNCHANGED <<bound, ask, here, row>>
    /\ UNCHANGED <<minted, moving, ghosts>>

(* Mutant: a voice revision leaves the staged approval alone.              *)
ReviseKeepsApproval(p) ==
    /\ IsOpen(p)
    /\ open[p].ver < MaxVersion
    /\ open' = [open EXCEPT ![p] = Revised(@)]
    /\ UNCHANGED <<bound, made, minted, row, ask, here, moving, ghosts>>

ReviseInstruction(p) ==
    /\ IsOpen(p)
    /\ open[p].ver < MaxVersion
    /\ open' = [open EXCEPT ![p] = Revised(@)]
    /\ Invalidate(p)
    /\ UNCHANGED <<made, minted, moving, ghosts>>

CancelInstruction(p) ==
    /\ IsOpen(p)
    /\ open' = [open EXCEPT ![p] = NoDraft]
    /\ Invalidate(p)
    /\ UNCHANGED <<made, minted, moving, ghosts>>

(* A typed edit of the draft's text: a new version, or, when the text is   *)
(* left empty, the end of the draft.                                       *)
TypedEdit(p) ==
    /\ IsOpen(p)
    /\ \/ open[p].ver < MaxVersion /\ open' = [open EXCEPT ![p] = Revised(@)]
       \/ open' = [open EXCEPT ![p] = NoDraft]
    /\ Invalidate(p)
    /\ UNCHANGED <<made, minted, moving, ghosts>>

(* performRetarget: refused when the destination has a draft of its own or *)
(* is the source, else the draft that was read moves as a new version.     *)
PerformRetarget(p, q, existing) ==
    IF p = q \/ IsOpen(q)
    THEN UNCHANGED <<open, bound, ask, here, row>>
    ELSE /\ existing.ver < MaxVersion
         /\ open' = [open EXCEPT ![p] = NoDraft, ![q] = Revised(existing)]
         /\ Invalidate(p)

(* retarget_instruction up to its await, and after it: the resolver bound  *)
(* the reference to pane q, or asked for a clarification.                  *)
RetargetInstruction(p) ==
    /\ IsOpen(p)
    /\ moving = Still
    /\ moving' = [pane |-> p, draft |-> open[p]]
    /\ UNCHANGED <<open, bound, made, minted, row, ask, here, ghosts>>

ResolvedTarget(q) ==
    /\ moving # Still
    /\ PerformRetarget(moving.pane, q, moving.draft)
    /\ cloned' = (cloned \/ (open' # open /\ open[moving.pane] # moving.draft))
    /\ moving' = Still
    /\ UNCHANGED <<made, minted, typed, doubled>>

UnresolvedTarget ==
    /\ moving # Still
    /\ moving' = Still
    /\ UNCHANGED <<open, bound, made, minted, row, ask, here, ghosts>>

(* confirm_instruction: the operator named the pane, nothing is awaited.   *)
ConfirmInstruction(p, q) ==
    /\ IsOpen(p)
    /\ PerformRetarget(p, q, open[p])
    /\ UNCHANGED <<made, minted, moving, ghosts>>

(* A dispatch to pane p mints the next exchange row before its gate is     *)
(* decided and stamps the pane's open draft on it, whoever dispatches.     *)
NextSend == minted + 1
Stamp(p, lane, state) == [pane |-> p, id |-> open[p].id, ver |-> open[p].ver, lane |-> lane, state |-> state]
Mint(p, lane, state) == [s \in DOMAIN row \cup {NextSend} |->
    IF s = NextSend THEN Stamp(p, lane, state) ELSE row[s]]
Type(p, id, ver) ==
    /\ typed' = typed \cup {<<p, id, ver>>}
    /\ doubled' = (doubled \/ <<p, id, ver>> \in typed)

(* send_instruction: refused for a version already sent; then the gate     *)
(* types it at once, or parks it as an approval bound to this version.     *)
SendExecuted(p) ==
    /\ IsOpen(p)
    /\ Sendable(open[p])
    /\ NextSend \in Sends
    /\ minted' = NextSend
    /\ open' = [open EXCEPT ![p] = NoDraft]
    /\ bound' = [bound EXCEPT ![p] = Unbound]
    /\ Type(p, open[p].id, open[p].ver)
    /\ UNCHANGED <<made, row, ask, here, moving, cloned>>

(* Mutant: a send that is parked does not mark its version as sent.        *)
SendPendingUnmarked(p) ==
    /\ IsOpen(p)
    /\ Sendable(open[p])
    /\ NextSend \in Sends
    /\ minted' = NextSend
    /\ row' = Mint(p, "send", "awaiting")
    /\ here' = here \cup {NextSend}
    /\ ask' = ask \cup {NextSend}
    /\ bound' = [bound EXCEPT ![p] = [send |-> NextSend, ver |-> open[p].ver]]
    /\ UNCHANGED <<open, made, moving, ghosts>>

SendPending(p) ==
    /\ IsOpen(p)
    /\ Sendable(open[p])
    /\ NextSend \in Sends
    /\ minted' = NextSend
    /\ row' = Mint(p, "send", "awaiting")
    /\ here' = here \cup {NextSend}
    /\ ask' = ask \cup {NextSend}
    /\ open' = [open EXCEPT ![p] = Marked(@)]
    /\ bound' = [bound EXCEPT ![p] = [send |-> NextSend, ver |-> open[p].ver]]
    /\ UNCHANGED <<made, moving, ghosts>>

(* propose_command on the same pane: a command of its own, parked.         *)
ProposeCommand(p) ==
    /\ NextSend \in Sends
    /\ minted' = NextSend
    /\ row' = Mint(p, "command", "awaiting")
    /\ here' = here \cup {NextSend}
    /\ ask' = ask \cup {NextSend}
    /\ UNCHANGED <<open, bound, made, moving, ghosts>>

(* POST draft/send: the operator types the pane's text now, then the open  *)
(* draft is settled and a staged approval withdrawn.                       *)
WorkbenchSend(p) ==
    /\ IsOpen(p)
    /\ open' = [open EXCEPT ![p] = NoDraft]
    /\ Invalidate(p)
    /\ Type(p, open[p].id, open[p].ver)
    /\ UNCHANGED <<made, minted, moving, cloned>>

(* applyResolution.  envelopeCasMode turns an approve into a reject when   *)
(* the bound version is not the open one; settleEnvelopeBindingOnResolve   *)
(* drops the binding, and after an approve closes the draft.               *)
BoundTo(s) == {p \in Panes : bound[p].send = s}
Current(s) == \A p \in BoundTo(s) : IsOpen(p) /\ open[p].ver = bound[p].ver
Resolved(s) ==
    /\ Settle({s})
    /\ bound' = [p \in Panes |-> IF p \in BoundTo(s) THEN Unbound ELSE bound[p]]

Approve(s) ==
    /\ s \in ask
    /\ Current(s)
    /\ Resolved(s)
    /\ open' = [p \in Panes |-> IF p \in BoundTo(s) THEN NoDraft ELSE open[p]]
    /\ IF row[s].lane = "send" /\ s \in here
       THEN Type(row[s].pane, row[s].id, row[s].ver)
       ELSE UNCHANGED <<typed, doubled>>
    /\ UNCHANGED <<made, minted, moving, cloned>>

(* Rejected, expired, its pane dead, or an approve of an outdated version. *)
Refuse(s) ==
    /\ s \in ask
    /\ Resolved(s)
    /\ UNCHANGED <<open, made, minted, moving, ghosts>>

(* A pane promoted to Full Auto: its approvals are drained past            *)
(* applyResolution, so neither the binding nor the exchange is settled.    *)
Promote(p) ==
    /\ \E s \in ask : row[s].pane = p
    /\ ask' = {s \in ask : row[s].pane # p}
    /\ here' = {s \in here : row[s].pane # p}
    /\ UNCHANGED <<open, bound, made, minted, row, moving, ghosts>>

(* Boot: recoverExchangesOnBoot returns a row whose approval is gone to    *)
(* draft; then the first draft row of a pane, or else its first awaiting   *)
(* row, rebuilds the pane's draft, and an awaiting row whose approval      *)
(* survived binds it -- at the exchange's own draft version, 1.            *)
Recovered(rows, asks) == [s \in DOMAIN rows |->
    IF rows[s].state = "awaiting" /\ s \notin asks THEN [rows[s] EXCEPT !.state = "draft"] ELSE rows[s]]
Candidates(rows, p, st) ==
    {s \in DOMAIN rows : rows[s].pane = p /\ rows[s].state = st /\ rows[s].id # 0}
First(S) == CHOOSE s \in S : \A t \in S : s <= t
Source(rows, p) ==
    CASE Candidates(rows, p, "draft") # {} -> First(Candidates(rows, p, "draft"))
      [] Candidates(rows, p, "draft") = {} /\ Candidates(rows, p, "awaiting") # {} ->
            First(Candidates(rows, p, "awaiting"))
      [] OTHER -> 0
(* Mutant: a draft rebuilt at boot is never marked as sent.                *)
RehydratedUnsent(rows, s) ==
    IF s = 0 THEN NoDraft ELSE [id |-> rows[s].id, ver |-> rows[s].ver, sent |-> FALSE]
RehydratedDraft(rows, s) ==
    IF s = 0 THEN NoDraft
    ELSE [id |-> rows[s].id, ver |-> rows[s].ver,
          sent |-> rows[s].state = "awaiting"]
RehydratedBinding(rows, asks, s) ==
    IF s # 0 /\ s \in asks /\ rows[s].state = "awaiting" THEN [send |-> s, ver |-> 1] ELSE Unbound

Boot(rows, asks) ==
    LET recovered == Recovered(rows, asks) IN
    /\ row' = recovered
    /\ ask' = asks
    /\ open' = [p \in Panes |-> RehydratedDraft(recovered, Source(recovered, p))]
    /\ bound' = [p \in Panes |-> RehydratedBinding(recovered, asks, Source(recovered, p))]
    /\ here' = {}
    /\ moving' = Still
    /\ cloned' = \E p, q \in Panes : p # q /\ open'[p].id # 0 /\ open'[p].id = open'[q].id
    /\ typed' = {}
    /\ doubled' = FALSE
    /\ made' = made

Restart ==
    /\ minted' = minted
    /\ Boot(row, ask)

(* The process dies in a send after the approval row was stored and before *)
(* the exchange was moved to awaiting_approval, or in a resolution after   *)
(* the approval was claimed and before the exchange was told.              *)
CrashInSend(p) ==
    /\ IsOpen(p)
    /\ Sendable(open[p])
    /\ NextSend \in Sends
    /\ minted' = NextSend
    /\ Boot(Mint(p, "send", "draft"), ask \cup {NextSend})

CrashInResolution(s) ==
    /\ s \in ask
    /\ minted' = minted
    /\ Boot(row, ask \ {s})

Next ==
    \/ \E p \in Panes :
        \/ DraftInstruction(p) \/ ReviseInstruction(p)
        \/ CancelInstruction(p) \/ TypedEdit(p)
        \/ RetargetInstruction(p) \/ ResolvedTarget(p)
        \/ \E q \in Panes : ConfirmInstruction(p, q)
        \/ SendExecuted(p) \/ SendPending(p) \/ ProposeCommand(p) \/ WorkbenchSend(p)
        \/ Promote(p) \/ CrashInSend(p)
    \/ \E s \in Sends : Approve(s) \/ Refuse(s) \/ CrashInResolution(s)
    \/ UnresolvedTarget
    \/ Restart

Spec == Init /\ [][Next]_vars

(* The state has its type: rows are numbered in the order they were minted *)
(* and every open approval has its row.                                    *)
TypeOK ==
    /\ open \in [Panes -> Draft \cup {NoDraft}]
    /\ bound \in [Panes -> Binding]
    /\ made \in 0..MaxDrafts
    /\ minted \in 0..MaxSends
    /\ DOMAIN row \subseteq 1..minted
    /\ \A s \in DOMAIN row : row[s] \in Row
    /\ ask \subseteq DOMAIN row
    /\ here \subseteq ask
    /\ moving \in [pane : Panes \cup {Nil}, draft : Draft \cup {NoDraft}]
    /\ cloned \in BOOLEAN
    /\ typed \subseteq Panes \X Ids \X Versions
    /\ doubled \in BOOLEAN

(* An approval send_instruction staged in this process offers exactly what *)
(* the pane's draft says now: it is bound to the open draft, at the open   *)
(* version.  No edit, move, cancel or operator send, and no retarget that  *)
(* finishes late, leaves an approval that would type superseded text       *)
(* (invalidateOutstandingApproval, called on every path that bumps or      *)
(* closes a draft).                                                        *)
OffersCurrentText ==
    \A s \in here : row[s].lane = "send" =>
        /\ bound[row[s].pane] = [send |-> s, ver |-> row[s].ver]
        /\ open[row[s].pane].id = row[s].id
        /\ open[row[s].pane].ver = row[s].ver

(* A pane that claims to await an approval has an open draft, of a version *)
(* already marked as sent, and no two panes claim the same approval; across*)
(* restarts too, where the claim is rebuilt from rows.  Without it a pane  *)
(* without a draft would report an approval nobody can revise or cancel.   *)
ClaimsAreSound ==
    \A p \in Panes : bound[p].send # 0 =>
        /\ IsOpen(p)
        /\ open[p].sent
        /\ BoundTo(bound[p].send) = {p}

(* As long as no draft was cloned, a version of a draft is typed into a    *)
(* pane at most once by the sends of one process:                          *)
(* a repeated send, an approve after the operator sent the text by hand,   *)
(* or a second approval of one version never types it again (recordSend,   *)
(* settleEnvelopeDraftOnOperatorSend).                                     *)
TypedOnce == cloned \/ ~doubled
=============================================================================
