---------------------------- MODULE ApprovalGate ----------------------------
(***************************************************************************)
(* The requests Janus stages for the operator and what becomes of them:    *)
(* held pane writes ("approvals", src/pendingApprovals.ts) and deferred    *)
(* side effects ("actions", src/pendingActions.ts), the resolution and the *)
(* sweep that src/gating/index.ts binds to them, the voice sessions that   *)
(* own approvals, the durable rows, and the queue of spoken last-calls the *)
(* turn arbiter keeps (src/voice/turnArbiter.ts).                          *)
(*                                                                         *)
(* Time is kept as ages, counted in units and stopped at the first value   *)
(* no guard tells from a larger one; Tick adds a unit to all of them.      *)
(***************************************************************************)
EXTENDS Integers, FiniteSets

CONSTANTS
    Approvals,      \* held pane writes
    Actions,        \* deferred side effects
    Sessions,       \* live voice sessions
    Nil,            \* nothing: no record, no row, no letter, no session
    Rest,           \* the null session of a request that came over REST
    TTL,            \* APPROVAL_TTL_MS, in units
    GRACE,          \* APPROVAL_GRACE_MS
    CAP,            \* TTL_FLOOR_EXTENSION_CAP_MS
    PRUNE,          \* PENDING_PRUNE_GRACE_MS
    MaxDeferrals    \* MAX_DEFERRALS

ASSUME TimesAssumption ==
    /\ {TTL, GRACE, CAP, PRUNE, MaxDeferrals} \subseteq Nat
    /\ TTL > 0 /\ GRACE > 0
ASSUME NamesAssumption ==
    /\ Approvals \cap Actions = {}
    /\ Nil # Rest /\ {Nil, Rest} \cap Sessions = {}

Items == Approvals \cup Actions

VARIABLES
    mem,        \* [Items -> the record in memory, or Nil]
    row,        \* [Items -> its durable row, or Nil]
    ran,        \* [Items -> Nat], how often its effect ran
    ended,      \* [Items -> how it ended; "no" before]
    window,     \* [Items -> age of its present window: since add, defer, reattach]
    conn,       \* the sessions that are up
    gone,       \* lost sessions whose handle a tool call may still hold
    active,     \* coreState.activeLiveSession
    letter,     \* [Items -> its queued "last-call:<id>" in the arbiter, or Nil]
    credit,     \* [Items -> lastKnownPausedMs of that key, 0 when absent]
    frozen,     \* stop-all is engaged; durable
    torn        \* a crash cut a stop-all short since the last release

vars == <<mem, row, ran, ended, window, conn, gone, active, letter, credit,
          frozen, torn>>

----------------------------------------------------------------------------
AgeCap(i) == IF i \in Actions THEN TTL + PRUNE + 1 ELSE TTL + 1
HeardCap == GRACE + CAP + 1
Up(age, cap) == IF age < cap THEN age + 1 ELSE cap
Least(a, b) == IF a < b THEN a ELSE b

\* add: a fresh record and its dual-written row (expires_at = timestamp + ttl).
\* It is late when the session it is added under was lost before.
NewRecord(owner) ==
    [owner |-> owner, age |-> 0, heard |-> -1, defers |-> 0, late |-> owner \in gone]
NewRow == [claimed |-> FALSE, stamp |-> 0, age |-> 0]

\* submit of a last-call: its deadline is GRACE from now.
NewLetter(text) ==
    [dated |-> text = "call", text |-> text, age |-> 0, paused |-> 0,
     tick |-> -1, held |-> FALSE]

\* Connectivity, as each leg of the sweep asks for it: an approval by its own
\* session (sessionFor # undefined, which the null of REST and a dead handle pass), an action
\* by the live session.
Connected(i) ==
    IF i \in Approvals THEN mem[i].owner # Nil ELSE active # Nil

\* (mutant) the first-crossing gate asked before the grace of a spoken last call
VerdictTtlFirst(i) ==
    CASE ~Connected(i) -> "none"
      [] mem[i].age > TTL -> "lastcall"
      [] OTHER -> "none"

\* decideSweepAction
Verdict(i) ==
    CASE ~Connected(i) -> "none"
      [] mem[i].heard >= 0 ->
            IF mem[i].heard > GRACE + credit[i] THEN "reject" ELSE "none"
      [] mem[i].age > TTL -> "lastcall"
      [] OTHER -> "none"

\* expired(): approvals by their unclaimed durable row, actions by memory.
Listed(i) ==
    /\ mem[i] # Nil
    /\ IF i \in Approvals
       THEN row[i] # Nil /\ ~row[i].claimed /\ row[i].age > TTL
       ELSE mem[i].age > TTL

\* What the sweep does about i: speak its last call, or drop it.
Calls(i) == Listed(i) /\ Verdict(i) = "lastcall"
Drops(i) == Listed(i) /\ Verdict(i) = "reject"

\* claim: the atomic UPDATE ... WHERE claimed = 0 finds a row to flip.
Claimable(i) == row[i] # Nil /\ ~row[i].claimed

Without(f, S) == [i \in Items |-> IF i \in S THEN Nil ELSE f[i]]
Zeroed(f, S) == [i \in Items |-> IF i \in S THEN 0 ELSE f[i]]
Ending(S, how) == [i \in Items |-> IF i \in S THEN how ELSE ended[i]]

\* (mutant) the row of a resolved request is not deleted
SettleKeepsRow(S, how) ==
    /\ mem' = Without(mem, S)
    /\ row' = row
    /\ ended' = Ending(S, how)

\* The dead pane, the claim and the delete of one resolution.
Settle(S, how) ==
    /\ mem' = Without(mem, S)
    /\ row' = Without(row, S)
    /\ ended' = Ending(S, how)

\* removeQueuedLastCall, onResolved: the letter and its credit go.
Unqueue(S) ==
    /\ letter' = Without(letter, S)
    /\ credit' = Zeroed(credit, S)

----------------------------------------------------------------------------
Init ==
    /\ mem = [i \in Items |-> Nil]
    /\ row = [i \in Items |-> Nil]
    /\ ran = [i \in Items |-> 0]
    /\ ended = [i \in Items |-> "no"]
    /\ window = [i \in Items |-> 0]
    /\ conn = {}
    /\ gone = {}
    /\ active = Nil
    /\ letter = [i \in Items |-> Nil]
    /\ credit = [i \in Items |-> 0]
    /\ frozen = FALSE
    /\ torn = FALSE

\* decideProposal / gateOrDefer answers "Ask": applyDispatchDecision adds the
\* approval under its origin's session, gateOrDefer stages the action.  A tool
\* call holds the session it was dispatched with across its awaits, so that may
\* be one lost meanwhile.  While frozen every capability is Off and nothing is
\* staged.
Stage(i) ==
    /\ ~frozen
    /\ mem[i] = Nil /\ ended[i] = "no"
    /\ \E owner \in IF i \in Approvals THEN conn \cup gone \cup {Rest} ELSE {Nil} :
          mem' = [mem EXCEPT ![i] = NewRecord(owner)]
    /\ row' = [row EXCEPT ![i] = NewRow]
    /\ window' = [window EXCEPT ![i] = 0]
    /\ UNCHANGED <<ran, ended, conn, gone, active, letter, credit, frozen, torn>>

\* applyResolution(id, "approve") and confirm(id): an approval whose pane is gone
\* or Exited is dropped without a claim; otherwise the claim must win, and the
\* effect runs after it.  A lost claim changes nothing.
Approve(i) ==
    /\ mem[i] # Nil
    /\ \/ /\ i \in Approvals
          /\ Settle({i}, "done")
          /\ UNCHANGED ran
       \/ /\ Claimable(i)
          /\ Settle({i}, "done")
          /\ ran' = [ran EXCEPT ![i] = @ + 1]
    /\ Unqueue({i})
    /\ UNCHANGED <<window, conn, gone, active, frozen, torn>>

\* applyResolution(id, "reject") and cancel(id).
Reject(i) ==
    /\ mem[i] # Nil
    /\ Claimable(i)
    /\ Settle({i}, "done")
    /\ Unqueue({i})
    /\ UNCHANGED <<ran, window, conn, gone, active, frozen, torn>>

\* (mutant) a deferral leaves the queued last-call behind
DeferKeepsLetter(i) ==
    /\ mem[i] # Nil
    /\ mem[i].defers < MaxDeferrals
    /\ mem' = [mem EXCEPT ![i].age = 0, ![i].heard = -1, ![i].defers = @ + 1]
    /\ window' = [window EXCEPT ![i] = 0]
    /\ UNCHANGED <<row, ran, ended, conn, gone, active, letter, credit, frozen, torn>>

\* (mutant) the limit on deferrals is off by one
DeferOnceMore(i) ==
    /\ mem[i] # Nil
    /\ mem[i].defers <= MaxDeferrals
    /\ mem' = [mem EXCEPT ![i].age = 0, ![i].heard = -1, ![i].defers = @ + 1]
    /\ window' = [window EXCEPT ![i] = 0]
    /\ Unqueue({i})
    /\ UNCHANGED <<row, ran, ended, conn, gone, active, frozen, torn>>

\* applyDeferral, and handleDefer for actions: "later".  The durable row keeps
\* its stale expiry; the queued last-call goes.
Defer(i) ==
    /\ mem[i] # Nil
    /\ mem[i].defers < MaxDeferrals
    /\ mem' = [mem EXCEPT ![i].age = 0, ![i].heard = -1, ![i].defers = @ + 1]
    /\ window' = [window EXCEPT ![i] = 0]
    /\ Unqueue({i})
    /\ UNCHANGED <<row, ran, ended, conn, gone, active, frozen, torn>>

----------------------------------------------------------------------------
\* sweepExpiredApprovals over the items S: a whole tick when S = Items, the part
\* before the throw when the store faults mid-way (the tick is non-fatal).  An
\* expired approval leaves the honest notice under its last-call's key; an
\* expired action leaves its letter where it is and only gives back the credit.
SweepItems(S) ==
    LET called(i) == i \in S /\ Calls(i)
        won(i) == i \in S /\ Drops(i) /\ Claimable(i)
    IN  /\ \E i \in S : Calls(i) \/ Drops(i)
        /\ UNCHANGED <<ran, window, conn, gone, active, frozen, torn>>
        /\ mem' = [i \in Items |->
                     IF called(i) THEN [mem[i] EXCEPT !.heard = 0]
                     ELSE IF won(i) THEN Nil ELSE mem[i]]
        /\ row' = [i \in Items |-> IF won(i) THEN Nil ELSE row[i]]
        /\ ended' = [i \in Items |-> IF won(i) THEN "expired" ELSE ended[i]]
        /\ letter' = [i \in Items |->
                        IF called(i) THEN NewLetter("call")
                        ELSE IF i \in Approvals /\ won(i) THEN NewLetter("over")
                        ELSE letter[i]]
        /\ credit' = [i \in Items |->
                        IF won(i) \/ (i \in Actions /\ i \in S /\ Drops(i)) THEN 0
                        ELSE credit[i]]

Sweep == SweepItems(Items)
TornSweep ==
    \E S \in SUBSET Items :
        /\ \E i \in Items \ S : Calls(i) \/ Drops(i)
        /\ SweepItems(S)

\* (mutant) retention treats expired approvals as it treats expired actions
PrunableApprovals(i) ==
    /\ row[i] # Nil
    /\ row[i].claimed \/ row[i].age > TTL

\* sweepMaintenance (pruneIncremental): claimed rows, and the rows of actions
\* long past their expiry.
Prunable(i) ==
    /\ row[i] # Nil
    /\ row[i].claimed \/ (i \in Actions /\ row[i].age > TTL + PRUNE)

Retention ==
    /\ \E i \in Items : Prunable(i)
    /\ row' = Without(row, {i \in Items : Prunable(i)})
    /\ UNCHANGED <<mem, ran, ended, window, conn, gone, active, letter, credit,
                   frozen, torn>>

----------------------------------------------------------------------------
\* What a letter says when it is spoken now (factsForDrain).
FactsForDrain(m) ==
    IF m.dated /\ m.age >= GRACE + m.paused THEN "over" ELSE m.text

\* advancePause at an evaluate() that saw the floor held or not: a span counts when
\* the floor was held at both its ends.
Advanced(m, floorHeld) ==
    IF ~m.dated THEN m
    ELSE [m EXCEPT !.paused = IF floorHeld /\ m.held /\ m.tick > 0
                              THEN Least(CAP, @ + m.tick) ELSE @,
                   !.tick = 0,
                   !.held = floorHeld]

\* resubmitUndeliveredDigest: the facts go back, the deadline does not.
Resubmitted(text) == [NewLetter(text) EXCEPT !.dated = FALSE]

\* evaluate and the send of what it drains, in the drain tick of the live
\* session: an extended deadline reached under a held floor interrupts, one
\* item at a time; a clear turn drains everything; a failed send puts the
\* digest back.
DrainArbiterTick ==
    /\ active # Nil
    /\ \E i \in Items : letter[i] # Nil
    /\ UNCHANGED <<mem, row, ran, ended, window, conn, gone, active, frozen, torn>>
    /\ \E floorHeld \in BOOLEAN :
       LET told(i) == IF letter[i] = Nil THEN Nil ELSE Advanced(letter[i], floorHeld)
           dated(i) == told(i) # Nil /\ told(i).dated
           reached(i) == dated(i) /\ told(i).age >= GRACE + told(i).paused
           ledger(i) == IF dated(i) THEN told(i).paused ELSE credit[i]
           spoken(i) == IF floorHeld /\ told(i).age = GRACE + told(i).paused
                        THEN told(i).text ELSE FactsForDrain(told(i))
           out == IF floorHeld THEN {{i} : i \in {k \in Items : reached(k)}}
                  ELSE {{i \in Items : told(i) # Nil}}
       IN  \/ /\ out = {}
              /\ letter' = [i \in Items |-> told(i)]
              /\ credit' = [i \in Items |-> ledger(i)]
           \/ \E S \in out : \E sent \in BOOLEAN :
                /\ letter' = [i \in Items |->
                                IF i \notin S THEN told(i)
                                ELSE IF sent THEN Nil ELSE Resubmitted(spoken(i))]
                /\ credit' = [i \in Items |->
                                IF i \in S /\ reached(i) THEN 0 ELSE ledger(i)]

\* The drain tick comes round every OPERATOR_HOLD_MS, well inside one unit, so
\* a live session has observed every deadline before the unit ends.
DrainKeepsPace ==
    active # Nil => \A i \in Items :
        letter[i] # Nil /\ letter[i].dated => letter[i].tick = 0

Tick ==
    /\ DrainKeepsPace
    /\ UNCHANGED <<ran, ended, conn, gone, active, credit, frozen, torn>>
    /\ mem' = [i \in Items |-> IF mem[i] = Nil THEN Nil
                 ELSE [mem[i] EXCEPT !.age = Up(@, TTL + 1),
                        !.heard = IF @ < 0 THEN @ ELSE Up(@, HeardCap)]]
    /\ row' = [i \in Items |-> IF row[i] = Nil THEN Nil
                 ELSE [row[i] EXCEPT !.stamp = Up(@, TTL + 1),
                        !.age = Up(@, AgeCap(i))]]
    /\ window' = [i \in Items |-> IF mem[i] = Nil THEN 0 ELSE Up(window[i], TTL + 1)]
    /\ letter' = [i \in Items |-> IF letter[i] = Nil \/ ~letter[i].dated THEN letter[i]
                    ELSE [letter[i] EXCEPT !.age = Up(@, HeardCap),
                           !.tick = IF @ < 0 THEN @ ELSE Up(@, CAP)]]

----------------------------------------------------------------------------
\* A session of this name can come up: a new handle, so not while a record is
\* bound to the old one.
Fresh(s) ==
    /\ s \notin conn
    /\ \A a \in Approvals : mem[a] # Nil => mem[a].owner # s

\* (mutant) re-attachment leaves the durable row as it was
ConnectKeepsRow(s) ==
    LET orphans == {i \in Approvals : mem[i] # Nil /\ mem[i].owner = Nil}
    IN  /\ Fresh(s)
        /\ conn' = conn \cup {s}
        /\ gone' = gone \ {s}
        /\ active' = s
        /\ mem' = [i \in Items |-> IF i \in orphans
                     THEN [mem[i] EXCEPT !.owner = s, !.heard = -1] ELSE mem[i]]
        /\ window' = Zeroed(window, orphans)
        /\ Unqueue(orphans)
        /\ UNCHANGED <<row, ran, ended, frozen, torn>>

\* The connect promise resolved: the session is hoisted and reannounceSurvivors
\* re-attaches every orphan to it, with a fresh window and a rewritten row, and
\* removes its stale last-call.
Connect(s) ==
    LET orphans == {i \in Approvals : mem[i] # Nil /\ mem[i].owner = Nil}
    IN  /\ Fresh(s)
        /\ conn' = conn \cup {s}
        /\ gone' = gone \ {s}
        /\ active' = s
        /\ mem' = [i \in Items |-> IF i \in orphans
                     THEN [mem[i] EXCEPT !.owner = s, !.heard = -1] ELSE mem[i]]
        /\ row' = [i \in Items |-> IF i \in orphans
                     THEN [claimed |-> row[i].claimed, stamp |-> mem[i].age, age |-> 0]
                     ELSE row[i]]
        /\ window' = Zeroed(window, orphans)
        /\ Unqueue(orphans)
        /\ UNCHANGED <<ran, ended, frozen, torn>>

\* doHandleSessionLost and the client's close: detachSession.  Only the hoisted
\* session's own loss clears activeLiveSession.  The close that follows a loss
\* detaches again what was staged under the dead session in between.
Lose(s) ==
    /\ s \in conn \/ \E a \in Approvals : mem[a] # Nil /\ mem[a].owner = s
    /\ conn' = conn \ {s}
    /\ gone' = gone \cup {s}
    /\ active' = IF active = s THEN Nil ELSE active
    /\ mem' = [i \in Items |-> IF mem[i] # Nil /\ i \in Approvals /\ mem[i].owner = s
                 THEN [mem[i] EXCEPT !.owner = Nil, !.late = FALSE] ELSE mem[i]]
    /\ UNCHANGED <<row, ran, ended, window, letter, credit, frozen, torn>>

----------------------------------------------------------------------------
Open == {i \in Items : mem[i] # Nil}

\* (mutant) stop-all cancels the approvals and forgets the actions
FreezeForgetsActions ==
    LET braked == {i \in Open \cap Approvals : Claimable(i)}
    IN  /\ ~frozen
        /\ frozen' = TRUE
        /\ Settle(braked, "expired")
        /\ letter' = [i \in Items |-> IF i \in braked THEN NewLetter("over") ELSE letter[i]]
        /\ credit' = Zeroed(credit, braked)
        /\ UNCHANGED <<ran, window, conn, gone, active, torn>>

\* stopAllStage1Freeze: every approval, and every action whose claim wins, is
\* expired, and the notice of it collapses into its last-call's key.
Freeze ==
    LET braked == {i \in Open : Claimable(i)}
    IN  /\ ~frozen
        /\ frozen' = TRUE
        /\ Settle(braked, "expired")
        /\ letter' = [i \in Items |-> IF i \in braked THEN NewLetter("over") ELSE letter[i]]
        /\ credit' = Zeroed(credit, braked)
        /\ UNCHANGED <<ran, window, conn, gone, active, torn>>

ReleaseStopAll ==
    /\ frozen
    /\ frozen' = FALSE
    /\ torn' = FALSE
    /\ UNCHANGED <<mem, row, ran, ended, window, conn, gone, active, letter, credit>>

\* drainPaneOnPromotion: approvals are deleted outright, actions cancelled.
Promote ==
    LET drained == (Approvals \cap Open) \cup {i \in Actions \cap Open : Claimable(i)}
    IN  /\ drained # {}
        /\ Settle(drained, "drained")
        /\ Unqueue(drained \cap Actions)
        /\ UNCHANGED <<ran, window, conn, gone, active, frozen, torn>>

----------------------------------------------------------------------------
\* The process dies and comes back with the durable rows r: the boot prune, then
\* the hydration of approvals (as orphans) and of actions (under their closures
\* rebuilt).  Sessions, letters, deferral counts are memory and are gone.
Reboot(r) ==
    LET kept(i) == /\ r[i] # Nil /\ ~r[i].claimed
                   /\ ~(i \in Actions /\ r[i].age > TTL + PRUNE)
    IN  /\ mem' = [i \in Items |-> IF kept(i)
                     THEN [NewRecord(Nil) EXCEPT !.age = r[i].stamp] ELSE Nil]
        /\ row' = [i \in Items |-> IF kept(i) THEN r[i] ELSE Nil]
        /\ ended' = Ending({i \in Open : ~kept(i) /\ ended[i] = "no"}, "done")
        /\ conn' = {}
        /\ gone' = {}
        /\ active' = Nil
        /\ letter' = [i \in Items |-> Nil]
        /\ credit' = [i \in Items |-> 0]
        /\ window' = [i \in Items |-> IF kept(i) THEN Least(r[i].stamp, r[i].age) ELSE 0]
        /\ UNCHANGED ran

Restart == Reboot(row) /\ UNCHANGED <<frozen, torn>>

\* A crash between the claim and the delete of one resolution: the claimed row
\* is all that is left, and it is never hydrated.
CrashAfterClaim(i) ==
    /\ mem[i] # Nil /\ Claimable(i)
    /\ Reboot([row EXCEPT ![i].claimed = TRUE])
    /\ UNCHANGED <<frozen, torn>>

\* A crash inside stop-all, after the freeze and some of the expiries.
CrashInFreeze(S) ==
    /\ ~frozen
    /\ frozen' = TRUE
    /\ torn' = TRUE
    /\ Reboot(Without(row, S))

Next ==
    \/ \E i \in Items : Stage(i) \/ Approve(i) \/ Reject(i) \/ Defer(i) \/ CrashAfterClaim(i)
    \/ Sweep \/ TornSweep \/ Retention \/ DrainArbiterTick \/ Tick
    \/ \E s \in Sessions : Connect(s) \/ Lose(s)
    \/ Freeze \/ ReleaseStopAll \/ Promote \/ Restart
    \/ \E S \in SUBSET Open : CrashInFreeze(S)

Spec == Init /\ [][Next]_vars

\* setInterval fires the sweep, the drain loop re-arms itself, time passes.
Fairness == WF_vars(Sweep) /\ WF_vars(DrainArbiterTick) /\ SF_vars(Tick)

FairSpec == Spec /\ Fairness
----------------------------------------------------------------------------
(* Properties *)

Records == [owner : Sessions \cup {Nil, Rest}, age : 0..(TTL + 1),
            heard : -1..HeardCap, defers : 0..MaxDeferrals, late : BOOLEAN]
Rows(i) == [claimed : BOOLEAN, stamp : 0..(TTL + 1), age : 0..AgeCap(i)]
Letters == [dated : BOOLEAN, text : {"call", "over"}, age : 0..HeardCap,
            paused : 0..CAP, tick : -1..CAP, held : BOOLEAN]
Endings == {"no", "expired", "drained", "done"}

\* Nothing is not taken for something.
ASSUME NilAssumption ==
    /\ Nil \notin Records \cup Letters
    /\ \A i \in Items : Nil \notin Rows(i)

\* The types of the gate's state.
TypeOK ==
    /\ mem \in [Items -> Records \cup {Nil}]
    /\ DOMAIN row = Items /\ \A i \in Items : row[i] \in Rows(i) \cup {Nil}
    /\ ran \in [Items -> Nat]
    /\ ended \in [Items -> Endings]
    /\ window \in [Items -> 0..(TTL + 1)]
    /\ conn \subseteq Sessions
    /\ gone \subseteq Sessions \ conn
    /\ active \in conn \cup {Nil}
    /\ letter \in [Items -> Letters \cup {Nil}]
    /\ credit \in [Items -> 0..CAP]
    /\ {frozen, torn} \subseteq BOOLEAN

\* While stop-all is engaged nothing that could still be confirmed is waiting
\* (stopAllStage1Freeze cancels it all, the gate stages nothing more), unless a
\* crash cut the stop-all itself short.
FrozenIsQuiet == frozen /\ ~torn => \A i \in Open : ~Claimable(i)

\* The arbiter never holds a letter that would say something false if spoken
\* now: "approve now" is about a request still open whose last call is out, and
\* "it expired" about one that expired, or whose grace is over with the sweep
\* still to come (turnArbiter remove, renderExpired's collapse, factsForDrain).
\* Two gaps of the code are excepted: a promotion leaves the letter of a drained
\* approval behind, and the sweep that of an expired action.  That one asks for an
\* answer again when a failed send put it back without its deadline, or when the
\* floor was held before and after a lost session: advancePause then counts the
\* whole gap as pause.
LettersHonest ==
    \A i \in Items : letter[i] # Nil /\ ended[i] # "drained" =>
        IF FactsForDrain(letter[i]) = "call"
        THEN \/ mem[i] # Nil /\ mem[i].heard >= 0
             \/ i \in Actions /\ ended[i] = "expired"
        ELSE \/ ended[i] = "expired"
             \/ mem[i] # Nil /\ mem[i].heard >= GRACE

\* A held approval can always be answered, and by whom it says: its row is there
\* and unclaimed, whatever detached, re-attached, restarted or pruned, and a
\* session that is lost leaves none behind (detachSession, reattachSession).  Only
\* one that was added under a session already lost, by a tool call that outlived
\* it, stays with that session: orphans() finds it only when the client's close
\* detaches it too.
ApprovalsReachable ==
    \A a \in Approvals : mem[a] # Nil =>
        /\ Claimable(a)
        /\ mem[a].owner \in conn \cup {Nil, Rest} \/ mem[a].late

\* A last call goes out only when a whole TTL has passed since the request was
\* staged, deferred or re-attached: neither the stale durable expiry of a
\* deferral nor the old timestamp of a re-attached survivor shortens it.  (A
\* deferral is memory: after a restart the window is the durable one again.)
NoEarlyLastCall ==
    [][\A i \in Items :
         /\ mem[i] # Nil /\ mem[i].heard < 0
         /\ mem'[i] # Nil /\ mem'[i].heard >= 0
         => window[i] > TTL]_vars

\* Every request is decided once and takes effect at most once, and never when
\* it was closed otherwise, across races, sweeps, drains, crashes and restarts.
Status(i) ==
    IF mem[i] # Nil THEN "open"
    ELSE IF ran[i] > 0 THEN "granted"
    ELSE IF ended[i] = "no" THEN "absent" ELSE "closed"

Decision == INSTANCE DecisionOnce WITH
    status <- [i \in Items |-> Status(i)], effects <- ran

DecidesOnce == Decision!DecisionSpec

\* An approval that from some time on always has a session to hear its last
\* call, or a handle that passes for one (Connected), does not stay open for
\* ever: deferrals are bounded and so is the extension a held floor gives.
SettledIfHeard ==
    \A a \in Approvals :
        <>[](mem[a] # Nil => mem[a].owner # Nil) => <>[](mem[a] = Nil)
=============================================================================
