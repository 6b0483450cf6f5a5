---------------------------- MODULE DispatchJoin ----------------------------
(***************************************************************************)
(* Who listens to a pane: the observe pipeline (src/observe/index.ts),     *)
(* which turns the pane's callbacks and output into edges, and the join    *)
(* tracker (src/dispatch/joinTracker.ts), which follows the members of one *)
(* fan-out group on this pane (a macro may aim several steps at one pane)  *)
(* from their approvals to the report that the group is finished.  A group *)
(* is a dispatch or macro, which stages every member for approval, or the  *)
(* parallel steps of a plan, which run under the mode of the pane.         *)
(*                                                                         *)
(* The callbacks are synchronous: what is heard is part of the pane's own  *)
(* step, in the order the code fires it.                                   *)
(***************************************************************************)
EXTENDS PaneTerminal

CONSTANTS
  Members,  \* the inputs the group stages; the rest is typed by hand
  Other     \* an exchange of the pane that is not a member's

ASSUME MembersAssumption == Members \subseteq Inputs /\ Other \notin Inputs \cup {Nil} /\ Nil \notin Inputs

VARIABLES
  spine,   \* the exchange spine is on
  last,    \* lastStates of the pane
  member,  \* status of each member; unsent before the dispatch
  bound,   \* members recorded with an exchange (exchangeId)
  todo,    \* steps of a plan's group that its loop has not dispatched yet
  open,    \* members whose approval is open
  marker,  \* paneActive: the exchange delivered to the pane last
  told     \* the group is completed and was announced

recorded == <<spine, bound, todo>>
group    == <<member, open, marker, told>>
joinVars == <<paneVars, recorded, last, group>>

-----------------------------------------------------------------------------
(* Observation. *)

\* Mutant: any edge of the pane advances the member.
AdvancedByPane(from, to, members) ==
  IF told THEN members
  ELSE [m \in Members |-> IF members[m] = from THEN to ELSE members[m]]

\* noteRunning and settleGroupMembers: members advance on an edge of the pane, those
\* recorded with an exchange only while it is the active one.
Advanced(from, to, members) ==
  IF told THEN members
  ELSE [m \in Members |-> IF members[m] = from /\ (m \in bound => marker = m)
                         THEN to ELSE members[m]]

\* What onRunning makes of the members: the write of one starts all that may advance.
Started == IF RunningEdge THEN Advanced("staged", "running", member) ELSE member

\* onRunning forgets the last edge.
Forgot == IF RunningEdge THEN "none" ELSE last

InFlight(members) == \E m \in Members : members[m] \in {"staged", "running"}

\* noteTransition: the group is reported by the edge that settles its last member.
Settles(to, members) ==
  /\ member' = Advanced("running", to, members)
  /\ told' = (told \/ (member' # members /\ ~InFlight(member')))

\* classifyTransition of a chunk (plain or with an error marker), after the status
\* machine has seen it.
Class(chunk) ==
  IF status' = "Exited" THEN "exited"
  ELSE IF chunk = "error" THEN "error"
  ELSE IF status' = "Idle" THEN "idle" ELSE "none"

\* The callbacks of a step that brings the chunk, if any: output and death are
\* classified unless they repeat the last edge.
Hear(chunk) ==
  LET edge  == IF onBoard /\ (chunk # "none" \/ DeathEdge) THEN Class(chunk) ELSE "none"
      fresh == edge # "none" /\ edge # Forgot
  IN /\ last' = IF fresh THEN edge ELSE Forgot
     /\ \/ IdleEdge /\ Settles("done", Started)
        \/ ~IdleEdge /\ fresh /\ Settles(IF edge = "idle" THEN "done" ELSE "error", Started)
        \/ ~IdleEdge /\ ~fresh /\ member' = Started /\ told' = told

-----------------------------------------------------------------------------
(* Actions. *)

Init2 ==
  /\ Init
  /\ spine \in (IF "group" \in calls THEN BOOLEAN ELSE {FALSE})
  /\ last = "none"
  /\ member = [m \in Members |-> "unsent"]
  /\ bound = {} /\ todo = {}
  /\ open = {} /\ marker = Nil /\ told = FALSE

\* The loop of a plan's group is synchronous: nothing else runs before it is over.
Between == todo = {}

Undispatched ==
  /\ Settled /\ Between /\ "group" \in calls
  /\ \A m \in Members : member[m] = "unsent"

\* stageDispatchGroup: every write is staged for approval, or refused ("blocked", for
\* what stands as error as well).  With the spine on a member gets its exchange if the
\* approval was bound to one: by voice, unless the pane is in Full Auto.
Dispatch ==
  /\ Undispatched
  /\ member' \in [Members -> {"staged", "blocked"}]
  /\ open' = {m \in Members : member'[m] = "staged"}
  /\ bound' \in IF spine THEN SUBSET open' ELSE {{}}
  /\ UNCHANGED <<paneVars, spine, todo, last, marker, told>>

\* dispatchParallelGroup: the group is created before its loop dispatches the steps.
DispatchPlan ==
  /\ Undispatched
  /\ member' = [m \in Members |-> "staged"]
  /\ todo' = Members
  /\ UNCHANGED <<paneVars, spine, bound, last, open, marker, told>>

\* The marker after a write that is not a bound member's: it is moved by the delivery
\* of another exchange, or left.
MarkedByOthers == {marker} \cup (IF spine THEN {Other} ELSE {})

\* One turn of the loop: the step is typed, held for approval or refused, and recorded
\* without the exchange it may have.
PlanStep(m) ==
  /\ m \in todo
  /\ todo' = todo \ {m}
  /\ \/ /\ status # "Exited"
        /\ WriteInput(m)
        /\ last' = Forgot
        /\ member' = [Started EXCEPT ![m] = "running"]
        /\ marker' \in MarkedByOthers
        /\ UNCHANGED open
     \/ /\ member' = [member EXCEPT ![m] = "staged"]
        /\ open' = open \cup {m}
        /\ UNCHANGED <<paneVars, last, marker>>
     \/ /\ member' = [member EXCEPT ![m] = "blocked"]
        /\ UNCHANGED <<paneVars, last, open, marker>>
  /\ UNCHANGED <<spine, bound, told>>

\* renderApproved: the write fires onRunning before the delivery moves the marker, which
\* stays if the delivery cannot be recorded.
Approve(m) ==
  /\ Settled /\ Between
  /\ m \in open
  /\ open' = open \ {m}
  /\ IF onBoard /\ status # "Exited"
     THEN /\ WriteInput(m)
          /\ Hear("none")
          /\ marker' \in IF m \in bound THEN {marker, m} ELSE MarkedByOthers
     ELSE UNCHANGED <<paneVars, last, member, marker, told>>
  /\ UNCHANGED recorded

Reject(m) ==
  /\ Settled /\ Between
  /\ m \in open
  /\ open' = open \ {m}
  /\ UNCHANGED <<paneVars, recorded, last, member, marker, told>>

\* Without a group everything is typed by hand.
Manual == IF "group" \in calls THEN Inputs \ Members ELSE Inputs

\* A command of somebody else, as the delivery of an exchange or not.
WriteByHand(i) ==
  /\ Settled /\ Between
  /\ WriteInput(i)
  /\ Hear("none")
  /\ marker' \in MarkedByOthers
  /\ UNCHANGED <<recorded, open>>

RawByHand(i) ==
  /\ Between
  /\ WriteRaw(i)
  /\ UNCHANGED <<recorded, last, group>>

Output(g, chunk, launchFailure) ==
  /\ Between
  /\ Data(g, launchFailure)
  /\ Hear(chunk)
  /\ UNCHANGED <<recorded, open, marker>>

PaneStep ==
  /\ Between
  /\ Lifecycle
  /\ Hear("none")
  /\ UNCHANGED <<recorded, open, marker>>

Next ==
  \/ Dispatch
  \/ DispatchPlan
  \/ \E m \in Members : PlanStep(m) \/ Approve(m) \/ Reject(m)
  \/ \E i \in Manual : WriteByHand(i) \/ RawByHand(i)
  \/ \E g \in Procs, chunk \in {"plain", "error"}, f \in BOOLEAN : Output(g, chunk, f)
  \/ PaneStep

Spec == Init2 /\ [][Next]_joinVars

-----------------------------------------------------------------------------
(* Properties. *)

TypeOK ==
  /\ PaneTypeOK
  /\ spine \in BOOLEAN
  /\ last \in {"none", "error", "exited", "idle"}
  /\ member \in [Members -> {"unsent", "staged", "blocked", "running", "done", "error"}]
  /\ bound \subseteq Members /\ todo \subseteq Members
  /\ open \subseteq Members
  /\ marker \in Members \cup {Nil, Other}
  /\ told \in BOOLEAN

\* A member recorded with an exchange counts as running, done or failed only after its
\* own command was given to the pane: no edge made by another command, by a member
\* without an exchange, by output or by a restart advances it (joinTracker.ts:29-36,
\* 111-185).  Members without one, the steps of a plan among them, follow every edge of
\* the pane.
MembersOwnTheirEdges ==
  \A m \in bound : member[m] \in {"running", "done", "error"} => m \in used

\* A process that dies by itself on a pane of the board is announced, also when an
\* earlier process of the pane died (observe/index.ts:687-694, and the second death of
\* tests/test_pane_death_signal.ts:209-237).
DeathIsAnnounced ==
  [][DeathEdge /\ onBoard => last' = "exited" /\ last # "exited"]_joinVars
=============================================================================
