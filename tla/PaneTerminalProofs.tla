------------------------- MODULE PaneTerminalProofs -------------------------
(***************************************************************************)
(* What holds of the pane and its processes for any number of processes,   *)
(* any inputs and any calls that meet: one process at a time, no process   *)
(* under a pane shown as Exited, no process left behind by a restart.      *)
(*                                                                         *)
(* The argument: a teardown kills the one process that lives, and until it *)
(* settles only a caller other than restart may start a new one; restart   *)
(* and archive are never both past the lock.                               *)
(***************************************************************************)
EXTENDS DispatchJoin, TLAPS

PaneTypes ==
  /\ proc \in [Procs -> {"none", "live", "signalled", "gone"}]
  /\ by \in [Procs -> Callers \cup {Nil}]
  /\ op \in [Callers -> {"idle", "queued", "stopping", "resumed"}]

\* A caller that resumes finds no teardown in flight.
ResumedAfterStop == \A c \in Callers : op[c] = "resumed" => ~stopping

\* Past the lock.
Holds(c) == op[c] \in {"stopping", "resumed"}

LockExcludes == ~(Holds("restart") /\ Holds("archive"))

\* While a teardown or an archive is under way, what lives was not restarted.
NoneRestarted == \A g \in Procs : proc[g] = "live" => by[g] # "restart"

TeardownSpares == stopping \/ Holds("archive") => NoneRestarted

PInv ==
  /\ PaneTypes
  /\ OneProcess
  /\ LiveIsNotExited
  /\ RestartNeverGhosts
  /\ ResumedAfterStop
  /\ LockExcludes
  /\ TeardownSpares

\* The steps of the pane.
PaneNext ==
  \/ Lifecycle
  \/ \E i \in Inputs : WriteInput(i) \/ WriteRaw(i)
  \/ \E g \in Procs, f \in BOOLEAN : Data(g, f)

-----------------------------------------------------------------------------
(* The steps that start nothing and stop nothing. *)

\* What such a step leaves alone, and that it never marks a pane as Exited.
Quiet ==
  /\ UNCHANGED <<proc, by, transport, callers>>
  /\ status' = "Exited" => status = "Exited"

\* The status machine never decides Exited (src/statusMachine.ts).
LEMMA ApplyKeepsAlive ==
  ASSUME NEW event \in {"input", "busy", "free", "unsure", "output", "timer"}, Apply(event)
  PROVE  status' = "Exited" => status = "Exited"
<1>1. CASE status = "Exited"
  BY <1>1
<1>2. CASE status # "Exited"
  <2>1. status' = Verdict(event).status
    BY <1>2 DEF Apply
  <2>2. Verdict(event).status \in {status, "Running"} \cup {"Idle"}
    BY DEF Verdict
  <2> QED BY <1>2, <2>1, <2>2
<1> QED BY <1>1, <1>2

LEMMA QuietSteps ==
  ASSUME \/ \E e \in {"busy", "free", "unsure"} : ProbeTick(e)
         \/ IdleTimerFires \/ TypeBody \/ TypeEnter \/ ReadyFallback
         \/ \E i \in Inputs : WriteInput(i) \/ WriteRaw(i)
         \/ \E g \in Procs, f \in BOOLEAN : Data(g, f)
  PROVE  Quiet
<1>1. CASE \E e \in {"busy", "free", "unsure"} : ProbeTick(e)
  BY <1>1, ApplyKeepsAlive DEF ProbeTick, Quiet, spawn
<1>2. CASE IdleTimerFires
  BY <1>2, ApplyKeepsAlive DEF IdleTimerFires, Quiet, spawn
<1>3. CASE TypeBody
  BY <1>3 DEF TypeBody, Quiet, spawn, machine
<1>4. CASE TypeEnter
  BY <1>4 DEF TypeEnter, Quiet, spawn, machine
<1>5. CASE ReadyFallback
  BY <1>5 DEF ReadyFallback, Quiet, machine
<1>6. ASSUME NEW i \in Inputs, WriteInput(i) PROVE Quiet
  BY <1>6, ApplyKeepsAlive DEF WriteInput, Quiet, spawn
<1>7. ASSUME NEW i \in Inputs, WriteRaw(i) PROVE Quiet
  BY <1>7 DEF WriteRaw, Quiet, spawn, machine
<1>8. ASSUME NEW g \in Procs, NEW f \in BOOLEAN, Data(g, f) PROVE Quiet
  BY <1>8, ApplyKeepsAlive DEF Data, Quiet
<1> QED BY <1>1, <1>2, <1>3, <1>4, <1>5, <1>6, <1>7, <1>8

LEMMA QuietKeeps ==
  ASSUME PInv, Quiet
  PROVE  PInv'
<1>1. UNCHANGED <<proc, by, transport, op, stopping, onBoard, archiving>>
  BY DEF Quiet, callers
<1>2. LiveIsNotExited'
  BY <1>1 DEF PInv, LiveIsNotExited, Quiet
<1> QED
  BY <1>1, <1>2 DEF PInv, PaneTypes, OneProcess, RestartNeverGhosts, ResumedAfterStop,
     LockExcludes, Holds, TeardownSpares, NoneRestarted

-----------------------------------------------------------------------------
(* Processes that start and stop. *)

\* Nothing lives after a kill, since nothing but the current process did.
LEMMA KilledLeavesNone ==
  ASSUME PInv
  PROVE  /\ Killed \in [Procs -> {"none", "live", "signalled", "gone"}]
         /\ \A g \in Procs : Killed[g] # "live"
<1>1. 0 \notin Procs
  BY SpawnsAssumption DEF Procs
<1>2. proc \in [Procs -> {"none", "live", "signalled", "gone"}]
  BY DEF PInv, PaneTypes
<1>3. \A g \in Procs : proc[g] = "live" => g = transport /\ transport # 0
  BY <1>1 DEF PInv, OneProcess
<1>4. CASE transport # 0 /\ proc[transport] = "live"
  <2>1. Killed = [proc EXCEPT ![transport] = "signalled"]
    BY <1>4 DEF Killed
  <2> QED BY <1>2, <1>3, <2>1
<1>5. CASE ~(transport # 0 /\ proc[transport] = "live")
  BY <1>2, <1>3, <1>5 DEF Killed
<1> QED BY <1>4, <1>5

\* After start() at most the new process lives, under a pane that shows as Running.
LEMMA StartSpawnsOne ==
  ASSUME PInv, NEW c \in Callers, Start(c)
  PROVE  /\ proc' \in [Procs -> {"none", "live", "signalled", "gone"}]
         /\ by' \in [Procs -> Callers \cup {Nil}]
         /\ OneProcess'
         /\ LiveIsNotExited'
         /\ \A g \in Procs : proc'[g] = "live" => by'[g] = c
<1> DEFINE n == Cardinality(Spawned) + 1
<1>1. CASE /\ proc' = [Killed EXCEPT ![n] = "live"]
           /\ by' = [by EXCEPT ![n] = c]
           /\ transport' = n
           /\ status' = "Running"
  <2> HIDE DEF n
  <2>1. \A g \in Procs : proc'[g] = "live" => g = n
    BY <1>1, KilledLeavesNone
  <2> QED
    BY <1>1, <2>1, KilledLeavesNone DEF PInv, PaneTypes, OneProcess, LiveIsNotExited
<1>2. CASE proc' = Killed /\ transport' = 0 /\ UNCHANGED by
  BY <1>2, KilledLeavesNone DEF PInv, PaneTypes, OneProcess, LiveIsNotExited
<1> QED BY <1>1, <1>2 DEF Start

\* stop() leaves no process that was restarted, whether it kills or joins a teardown.
LEMMA StopSparesNone ==
  ASSUME PInv, Stop, UNCHANGED <<status, by>>
  PROVE  /\ proc' \in [Procs -> {"none", "live", "signalled", "gone"}]
         /\ OneProcess'
         /\ \A g \in Procs : proc'[g] = "live" => by[g] # "restart"
         /\ transport' # 0 => proc' = proc /\ transport' = transport
         /\ stopping' <=> stopping \/ transport # 0
<1>1. CASE stopping
  BY <1>1 DEF PInv, Stop, PaneTypes, OneProcess, TeardownSpares, NoneRestarted
<1>2. CASE ~stopping
  BY <1>2, KilledLeavesNone DEF PInv, Stop, OneProcess
<1> QED BY <1>1, <1>2

\* A caller that stops the pane and waits keeps the invariant, if it may take the lock.
LEMMA AwaitKeeps ==
  ASSUME PInv, Settled, NEW c \in Callers, Await(c), UNCHANGED onBoard,
         c \in {"restart", "archive"} => ~Locked
  PROVE  PInv'
<1>1. /\ Stop /\ UNCHANGED <<status, by>>
      /\ op' = [op EXCEPT ![c] = IF stopping \/ transport # 0 THEN "stopping" ELSE "resumed"]
  BY DEF Await
<1>2. PaneTypes'
  BY <1>1, StopSparesNone DEF PInv, PaneTypes
<1>3. LiveIsNotExited'
  BY <1>1, StopSparesNone DEF PInv, LiveIsNotExited
<1>4. RestartNeverGhosts' /\ TeardownSpares'
  BY <1>1, StopSparesNone DEF RestartNeverGhosts, TeardownSpares, NoneRestarted
<1>5. ResumedAfterStop'
  BY <1>1, StopSparesNone DEF PInv, PaneTypes, ResumedAfterStop, Settled
<1>6. LockExcludes'
  BY <1>1 DEF PInv, PaneTypes, LockExcludes, Holds, Locked, Callers
<1> QED BY <1>1, <1>2, <1>3, <1>4, <1>5, <1>6, StopSparesNone DEF PInv

\* A resumed caller other than restart starts the pane.
LEMMA OtherStarts ==
  ASSUME PInv, NEW c \in {"boot", "mode"}, Start(c), op' = [op EXCEPT ![c] = "idle"],
         UNCHANGED <<stopping, onBoard>>
  PROVE  PInv'
<1>1. c \in Callers /\ c # "restart" /\ c # "archive"
  BY DEF Callers
<1>2. PaneTypes' /\ OneProcess' /\ LiveIsNotExited' /\ NoneRestarted'
  BY <1>1, StartSpawnsOne DEF PInv, PaneTypes, NoneRestarted
<1>3. RestartNeverGhosts' /\ TeardownSpares'
  BY <1>2 DEF RestartNeverGhosts, TeardownSpares, NoneRestarted
<1>4. ResumedAfterStop' /\ LockExcludes'
  BY <1>1 DEF PInv, PaneTypes, ResumedAfterStop, LockExcludes, Holds, Callers
<1> QED BY <1>2, <1>3, <1>4 DEF PInv

-----------------------------------------------------------------------------
(* One lemma per step. *)

LEMMA ExitKeeps ==
  ASSUME PInv, NEW g \in Procs, Exit(g)
  PROVE  PInv'
<1>1. /\ proc' = [proc EXCEPT ![g] = "gone"]
      /\ UNCHANGED <<by, transport, op, stopping, onBoard>>
      /\ status' # status => Heard(g)
  BY DEF Exit, callers, machine
<1>2. PaneTypes' /\ OneProcess' /\ RestartNeverGhosts' /\ TeardownSpares'
  BY <1>1 DEF PInv, PaneTypes, OneProcess, RestartNeverGhosts, TeardownSpares, NoneRestarted,
     Holds
<1>3. LiveIsNotExited'
  BY <1>1 DEF PInv, PaneTypes, LiveIsNotExited, Heard
<1> QED BY <1>1, <1>2, <1>3 DEF PInv, ResumedAfterStop, LockExcludes, Holds

LEMMA StopSettlesKeeps ==
  ASSUME PInv, StopSettles
  PROVE  PInv'
<1>1. /\ op' = [c \in Callers |-> IF op[c] = "stopping" THEN "resumed" ELSE op[c]]
      /\ stopping' = FALSE
      /\ UNCHANGED <<status, proc, by, transport, onBoard>>
  BY DEF StopSettles, machine, spawn
<1>2. \A c \in {"restart", "archive"} : Holds(c)' <=> Holds(c)
  BY <1>1 DEF PInv, PaneTypes, Holds, Callers
<1> QED
  BY <1>1, <1>2 DEF PInv, PaneTypes, OneProcess, LiveIsNotExited, RestartNeverGhosts,
     ResumedAfterStop, LockExcludes, TeardownSpares, NoneRestarted

LEMMA CallKeeps ==
  ASSUME PInv, Restart \/ Archive
  PROVE  PInv'
<1>1. PICK c \in {"restart", "archive"} :
        Settled /\ op[c] = "idle" /\ UNCHANGED onBoard
          /\ IF Locked THEN Enqueue(c) ELSE Await(c)
  BY DEF Restart, Archive
<1>2. CASE Locked
  <2>1. /\ op' = [op EXCEPT ![c] = "queued"]
        /\ UNCHANGED <<status, proc, by, transport, stopping, onBoard>>
    BY <1>1, <1>2 DEF Enqueue, machine, spawn
  <2> QED
    BY <1>1, <2>1 DEF PInv, PaneTypes, OneProcess, LiveIsNotExited, RestartNeverGhosts,
       ResumedAfterStop, LockExcludes, Holds, TeardownSpares, NoneRestarted, Callers
<1>3. CASE ~Locked
  BY <1>1, <1>3, AwaitKeeps DEF Callers
<1> QED BY <1>2, <1>3

LEMMA TakeLockKeeps ==
  ASSUME PInv, NEW c \in {"restart", "archive"}, TakeLock(c)
  PROVE  PInv'
<1>1. CASE c = "archive" /\ ~onBoard
  <2>1. /\ op' = [op EXCEPT ![c] = "idle"]
        /\ UNCHANGED <<status, proc, by, transport, stopping, onBoard>>
    BY <1>1 DEF TakeLock, machine, spawn
  <2> QED
    BY <2>1 DEF PInv, PaneTypes, OneProcess, LiveIsNotExited, RestartNeverGhosts,
       ResumedAfterStop, LockExcludes, Holds, TeardownSpares, NoneRestarted, Callers
<1>2. CASE ~(c = "archive" /\ ~onBoard)
  BY <1>2, AwaitKeeps DEF TakeLock, Callers
<1> QED BY <1>1, <1>2

LEMMA ResumeRestartKeeps ==
  ASSUME PInv, ResumeRestart
  PROVE  PInv'
<1>1. /\ op["restart"] = "resumed" /\ op' = [op EXCEPT !["restart"] = "idle"]
      /\ UNCHANGED <<stopping, onBoard>>
  BY DEF ResumeRestart
<1>2. ~stopping /\ ~Holds("archive")
  BY <1>1 DEF PInv, ResumedAfterStop, LockExcludes, Holds, Callers
<1>3. ResumedAfterStop' /\ LockExcludes' /\ TeardownSpares'
  BY <1>1, <1>2 DEF PInv, PaneTypes, ResumedAfterStop, LockExcludes, Holds, TeardownSpares,
     Callers
<1>4. CASE onBoard /\ ~archiving
  <2>1. Start("restart")
    BY <1>4 DEF ResumeRestart
  <2>2. PaneTypes' /\ OneProcess' /\ LiveIsNotExited'
    BY <1>1, <2>1, StartSpawnsOne DEF PInv, PaneTypes, Callers
  <2>3. RestartNeverGhosts'
    BY <1>1, <1>4 DEF RestartNeverGhosts
  <2> QED BY <1>3, <2>2, <2>3 DEF PInv
<1>5. CASE ~(onBoard /\ ~archiving)
  <2>1. UNCHANGED <<status, proc, by, transport>>
    BY <1>5 DEF ResumeRestart, machine, spawn
  <2> QED
    BY <1>1, <1>3, <2>1 DEF PInv, PaneTypes, OneProcess, LiveIsNotExited, RestartNeverGhosts
<1> QED BY <1>4, <1>5

LEMMA ResumeArchiveKeeps ==
  ASSUME PInv, ResumeArchive
  PROVE  PInv'
<1>1. /\ op["archive"] = "resumed" /\ op' = [op EXCEPT !["archive"] = "idle"]
      /\ onBoard' = FALSE
      /\ UNCHANGED <<proc, by, transport, stopping>>
  BY DEF ResumeArchive, spawn
<1>2. NoneRestarted
  BY <1>1 DEF PInv, TeardownSpares, Holds
<1>3. RestartNeverGhosts' /\ TeardownSpares'
  BY <1>1, <1>2 DEF RestartNeverGhosts, TeardownSpares, NoneRestarted
<1> QED
  BY <1>1, <1>3 DEF PInv, PaneTypes, OneProcess, LiveIsNotExited, ResumedAfterStop,
     LockExcludes, Holds, Callers

LEMMA LeaveKeeps ==
  ASSUME PInv, Halt \/ DeletePane
  PROVE  PInv'
<1>1. /\ Settled /\ Stop /\ UNCHANGED <<status, by, op>>
      /\ onBoard' => onBoard
  BY DEF Halt, DeletePane
<1>2. PaneTypes' /\ LiveIsNotExited'
  BY <1>1, StopSparesNone DEF PInv, PaneTypes, LiveIsNotExited
<1>3. RestartNeverGhosts' /\ TeardownSpares'
  BY <1>1, StopSparesNone DEF RestartNeverGhosts, TeardownSpares, NoneRestarted
<1>4. ResumedAfterStop' /\ LockExcludes'
  BY <1>1 DEF PInv, ResumedAfterStop, LockExcludes, Holds, Settled
<1> QED BY <1>1, <1>2, <1>3, <1>4, StopSparesNone DEF PInv

-----------------------------------------------------------------------------
(* The theorems. *)

LEMMA PaneNextKeeps ==
  ASSUME PInv, PaneNext
  PROVE  PInv'
<1>1. CASE Boot
  BY <1>1, OtherStarts DEF Boot
<1>2. CASE ResumeMode
  BY <1>2, OtherStarts DEF ResumeMode
<1>3. CASE ChangeMode
  BY <1>3, AwaitKeeps DEF ChangeMode, Callers
<1>4. CASE \/ \E e \in {"busy", "free", "unsure"} : ProbeTick(e)
           \/ IdleTimerFires \/ TypeBody \/ TypeEnter \/ ReadyFallback
           \/ \E i \in Inputs : WriteInput(i) \/ WriteRaw(i)
           \/ \E g \in Procs, f \in BOOLEAN : Data(g, f)
  BY <1>4, QuietSteps, QuietKeeps
<1> QED
  BY <1>1, <1>2, <1>3, <1>4, ExitKeeps, StopSettlesKeeps, CallKeeps, TakeLockKeeps,
     ResumeRestartKeeps, ResumeArchiveKeeps, LeaveKeeps
  DEF PaneNext, Lifecycle

\* What listens to the pane moves it only by the pane's own steps.
LEMMA JoinStepsArePaneSteps ==
  ASSUME [Next]_joinVars
  PROVE  [PaneNext]_paneVars
<1>1. CASE UNCHANGED joinVars
  BY <1>1 DEF joinVars
<1>2. CASE Dispatch \/ DispatchPlan
  BY <1>2 DEF Dispatch, DispatchPlan
<1>3. ASSUME NEW m \in Members, PlanStep(m) \/ Approve(m) \/ Reject(m)
      PROVE  [PaneNext]_paneVars
  BY <1>3, MembersAssumption DEF PlanStep, Approve, Reject, PaneNext
<1>4. ASSUME NEW i \in Manual, WriteByHand(i) \/ RawByHand(i) PROVE [PaneNext]_paneVars
  BY <1>4 DEF WriteByHand, RawByHand, Manual, PaneNext
<1>5. ASSUME NEW g \in Procs, NEW chunk \in {"plain", "error"}, NEW f \in BOOLEAN,
             Output(g, chunk, f)
      PROVE  [PaneNext]_paneVars
  BY <1>5 DEF Output, PaneNext
<1>6. CASE PaneStep
  BY <1>6 DEF PaneStep, PaneNext
<1> QED BY <1>1, <1>2, <1>3, <1>4, <1>5, <1>6 DEF Next

LEMMA InitEstablishes ==
  ASSUME Init2
  PROVE  PInv
<1>1. /\ proc = [g \in Procs |-> "none"] /\ by = [g \in Procs |-> Nil]
      /\ op = [c \in Callers |-> IF c = "boot" THEN "queued" ELSE "idle"]
      /\ status = "Idle" /\ stopping = FALSE
  BY DEF Init2, Init
<1> QED
  BY <1>1 DEF PInv, PaneTypes, OneProcess, LiveIsNotExited, RestartNeverGhosts,
     ResumedAfterStop, LockExcludes, Holds, TeardownSpares, NoneRestarted, Callers

\* The inductive invariant of the pane holds in every behaviour of the composition.
THEOREM PaneInvariance == Spec => []PInv
<1>1. Init2 => PInv
  BY InitEstablishes
<1>2. PInv /\ [Next]_joinVars => PInv'
  <2> SUFFICES ASSUME PInv, [Next]_joinVars PROVE PInv'
    OBVIOUS
  <2>1. CASE PaneNext
    BY <2>1, PaneNextKeeps
  <2>2. CASE UNCHANGED paneVars
    BY <2>2 DEF PInv, PaneTypes, OneProcess, LiveIsNotExited, RestartNeverGhosts,
       ResumedAfterStop, LockExcludes, Holds, TeardownSpares, NoneRestarted, paneVars,
       machine, spawn, callers
  <2> QED BY <2>1, <2>2, JoinStepsArePaneSteps
<1> QED BY <1>1, <1>2, PTL DEF Spec

\* At most one process per pane that no kill was sent to (terminal.ts:1008-1019).
THEOREM SingleProcess == Spec => []OneProcess
<1>1. PInv => OneProcess
  BY DEF PInv
<1> QED BY <1>1, PaneInvariance, PTL

\* A pane with a live process on the board is never shown as Exited (terminal.ts:1144-1148).
THEOREM NoFalseExit == Spec => []LiveIsNotExited
<1>1. PInv => LiveIsNotExited
  BY DEF PInv
<1> QED BY <1>1, PaneInvariance, PTL

\* A restart that lost its pane to an archive or a delete leaves nothing behind
\* (panes_rest.ts:200-219).
THEOREM NoGhost == Spec => []RestartNeverGhosts
<1>1. PInv => RestartNeverGhosts
  BY DEF PInv
<1> QED BY <1>1, PaneInvariance, PTL
-----------------------------------------------------------------------------
(* The members of a group. *)

\* A member has left the ones that wait or were refused.
Moved(members, m) == members[m] \in {"running", "done", "error"}

\* The marker and the bound members that moved stand for commands given to the pane.
JInv ==
  /\ member \in [Members -> {"unsent", "staged", "blocked", "running", "done", "error"}]
  /\ bound \subseteq Members
  /\ \A m \in Members : marker = m => m \in used
  /\ \A m \in bound : Moved(member, m) => m \in used

LEMMA AdvancedIsMarked ==
  ASSUME bound \subseteq Members,
         NEW from \in {"staged", "running"}, NEW to \in {"running", "done", "error"},
         NEW members \in [Members -> {"unsent", "staged", "blocked", "running", "done", "error"}]
  PROVE  /\ Advanced(from, to, members) \in
              [Members -> {"unsent", "staged", "blocked", "running", "done", "error"}]
         /\ \A m \in bound :
              Moved(Advanced(from, to, members), m) => Moved(members, m) \/ marker = m
BY DEF Advanced, Moved

\* A write starts no bound member but the one whose exchange is active.
LEMMA StartedIsMarked ==
  ASSUME JInv
  PROVE  /\ Started \in [Members -> {"unsent", "staged", "blocked", "running", "done", "error"}]
         /\ \A m \in bound : Moved(Started, m) => m \in used
BY AdvancedIsMarked DEF JInv, Started

\* What is heard moves no bound member but the one whose exchange is active.
LEMMA HearMovesTheMarked ==
  ASSUME JInv, NEW chunk, Hear(chunk)
  PROVE  /\ member' \in [Members -> {"unsent", "staged", "blocked", "running", "done", "error"}]
         /\ \A m \in bound : Moved(member', m) => m \in used
<1>1. \/ \E to \in {"done", "error"} : member' = Advanced("running", to, Started)
      \/ member' = Started
  BY DEF Hear, Settles
<1>2. CASE member' = Started
  BY <1>2, StartedIsMarked
<1>3. ASSUME NEW to \in {"done", "error"}, member' = Advanced("running", to, Started)
      PROVE  /\ member' \in [Members -> {"unsent", "staged", "blocked", "running", "done", "error"}]
             /\ \A m \in bound : Moved(member', m) => m \in used
  <2>1. /\ member' \in [Members -> {"unsent", "staged", "blocked", "running", "done", "error"}]
        /\ \A m \in bound : Moved(member', m) => Moved(Started, m) \/ marker = m
    BY <1>3, StartedIsMarked, AdvancedIsMarked DEF JInv
  <2> QED BY <2>1, StartedIsMarked DEF JInv
<1> QED BY <1>1, <1>2, <1>3

LEMMA NothingIsUnused ==
  ASSUME PaneNext
  PROVE  used \subseteq used'
<1>1. CASE Lifecycle
  BY <1>1 DEF Lifecycle, ProbeTick, IdleTimerFires, TypeBody, TypeEnter, ReadyFallback, Exit,
     StopSettles, Boot, Restart, ChangeMode, Archive, TakeLock, ResumeRestart, ResumeMode,
     ResumeArchive, Halt, DeletePane, input
<1>2. ASSUME NEW i \in Inputs, WriteInput(i) \/ WriteRaw(i) PROVE used \subseteq used'
  BY <1>2 DEF WriteInput, WriteRaw
<1>3. ASSUME NEW g \in Procs, NEW f \in BOOLEAN, Data(g, f) PROVE used \subseteq used'
  BY <1>3 DEF Data
<1> QED BY <1>1, <1>2, <1>3 DEF PaneNext

LEMMA JInvKept ==
  ASSUME JInv, [Next]_joinVars
  PROVE  JInv'
<1>1. used \subseteq used'
  BY JoinStepsArePaneSteps, NothingIsUnused DEF paneVars, input
<1>2. CASE UNCHANGED joinVars
  BY <1>2 DEF JInv, Moved, joinVars, recorded, group, paneVars, input
<1>3. CASE Dispatch
  <2>1. /\ member' \in [Members -> {"staged", "blocked"}] /\ UNCHANGED marker
        /\ bound' \subseteq Members
        /\ \A m \in bound' : member'[m] = "staged"
    BY <1>3 DEF Dispatch
  <2> QED BY <1>1, <2>1 DEF JInv, Moved
<1>4. CASE DispatchPlan
  <2>1. member' = [m \in Members |-> "staged"] /\ UNCHANGED <<bound, marker>>
    BY <1>4 DEF DispatchPlan
  <2> QED BY <1>1, <2>1 DEF JInv, Moved
<1>5. ASSUME NEW m \in Members, PlanStep(m) PROVE JInv'
  <2>1. Other \notin Members /\ UNCHANGED bound
    BY <1>5, MembersAssumption DEF PlanStep
  <2>2. CASE /\ used' = used \cup {m} /\ member' = [Started EXCEPT ![m] = "running"]
             /\ marker' \in {marker, Other}
    BY <2>1, <2>2, StartedIsMarked DEF JInv, Moved
  <2>3. CASE /\ used' = used /\ marker' = marker
             /\ \E s \in {"staged", "blocked"} : member' = [member EXCEPT ![m] = s]
    BY <2>1, <2>3 DEF JInv, Moved
  <2> QED BY <1>5, <2>2, <2>3 DEF PlanStep, WriteInput, MarkedByOthers, paneVars, input
<1>6. ASSUME NEW m \in Members, Approve(m) PROVE JInv'
  <2>0. UNCHANGED bound /\ Other \notin Members
    BY <1>6, MembersAssumption DEF Approve, recorded
  <2>1. CASE onBoard /\ status # "Exited"
    <3>1. used' = used \cup {m} /\ Hear("none") /\ marker' \in {m, marker, Other}
      BY <1>6, <2>1 DEF Approve, WriteInput, MarkedByOthers
    <3> QED BY <2>0, <3>1, HearMovesTheMarked DEF JInv, Moved
  <2>2. CASE ~(onBoard /\ status # "Exited")
    BY <1>1, <1>6, <2>0, <2>2 DEF Approve, JInv, Moved
  <2> QED BY <2>1, <2>2
<1>7. ASSUME NEW m \in Members, Reject(m) PROVE JInv'
  BY <1>1, <1>7 DEF Reject, recorded, JInv, Moved
<1>8. ASSUME NEW i \in Manual, WriteByHand(i) PROVE JInv'
  <2>1. Hear("none") /\ UNCHANGED bound /\ marker' \in {marker, Other}
    BY <1>8 DEF WriteByHand, MarkedByOthers, recorded
  <2>2. Other \notin Members
    BY MembersAssumption
  <2> QED BY <1>1, <2>1, <2>2, HearMovesTheMarked DEF JInv, Moved
<1>9. ASSUME NEW i \in Manual, RawByHand(i) PROVE JInv'
  BY <1>1, <1>9 DEF RawByHand, recorded, group, JInv, Moved
<1>10. ASSUME NEW g \in Procs, NEW chunk \in {"plain", "error"}, NEW f \in BOOLEAN,
              Output(g, chunk, f)
       PROVE  JInv'
  <2>1. Hear(chunk) /\ UNCHANGED <<bound, marker>>
    BY <1>10 DEF Output, recorded
  <2> QED BY <1>1, <2>1, HearMovesTheMarked DEF JInv, Moved
<1>11. CASE PaneStep
  <2>1. Hear("none") /\ UNCHANGED <<bound, marker>>
    BY <1>11 DEF PaneStep, recorded
  <2> QED BY <1>1, <2>1, HearMovesTheMarked DEF JInv, Moved
<1> QED
  BY <1>2, <1>3, <1>4, <1>5, <1>6, <1>7, <1>8, <1>9, <1>10, <1>11 DEF Next

\* No edge of the pane advances a member recorded with an exchange whose own command was
\* not given to it, whatever members without one, other commands and restarts do
\* (joinTracker.ts:111-185).
THEOREM MembersAreNotMistaken == Spec => []MembersOwnTheirEdges
<1>1. Init2 => JInv
  <2> SUFFICES ASSUME Init2 PROVE JInv
    OBVIOUS
  <2>1. /\ member = [m \in Members |-> "unsent"] /\ marker = Nil /\ Nil \notin Members
        /\ bound = {}
    BY MembersAssumption DEF Init2
  <2> QED BY <2>1 DEF JInv, Moved
<1>2. JInv /\ [Next]_joinVars => JInv'
  BY JInvKept
<1>3. JInv => MembersOwnTheirEdges
  BY DEF JInv, Moved, MembersOwnTheirEdges
<1> QED BY <1>1, <1>2, <1>3, PTL DEF Spec
=============================================================================
