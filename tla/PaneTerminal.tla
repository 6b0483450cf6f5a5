---------------------------- MODULE PaneTerminal ----------------------------
(***************************************************************************)
(* One pane (src/terminal.ts, UniversalTerminal): the processes it spawns  *)
(* one after the other, the input that waits for a process to be ready,    *)
(* the paced submission of commands (body, then Enter), and the status     *)
(* machine that decides Running, Idle and Exited.  Callers restart, switch *)
(* mode, archive, halt and delete the pane while a teardown is awaited.    *)
(*                                                                         *)
(* A promise continuation runs before the next event of the loop: Settled  *)
(* says that none is due.  The submit delay is the default, above 0.       *)
(***************************************************************************)
EXTENDS Naturals, Sequences, FiniteSets

CONSTANTS
  Inputs,     \* everything that may be typed, each accepted at most once
  MaxSpawns,  \* bound on the processes the pane spawns
  Meetings,   \* bound: the sets of calls that meet in one behaviour
  Nil

ASSUME SpawnsAssumption == MaxSpawns \in Nat \ {0}

VARIABLES
  calls,      \* the calls that meet in this behaviour, of Meetings
  agent,      \* the runtime is an interactive CLI, else a shell
  status, conf, saw, idleTimer,  \* status, lastConfidence, sawWorkSinceIdle, idleTimer
  proc,       \* each process: none, live, signalled (a kill was sent), gone
  by,         \* the caller that spawned each process
  transport,  \* the current process, 0 for null
  ready, fallback,  \* spawnReady; the readiness timer is armed
  queue,      \* pendingInput: its commands and its raw bytes, each in order
  chain, gap, \* submitChain: commands that wait, the one between body and Enter
  typed,      \* what each process was given, in order
  used,       \* the inputs accepted so far
  op,         \* where each lifecycle caller is
  stopping,   \* a teardown is in flight (_stopping)
  onBoard,    \* manager.terminals still holds this instance
  archiving   \* manager.archivingPanes holds the pane

machine == <<status, conf, saw, idleTimer>>
input   == <<queue, chain, gap, typed, used>>
spawn   == <<proc, by, transport, ready, fallback>>
callers == <<op, stopping, onBoard, archiving>>
setting == <<calls, agent>>
paneVars == <<setting, machine, input, spawn, callers>>

Procs   == 1..MaxSpawns
Callers == {"boot", "restart", "mode", "archive"}
Byte(what, i)  == [what |-> what, id |-> i]

Settled == /\ \A c \in Callers : op[c] # "resumed"
           /\ gap = Nil => chain = <<>>

-----------------------------------------------------------------------------
(* The status machine (src/statusMachine.ts) and the edges a step makes. *)

\* The verdict on an event: the next status and what becomes of the idle timer.
Verdict(event) ==
  LET keep == [status |-> status, timer |-> idleTimer]
      arm  == [status |-> status, timer |-> TRUE]
      kick == [status |-> "Running", timer |-> FALSE]
  IN CASE event \in {"input", "busy"} -> kick
       [] event = "free"   -> arm
       [] event = "unsure" -> IF agent /\ status = "Running" THEN arm ELSE keep
       [] event = "output" -> IF conf = "fallback" THEN [kick EXCEPT !.timer = TRUE]
                              ELSE IF status = "Idle" THEN kick ELSE keep
       [] event = "timer"  -> [status |-> "Idle", timer |-> FALSE]

\* The event is evidence of work, which a later Idle needs to count as done.
IsWork(event) ==
  \/ event \in {"input", "busy"}
  \/ event = "output" /\ conf = "fallback" /\ status # "Running"

Apply(event) ==
  IF status = "Exited"
  THEN /\ idleTimer' = (idleTimer /\ event # "timer")
       /\ UNCHANGED <<status, conf, saw>>
  ELSE /\ status' = Verdict(event).status
       /\ idleTimer' = Verdict(event).timer
       /\ conf' = CASE event \in {"busy", "free"} -> "authoritative"
                    [] event = "unsure" -> "fallback"
                    [] OTHER -> conf
       /\ saw' = ((saw \/ IsWork(event)) /\ ~(status = "Running" /\ status' = "Idle"))

\* The callbacks onRunning, onIdle and onExit that the step fires.  start() sets the
\* status itself and fires none.
RunningEdge == status = "Idle" /\ status' = "Running" /\ proc' = proc
IdleEdge    == status = "Running" /\ status' = "Idle" /\ saw
DeathEdge   == transport # 0 /\ transport' = transport /\ proc'[transport] # proc[transport]

ProbeTick(event) ==
  /\ Settled
  /\ \E g \in Procs : proc[g] # "none"
  /\ status # "Exited"
  /\ event \in {"busy", "unsure"} \cup (IF agent THEN {} ELSE {"free"})
  /\ Apply(event)
  /\ UNCHANGED <<setting, input, spawn, callers>>

IdleTimerFires ==
  /\ Settled
  /\ idleTimer
  /\ Apply("timer")
  /\ UNCHANGED <<setting, input, spawn, callers>>

-----------------------------------------------------------------------------
(* Input. *)

\* The flush writes the bytes while the commands still wait in the chain, so the order
\* between the two kinds is lost and the model keeps each kind by itself.
NoInput == [submit |-> <<>>, raw |-> <<>>]

\* Mutant: the flush forgets to empty the queue.
MarkReadyKeepsQueue ==
  /\ ready' = TRUE
  /\ fallback' = FALSE
  /\ queue' = queue
  /\ IF transport = 0 THEN UNCHANGED <<chain, typed>>
     ELSE chain' = chain \o queue.submit /\ typed' = typed

\* Mutant: the flush hands the list to the chain, not its commands.
MarkReadyUnwrapped ==
  /\ ready' = TRUE
  /\ fallback' = FALSE
  /\ queue' = NoInput
  /\ IF transport = 0 THEN UNCHANGED <<chain, typed>>
     ELSE chain' = Append(chain, queue.submit) /\ typed' = typed

\* markSpawnReady: raw bytes are written now, commands join the chain; with no
\* process both are dropped.
MarkReady ==
  /\ ready' = TRUE
  /\ fallback' = FALSE
  /\ queue' = NoInput
  /\ IF transport = 0 THEN UNCHANGED <<chain, typed>>
     ELSE /\ chain' = chain \o queue.submit
          /\ typed' = [typed EXCEPT ![transport] = @ \o
                         [k \in DOMAIN queue.raw |-> Byte("raw", queue.raw[k])]]

WriteInput(i) ==
  /\ onBoard
  /\ i \notin used
  /\ used' = used \cup {i}
  /\ Apply("input")
  /\ IF transport # 0 /\ ready
     THEN chain' = Append(chain, i) /\ UNCHANGED queue
     ELSE queue' = [queue EXCEPT !.submit = Append(@, i)] /\ UNCHANGED chain
  /\ UNCHANGED <<setting, gap, typed, spawn, callers>>

WriteRaw(i) ==
  /\ Settled
  /\ onBoard
  /\ i \notin used
  /\ used' = used \cup {i}
  /\ queue' = IF ready THEN queue ELSE [queue EXCEPT !.raw = Append(@, i)]
  /\ typed' = IF ready /\ transport # 0
              THEN [typed EXCEPT ![transport] = Append(@, Byte("raw", i))] ELSE typed
  /\ UNCHANGED <<setting, machine, chain, gap, spawn, callers>>

\* The chain reaches a command: its body goes to whatever process is current.
TypeBody ==
  /\ gap = Nil
  /\ chain # <<>>
  /\ chain' = Tail(chain)
  /\ IF transport = 0 THEN UNCHANGED <<gap, typed>>
     ELSE /\ typed' = [typed EXCEPT ![transport] = Append(@, Byte("body", Head(chain)))]
          /\ gap' = [id |-> Head(chain), at |-> transport]
  /\ UNCHANGED <<setting, machine, queue, used, spawn, callers>>

\* Mutant: Enter goes to any process that is there.
TypeEnterBlindly ==
  /\ Settled
  /\ gap # Nil
  /\ gap' = Nil
  /\ typed' = IF transport # 0
              THEN [typed EXCEPT ![transport] = Append(@, Byte("enter", gap.id))] ELSE typed
  /\ UNCHANGED <<setting, machine, queue, chain, used, spawn, callers>>

\* The delay is over: Enter, if the process that took the body is still current.
TypeEnter ==
  /\ Settled
  /\ gap # Nil
  /\ gap' = Nil
  /\ typed' = IF transport = gap.at
              THEN [typed EXCEPT ![gap.at] = Append(@, Byte("enter", gap.id))] ELSE typed
  /\ UNCHANGED <<setting, machine, queue, chain, used, spawn, callers>>

ReadyFallback ==
  /\ Settled
  /\ fallback
  /\ MarkReady
  /\ UNCHANGED <<setting, machine, gap, used, proc, by, transport, callers>>

-----------------------------------------------------------------------------
(* Processes. *)

\* Mutant: no generation guard.
HeardAlways(g) == TRUE

\* A process the pane has replaced is not listened to; one it has only stopped is.
Heard(g) == transport \in {g, 0}

\* A chunk of output; the text of a failed launch is no sign of life.
Data(g, launchFailure) ==
  /\ Settled
  /\ proc[g] \in {"live", "signalled"}
  /\ Heard(g)
  /\ IF ready \/ launchFailure THEN UNCHANGED <<ready, fallback, queue, chain, typed>>
     ELSE MarkReady
  /\ Apply("output")
  /\ UNCHANGED <<setting, gap, used, proc, by, transport, callers>>

Exit(g) ==
  /\ Settled
  /\ proc[g] \in {"live", "signalled"}
  /\ proc' = [proc EXCEPT ![g] = "gone"]
  /\ IF Heard(g)
     THEN /\ status' = "Exited"
          /\ idleTimer' = FALSE
          /\ fallback' = FALSE
          /\ queue' = IF transport = g THEN NoInput ELSE queue
          /\ UNCHANGED <<conf, saw>>
     ELSE UNCHANGED <<machine, fallback, queue>>
  /\ UNCHANGED <<setting, chain, gap, typed, used, by, transport, ready, callers>>

Killed == IF transport # 0 /\ proc[transport] = "live"
          THEN [proc EXCEPT ![transport] = "signalled"] ELSE proc

Spawned == {g \in Procs : proc[g] # "none"}

\* Mutant: start() trusts its callers to have stopped the pane.
StartOverLive(c) ==
  LET g == Cardinality(Spawned) + 1 IN
  /\ proc' = [proc EXCEPT ![g] = "live"]
  /\ by' = [by EXCEPT ![g] = c]
  /\ transport' = g
  /\ ready' = FALSE
  /\ fallback' = TRUE
  /\ status' = "Running"
  /\ UNCHANGED <<conf, saw, idleTimer>>

\* start(): kill what is left, spawn, and gate the input again.
Start(c) ==
  LET g == Cardinality(Spawned) + 1 IN
  \/ /\ proc' = [Killed EXCEPT ![g] = "live"]
     /\ by' = [by EXCEPT ![g] = c]
     /\ transport' = g
     /\ ready' = FALSE
     /\ fallback' = TRUE
     /\ status' = "Running"
     /\ UNCHANGED <<conf, saw, idleTimer>>
  \/ /\ proc' = Killed     \* the spawn throws
     /\ transport' = 0
     /\ status' = "Exited"
     /\ idleTimer' = FALSE
     /\ fallback' = FALSE
     /\ UNCHANGED <<conf, saw, by, ready>>

\* stop(), up to its wait: joined when a teardown is in flight.
Stop ==
  IF stopping THEN UNCHANGED <<idleTimer, proc, transport, fallback, stopping>>
  ELSE /\ idleTimer' = FALSE
       /\ fallback' = FALSE
       /\ proc' = Killed
       /\ transport' = 0
       /\ stopping' = (transport # 0)

\* The process exits, or the escalation to SIGKILL gives up on it.
StopSettles ==
  /\ Settled
  /\ stopping
  /\ stopping' = FALSE
  /\ op' = [c \in Callers |-> IF op[c] = "stopping" THEN "resumed" ELSE op[c]]
  /\ UNCHANGED <<setting, machine, input, spawn, onBoard, archiving>>

-----------------------------------------------------------------------------
(* The callers. *)

\* Restart and archive exclude each other (lifecycleLock.ts); a mode change does not.
Locked == \E c \in {"restart", "archive"} : op[c] \in {"stopping", "resumed"}

\* Bound: a start is only asked for when a process is left for it.
Room == Cardinality(Spawned) + Cardinality({c \in Callers \ {"archive"} : op[c] # "idle"})
          < MaxSpawns

\* Call stop() and wait for it; without a process the wait is over at once.
Await(c) ==
  /\ Stop
  /\ op' = [op EXCEPT ![c] = IF stopping \/ transport # 0 THEN "stopping" ELSE "resumed"]
  /\ UNCHANGED <<status, conf, saw, by, ready>>

Enqueue(c) ==
  /\ op' = [op EXCEPT ![c] = "queued"]
  /\ UNCHANGED <<machine, spawn, stopping>>

\* addTerminal's deferred start.
Boot ==
  /\ Settled
  /\ op["boot"] = "queued"
  /\ op' = [op EXCEPT !["boot"] = "idle"]
  /\ Start("boot")
  /\ UNCHANGED <<setting, input, stopping, onBoard, archiving>>

Restart ==
  /\ Settled /\ "restart" \in calls
  /\ onBoard /\ op["restart"] = "idle" /\ Room
  /\ IF Locked THEN Enqueue("restart") ELSE Await("restart")
  /\ UNCHANGED <<setting, input, onBoard, archiving>>

\* applyPaneMode, when the adapter restarts to switch.
ChangeMode ==
  /\ Settled /\ "mode" \in calls
  /\ onBoard /\ op["mode"] = "idle" /\ Room
  /\ Await("mode")
  /\ UNCHANGED <<setting, input, onBoard, archiving>>

Archive ==
  /\ Settled /\ "archive" \in calls
  /\ onBoard /\ op["archive"] = "idle"
  /\ archiving' = TRUE
  /\ IF Locked THEN Enqueue("archive") ELSE Await("archive")
  /\ UNCHANGED <<setting, input, onBoard>>

\* The lock is free for the call behind; an archive that finds no pane has nothing to stop.
TakeLock(c) ==
  /\ Settled
  /\ op[c] = "queued" /\ ~Locked
  /\ IF c = "archive" /\ ~onBoard
     THEN /\ op' = [op EXCEPT ![c] = "idle"]
          /\ archiving' = FALSE
          /\ UNCHANGED <<machine, spawn, stopping>>
     ELSE Await(c) /\ UNCHANGED archiving
  /\ UNCHANGED <<setting, input, onBoard>>

\* Mutant: the restart does not look at the board again.
ResumeRestartBlindly ==
  /\ op["restart"] = "resumed"
  /\ op' = [op EXCEPT !["restart"] = "idle"]
  /\ Start("restart")
  /\ UNCHANGED <<setting, input, stopping, onBoard, archiving>>

ResumeRestart ==
  /\ op["restart"] = "resumed"
  /\ op' = [op EXCEPT !["restart"] = "idle"]
  /\ IF onBoard /\ ~archiving THEN Start("restart") ELSE UNCHANGED <<machine, spawn>>
  /\ UNCHANGED <<setting, input, stopping, onBoard, archiving>>

ResumeMode ==
  /\ op["mode"] = "resumed"
  /\ op' = [op EXCEPT !["mode"] = "idle"]
  /\ Start("mode")
  /\ UNCHANGED <<setting, input, stopping, onBoard, archiving>>

ResumeArchive ==
  /\ op["archive"] = "resumed"
  /\ op' = [op EXCEPT !["archive"] = "idle"]
  /\ status' = IF onBoard THEN "Exited" ELSE status
  /\ onBoard' = FALSE
  /\ archiving' = FALSE
  /\ UNCHANGED <<setting, conf, saw, idleTimer, input, spawn, stopping>>

\* Stop-all's second stage, which starts nothing afterwards.
Halt ==
  /\ Settled /\ "halt" \in calls
  /\ onBoard /\ status # "Exited"
  /\ Stop
  /\ UNCHANGED <<setting, status, conf, saw, input, by, ready, op, onBoard, archiving>>

\* delete_pane and the sweep of dead panes: stop without waiting, and forget.
DeletePane ==
  /\ Settled /\ "delete" \in calls
  /\ onBoard
  /\ onBoard' = FALSE
  /\ Stop
  /\ UNCHANGED <<setting, status, conf, saw, input, by, ready, op, archiving>>

-----------------------------------------------------------------------------
Init ==
  /\ calls \in Meetings /\ agent \in BOOLEAN
  /\ status = "Idle" /\ conf = "fallback" /\ saw = FALSE /\ idleTimer = FALSE
  /\ proc = [g \in Procs |-> "none"]
  /\ by = [g \in Procs |-> Nil]
  /\ transport = 0 /\ ready = FALSE /\ fallback = FALSE
  /\ queue = NoInput /\ chain = <<>> /\ gap = Nil
  /\ typed = [g \in Procs |-> <<>>]
  /\ used = {}
  /\ op = [c \in Callers |-> IF c = "boot" THEN "queued" ELSE "idle"]
  /\ stopping = FALSE /\ onBoard = TRUE /\ archiving = FALSE

\* Steps that neither take new input nor deliver output.
Lifecycle ==
  \/ \E e \in {"busy", "free", "unsure"} : ProbeTick(e)
  \/ IdleTimerFires \/ TypeBody \/ TypeEnter \/ ReadyFallback
  \/ \E g \in Procs : Exit(g)
  \/ StopSettles \/ Boot \/ Restart \/ ChangeMode \/ Archive
  \/ \E c \in {"restart", "archive"} : TakeLock(c)
  \/ ResumeRestart \/ ResumeMode \/ ResumeArchive \/ Halt \/ DeletePane

-----------------------------------------------------------------------------
(* Properties. *)

PaneTypeOK ==
  /\ calls \in Meetings /\ agent \in BOOLEAN
  /\ status \in {"Running", "Idle", "Exited"}
  /\ conf \in {"fallback", "authoritative"}
  /\ saw \in BOOLEAN /\ idleTimer \in BOOLEAN
  /\ proc \in [Procs -> {"none", "live", "signalled", "gone"}]
  /\ by \in [Procs -> Callers \cup {Nil}]
  /\ transport \in 0..MaxSpawns
  /\ ready \in BOOLEAN /\ fallback \in BOOLEAN
  /\ queue \in [submit : Seq(Inputs), raw : Seq(Inputs)]
  /\ chain \in Seq(Inputs)
  /\ gap \in {Nil} \cup [id : Inputs, at : Procs]
  /\ typed \in [Procs -> Seq([what : {"body", "enter", "raw"}, id : Inputs])]
  /\ used \subseteq Inputs
  /\ op \in [Callers -> {"idle", "queued", "stopping", "resumed"}]
  /\ stopping \in BOOLEAN /\ onBoard \in BOOLEAN /\ archiving \in BOOLEAN

\* Overlapping restarts, mode changes and teardowns leave at most one process that no
\* kill was sent to, the current one (start() kills what it finds, terminal.ts:1008-1019).
OneProcess == \A g \in Procs : proc[g] = "live" => transport = g

\* The late exit or the timers of an earlier process never mark a pane that runs as
\* Exited, a status nothing leaves (terminal.ts:1093-1100, 1144-1148).
LiveIsNotExited ==
  onBoard /\ transport # 0 /\ proc[transport] = "live" => status # "Exited"

\* In the input of every process an Enter follows the body of its own command with no
\* other body between, whatever was submitted, restarted or killed during the delay
\* (terminal.ts:1272-1316).
EnterFollowsBody ==
  \A g \in Procs : \A k \in DOMAIN typed[g] : typed[g][k].what = "enter" =>
    \E j \in 1..(k - 1) :
      /\ typed[g][j] = Byte("body", typed[g][k].id)
      /\ \A l \in (j + 1)..(k - 1) : typed[g][l].what = "raw"

\* Nothing is typed twice: not by the first output and the readiness timer both, nor by
\* a process and its replacement (terminal.ts:1065-1082, 1229-1251).
TypedAtMostOncePerInput ==
  \A g, h \in Procs : \A j \in DOMAIN typed[g], k \in DOMAIN typed[h] :
    typed[g][j] = typed[h][k] => g = h /\ j = k

\* A restart never leaves a process behind for a pane that was archived or deleted
\* while its stop was awaited (panes_rest.ts:200-219).
RestartNeverGhosts ==
  \A g \in Procs : proc[g] = "live" /\ by[g] = "restart" => onBoard
=============================================================================
