-------------------------- MODULE ExchangeSpineProofs --------------------------
(***************************************************************************)
(* Proofs about ExchangeSpine for every set of exchanges and panes, every  *)
(* bound and a store that may lose writes or not.                          *)
(*                                                                         *)
(* No text is typed twice because three things are about an exchange whose *)
(* text nobody typed: an approval that is open, a failure that was logged  *)
(* last (which is what a retry asks for), and a handler that has still to  *)
(* write.  Nothing sets them after the write, and a crash drops only the   *)
(* handler.                                                                *)
(***************************************************************************)
EXTENDS ExchangeSpine, ExchangeLifecycleProofs, TLAPS, SequenceTheorems

\* A snapshot whose binding has both parts or neither, of an exchange whose versions
\* start at 1.
Coupled(s) ==
  /\ (s.approvalId = NoApproval) <=> (s.approvalVersion = NoVersion)
  /\ s.state # "absent" => s.draftVersion > 0

Good == {s \in Snapshot : Coupled(s)}

Turns == [lane : DOMAIN Lane, e : Exchanges, of : Exchanges \cup {None}, at : Nat]

\* The types, with the history that TypeOK leaves out.
Types ==
  /\ mem \in [Exchanges -> Good] /\ row \in [Exchanges -> Good]
  /\ proc \in {"up", "boot", "down"}
  /\ turn = Rest \/ (turn \in Turns /\ turn.at \in DOMAIN Lane[turn.lane])
  /\ turn.lane = "followup" => turn.of \in Exchanges
  /\ paneActive \in [Panes -> Exchanges \cup {None}]
  /\ lastCmd \in [Panes -> Exchanges \cup {None}]
  /\ approval \in [Exchanges -> BOOLEAN] /\ approvalRow \in [Exchanges -> Bindings]
  /\ term \in [Panes -> {"absent", "live", "exited"}]
  /\ paneOf \in [Exchanges -> Panes \cup {None}]
  /\ followUpOf \in [Exchanges -> Exchanges \cup {None}]
  /\ failedLast \in [Exchanges -> BOOLEAN]
  /\ landed \subseteq Exchanges /\ toRecover \subseteq Exchanges
  /\ handed \in [Exchanges -> {0, 1}]

\* The lanes that write, and where.
Writing == {"voice", "workbench", "approve", "retry"}
WriteAt(l) == IF l = "voice" THEN 2 ELSE IF l = "approve" THEN 7 ELSE 4

\* What the running handler relies on: it is not handed over before its write and is after
\* it; nothing else can hand it over meanwhile.
TurnOK ==
  /\ turn.lane \in Writing =>
       /\ paneOf[turn.e] # None
       /\ handed[turn.e] = IF turn.at <= WriteAt(turn.lane) THEN 0 ELSE 1
       /\ turn.lane # "approve" \/ turn.at > 1 => approvalRow[turn.e] # "open"
       /\ turn.lane # "retry" \/ turn.at > 2 => ~failedLast[turn.e]
  /\ turn.lane = "propose" /\ turn.at = 1 =>
       paneOf[turn.e] # None /\ handed[turn.e] = 0 /\ ~failedLast[turn.e]
  /\ turn.lane = "followup" /\ turn.at = 1 => paneOf[turn.e] = None
  /\ turn.lane \in {"approve", "reject"} /\ turn.at = 1 => approvalRow[turn.e] = "open"
  /\ proc # "up" => turn = Rest

\* Nothing happened to an exchange that was never minted.
Fresh(e) ==
  paneOf[e] = None => handed[e] = 0 /\ ~failedLast[e] /\ approvalRow[e] = "none"

\* An approval that can be answered, or a retry, is for a text nobody typed.
Unsent(e) ==
  /\ approvalRow[e] = "open" => handed[e] = 0 /\ ~failedLast[e]
  /\ failedLast[e] => handed[e] = 0

Evidence(e) == e \in landed \/ row[e].state = "delivered" => handed[e] = 1

Point(e) == Fresh(e) /\ Unsent(e) /\ Evidence(e)

\* The approval in memory is the unclaimed row, but for the moment between claim and drop.
Dropping(e) == turn.lane \in {"approve", "reject"} /\ turn.at = 2 /\ turn.e = e

Offered ==
  proc = "up" => \A e \in Exchanges :
    IF Dropping(e) THEN approval[e] /\ approvalRow[e] = "claimed"
    ELSE approval[e] <=> approvalRow[e] = "open"

IInv == Types /\ TurnOK /\ (\A e \in Exchanges : Point(e)) /\ Offered

\* How far the machine and the row of the handler's exchange have come, task by task.
Stations ==
  /\ turn.lane \in {"propose", "refuse"} => mem[turn.e].state = "draft"
  /\ turn.lane = "voice" =>
       /\ mem[turn.e].state = IF turn.at <= 3 THEN "draft"
                              ELSE IF turn.at <= 5 THEN "staged" ELSE "delivered"
       /\ turn.at > 4 => mem[turn.e].attempt > 0
  /\ turn.lane = "workbench" =>
       /\ mem[turn.e].state = IF turn.at = 1 THEN "draft"
                              ELSE IF turn.at <= 5 THEN "staged" ELSE "delivered"
       /\ turn.at > 2 => mem[turn.e].attempt > 0
  /\ turn.lane = "approve" =>
       /\ turn.at > 5 /\ mem[turn.e].state = "staged" => mem[turn.e].attempt > 0
       /\ turn.at = 9 => mem[turn.e].state = "delivered"
  /\ turn.lane = "retry" =>
       /\ row[turn.e].state = IF turn.at = 1 THEN "draft" ELSE "staged"
       /\ turn.at > 1 => mem[turn.e].state = "staged"
  /\ turn.lane = "followup" =>
       /\ mem[turn.e].state = "absent"
       /\ row[turn.e].state = IF turn.at = 1 THEN "absent" ELSE "draft"

-----------------------------------------------------------------------------
(* Snapshots. *)

LEMMA Legals ==
  ASSUME NEW a, NEW b, isLegalTransition(a, b)
  PROVE  a \in EXCHANGE_STATES /\ b \in EXCHANGE_STATES /\ a # "absent" /\ b # "absent"
  BY DEF isLegalTransition, LEGAL_TRANSITIONS, InFlight, CANCELLABLE_STATES,
         EXCHANGE_STATES, TERMINAL_STATES

\* What the machine stores is good when what it held was.
LEMMA GoodResults ==
  /\ Absent \in Good /\ create \in Good /\ create.state = "draft"
  /\ \A s \in Good : s.state # "absent" =>
       /\ \A to \in EXCHANGE_STATES :
            transition(s, to) \in Good /\ transition(s, to).state = to
       /\ \A a \in ApprovalIds :
            requestApproval(s, a) \in Good /\ requestApproval(s, a).state = "awaiting_approval"
       /\ markDeliveryAttempted(s) \in Good /\ markDeliveryAttempted(s).state = s.state
       /\ markDeliveryFailed(s) \in Good /\ markDeliveryFailed(s).state = "draft"
<1>1. Absent \in Good
  BY DEF Absent, Good, Coupled, Snapshot, NoVersion
<1>2. create \in Good /\ create.state = "draft"
  BY DEF create, Good, Coupled, Snapshot, NoVersion, EXCHANGE_STATES
<1>3. ASSUME NEW s \in Good, s.state # "absent"
      PROVE  /\ \A to \in EXCHANGE_STATES :
                  transition(s, to) \in Good /\ transition(s, to).state = to
             /\ \A a \in ApprovalIds :
                  requestApproval(s, a) \in Good /\ requestApproval(s, a).state = "awaiting_approval"
             /\ markDeliveryAttempted(s) \in Good /\ markDeliveryAttempted(s).state = s.state
             /\ markDeliveryFailed(s) \in Good /\ markDeliveryFailed(s).state = "draft"
  <2>1. s \in Snapshot /\ Coupled(s) /\ s.draftVersion > 0
    BY <1>3 DEF Good, Coupled
  <2>2. ASSUME NEW to \in EXCHANGE_STATES
        PROVE  transition(s, to) \in Good /\ transition(s, to).state = to
    BY <2>1, Results DEF Good, Coupled
  <2>3. ASSUME NEW a \in ApprovalIds
        PROVE  requestApproval(s, a) \in Good /\ requestApproval(s, a).state = "awaiting_approval"
    <3>1. a # NoApproval /\ s.draftVersion # NoVersion
      BY <2>1, NoApprovalAssumption DEF NoVersion
    <3>. QED  BY <2>1, <3>1, Results DEF Good, Coupled
  <2>4. markDeliveryAttempted(s) \in Good /\ markDeliveryAttempted(s).state = s.state
    BY <2>1, Results DEF Good, Coupled
  <2>5. markDeliveryFailed(s) \in Good /\ markDeliveryFailed(s).state = "draft"
    <3>1. markDeliveryFailed(s) \in Snapshot /\ markDeliveryFailed(s).state = "draft"
      BY <2>1, Results
    <3>2. /\ markDeliveryFailed(s).approvalId = NoApproval
          /\ markDeliveryFailed(s).approvalVersion = NoVersion
          /\ markDeliveryFailed(s).draftVersion = s.draftVersion
      BY <2>1 DEF markDeliveryFailed, Unbound, transition, Snapshot
    <3>. QED  BY <2>1, <3>1, <3>2 DEF Good, Coupled
  <2>. QED  BY <2>2, <2>3, <2>4, <2>5
<1>. QED  BY <1>1, <1>2, <1>3

\* The waiting approval reverted at boot has lost its binding.
LEMMA GoodRevert ==
  ASSUME NEW s \in Good, s.state # "absent"
  PROVE  /\ Unbound(transition(s, "draft")) \in Good
         /\ Unbound(transition(s, "draft")).state = "draft"
  BY GoodResults DEF markDeliveryFailed

-----------------------------------------------------------------------------
(* Lanes. *)

Tasks9 == {"claim", "drop", "confirm", "stage", "attempt", "kick", "write", "complete", "record"}

\* The lane of an approval, written out.
Approving == <<"claim", "drop", "confirm", "stage", "attempt", "kick", "write", "complete",
               "record">>

LEMMA ApproveLane ==
  ASSUME NEW s, s = <<"claim", "drop", "confirm">>
  PROVE  s \o TwoPhase = Approving
<1>1. s \in Seq(Tasks9) /\ Len(s) = 3
  <2>1. <<"claim", "drop", "confirm">> \in Seq(Tasks9)
    BY DEF Tasks9
  <2>2. Len(<<"claim", "drop", "confirm">>) = 3
    OBVIOUS
  <2>. QED  BY <2>1, <2>2
<1>2. TwoPhase \in Seq(Tasks9)
  BY DEF TwoPhase, Tasks9
<1>3. Len(TwoPhase) = 6
  BY DEF TwoPhase
<1>4. /\ s \o TwoPhase \in Seq(Tasks9)
      /\ Len(s \o TwoPhase) = Len(s) + Len(TwoPhase)
      /\ \A i \in 1 .. Len(s) + Len(TwoPhase) :
           (s \o TwoPhase)[i] = IF i <= Len(s) THEN s[i] ELSE TwoPhase[i - Len(s)]
  BY <1>1, <1>2, ConcatProperties
<1>5. /\ Len(s \o TwoPhase) = 9
      /\ \A i \in 1..9 : (s \o TwoPhase)[i] = IF i <= 3 THEN s[i] ELSE TwoPhase[i - 3]
  BY <1>1, <1>3, <1>4
<1>6. Approving \in Seq(Tasks9) /\ Len(Approving) = 9
  BY DEF Approving, Tasks9
<1>7. \A i \in 1..9 : (s \o TwoPhase)[i] = Approving[i]
  <2>1. /\ TwoPhase[1] = "stage" /\ TwoPhase[2] = "attempt" /\ TwoPhase[3] = "kick"
        /\ TwoPhase[4] = "write" /\ TwoPhase[5] = "complete" /\ TwoPhase[6] = "record"
    BY DEF TwoPhase
  <2>2. s[1] = "claim" /\ s[2] = "drop" /\ s[3] = "confirm"
    OBVIOUS
  <2>3. /\ Approving[1] = "claim" /\ Approving[2] = "drop" /\ Approving[3] = "confirm"
        /\ Approving[4] = "stage" /\ Approving[5] = "attempt" /\ Approving[6] = "kick"
        /\ Approving[7] = "write" /\ Approving[8] = "complete" /\ Approving[9] = "record"
    BY DEF Approving
  <2>4. \A i \in 1..9 : i = 1 \/ i = 2 \/ i = 3 \/ i = 4 \/ i = 5 \/ i = 6 \/ i = 7 \/ i = 8 \/ i = 9
    OBVIOUS
  <2>5. ASSUME NEW i \in 1..9, i <= 3
        PROVE  (s \o TwoPhase)[i] = Approving[i]
    <3>1. (s \o TwoPhase)[i] = s[i]
      BY <1>5, <2>5
    <3>2. i = 1 \/ i = 2 \/ i = 3
      BY <2>5
    <3>. QED  BY <2>2, <2>3, <3>1, <3>2, Zenon
  <2>6. ASSUME NEW i \in 1..9, ~(i <= 3)
        PROVE  (s \o TwoPhase)[i] = Approving[i]
    <3>1. (s \o TwoPhase)[i] = TwoPhase[i - 3]
      BY <1>5, <2>6
    <3>2. i = 4 \/ i = 5 \/ i = 6 \/ i = 7 \/ i = 8 \/ i = 9
      BY <2>6
    <3>3. 4 - 3 = 1 /\ 5 - 3 = 2 /\ 6 - 3 = 3 /\ 7 - 3 = 4 /\ 8 - 3 = 5 /\ 9 - 3 = 6
      OBVIOUS
    <3>. QED  BY <2>1, <2>3, <3>1, <3>2, <3>3, ZenonT(60)
  <2>. QED  BY <2>5, <2>6
<1>. QED  BY <1>4, <1>5, <1>6, <1>7, SeqEqual

\* Where in the lanes each task is.
Placed(l, k, task) ==
  /\ task = "hold" <=> (l = "propose" /\ k = 1)
  /\ task = "request" <=> (l = "propose" /\ k = 2)
  /\ task = "cancel" <=> (l = "refuse" /\ k = 1) \/ (l = "deadpane" /\ k = 2) \/ (l = "reject" /\ k = 3)
  /\ task = "claim" <=> (l \in {"approve", "reject"} /\ k = 1)
  /\ task = "drop" <=> (l = "deadpane" /\ k = 1) \/ (l \in {"approve", "reject"} /\ k = 2)
  /\ task = "confirm" <=> (l = "approve" /\ k = 3)
  /\ task = "stage" <=> (l = "workbench" /\ k = 1) \/ (l = "voice" /\ k = 3) \/ (l = "approve" /\ k = 4)
  /\ task = "attempt" <=> (l = "workbench" /\ k = 2) \/ (l = "voice" /\ k = 4) \/ (l = "approve" /\ k = 5)
  /\ task = "kick" <=> (l = "voice" /\ k = 1) \/ (l \in {"workbench", "retry"} /\ k = 3) \/ (l = "approve" /\ k = 6)
  /\ task = "write" <=> (l = "voice" /\ k = 2) \/ (l \in {"workbench", "retry"} /\ k = 4) \/ (l = "approve" /\ k = 7)
  /\ task = "complete" <=> (l \in {"voice", "workbench"} /\ k = 5) \/ (l = "approve" /\ k = 8)
  /\ task = "record" <=> (l \in {"voice", "workbench"} /\ k = 6) \/ (l = "approve" /\ k = 9)
  /\ task = "drain" <=> (l = "drain" /\ k = 1)
  /\ task = "restage" <=> (l = "retry" /\ k = 1)
  /\ task = "reattempt" <=> (l = "retry" /\ k = 2)
  /\ task = "redelivered" <=> (l = "retry" /\ k = 5)
  /\ task = "insert" <=> (l = "followup" /\ k = 1)
  /\ task = "link" <=> (l = "followup" /\ k = 2)
  /\ task = "idled" <=> (l = "complete" /\ k = 1)
  /\ task = "finish" <=> (l = "complete" /\ k = 2)
  /\ task = "resumed" <=> (l = "needsInput" /\ k = 1)
  /\ task = "ask" <=> (l = "needsInput" /\ k = 2)

LEMMA Places ==
  ASSUME Types, NEW task, Doing(task)
  PROVE  /\ turn \in Turns /\ turn # Rest
         /\ Len(Lane[turn.lane]) \in Nat /\ turn.at \in 1..Len(Lane[turn.lane])
         /\ DOMAIN Lane[turn.lane] = 1..Len(Lane[turn.lane])
         /\ Placed(turn.lane, turn.at, task)
<1>1. turn \in Turns /\ turn.at \in DOMAIN Lane[turn.lane] /\ turn # Rest
  BY DEF Types, Doing
<1>2. Lane.approve = Approving
  BY ApproveLane DEF Lane
<1>3. turn.lane \in {"voice", "propose", "refuse", "workbench", "approve", "deadpane", "reject",
                     "drain", "retry", "followup", "complete", "needsInput"}
  BY <1>1 DEF Turns, Lane
<1>4. Lane[turn.lane][turn.at] = task
  BY DEF Doing
<1>. DEFINE l == turn.lane
           k == turn.at
<1>5. /\ DOMAIN Lane[l] = 1..Len(Lane[l]) /\ Len(Lane[l]) \in Nat
      /\ Placed(l, k, task)
  <2>. HIDE DEF l, k
  <2>0. k \in DOMAIN Lane[l] /\ Lane[l][k] = task
    BY <1>1, <1>4 DEF l, k
  <2>1. CASE l = "voice"
    BY <2>0, <2>1 DEF Lane, Placed
  <2>2. CASE l = "propose"
    BY <2>0, <2>2 DEF Lane, Placed
  <2>3. CASE l = "refuse"
    BY <2>0, <2>3 DEF Lane, Placed
  <2>4. CASE l = "workbench"
    BY <2>0, <2>4 DEF Lane, Placed, TwoPhase
  <2>5. CASE l = "approve"
    <3>1. Lane[l] = Approving
      BY <1>2, <2>5
    <3>. QED  BY <2>0, <2>5, <3>1 DEF Approving, Placed
  <2>6. CASE l = "deadpane"
    BY <2>0, <2>6 DEF Lane, Placed
  <2>7. CASE l = "reject"
    BY <2>0, <2>7 DEF Lane, Placed
  <2>8. CASE l = "drain"
    BY <2>0, <2>8 DEF Lane, Placed
  <2>9. CASE l = "retry"
    BY <2>0, <2>9 DEF Lane, Placed
  <2>10. CASE l = "followup"
    BY <2>0, <2>10 DEF Lane, Placed
  <2>11. CASE l = "complete"
    BY <2>0, <2>11 DEF Lane, Placed
  <2>12. CASE l = "needsInput"
    BY <2>0, <2>12 DEF Lane, Placed
  <2>. QED
    BY <1>3, <2>1, <2>2, <2>3, <2>4, <2>5, <2>6, <2>7, <2>8, <2>9, <2>10, <2>11, <2>12 DEF l
<1>. QED  BY <1>1, <1>5

\* The handler goes on or is over.
LEMMA Onward ==
  ASSUME Types, NEW task, Doing(task), Advance \/ turn' = Rest
  PROVE  /\ turn' = Rest \/ (turn' \in Turns /\ turn'.at \in DOMAIN Lane[turn'.lane])
         /\ turn'.lane = "followup" => turn'.of \in Exchanges
         /\ turn' = Rest \/ (/\ turn'.lane = turn.lane /\ turn'.e = turn.e
                             /\ turn'.of = turn.of /\ turn'.at = turn.at + 1)
<1>1. CASE turn' = Rest
  BY <1>1 DEF Rest
<1>2. CASE turn' = [turn EXCEPT !.at = @ + 1] /\ turn.at # Len(Lane[turn.lane])
  <2>1. /\ turn \in Turns /\ turn.at \in 1..Len(Lane[turn.lane]) /\ Len(Lane[turn.lane]) \in Nat
        /\ DOMAIN Lane[turn.lane] = 1..Len(Lane[turn.lane])
    BY Places
  <2>2. turn.at + 1 \in 1..Len(Lane[turn.lane]) /\ turn.at + 1 \in Nat
    BY <1>2, <2>1
  <2>3. turn' \in Turns
    BY <1>2, <2>1, <2>2 DEF Turns
  <2>4. /\ turn'.lane = turn.lane /\ turn'.e = turn.e
        /\ turn'.of = turn.of /\ turn'.at = turn.at + 1
    BY <1>2, <2>1 DEF Turns
  <2>5. turn'.lane = "followup" => turn'.of \in Exchanges
    BY <2>4 DEF Types
  <2>. QED  BY <2>1, <2>2, <2>3, <2>4, <2>5
<1>. QED  BY <1>1, <1>2 DEF Advance

-----------------------------------------------------------------------------
(* What most steps have in common. *)

\* The machine and the rows move to good snapshots; no failure is logged; no row is called
\* delivered but of an exchange handed over.
Moves ==
  /\ mem' \in [Exchanges -> Good] /\ row' \in [Exchanges -> Good]
  /\ failedLast' \in [Exchanges -> BOOLEAN] /\ landed' \subseteq Exchanges
  /\ \A x \in Exchanges : failedLast'[x] => failedLast[x]
  /\ \A x \in Exchanges : x \in landed' \/ row'[x].state = "delivered" =>
       x \in landed \/ row[x].state = "delivered" \/ handed[x] = 1

\* What the invariant only gives a type keeps to it.
OthersTyped ==
  /\ paneActive' \in [Panes -> Exchanges \cup {None}]
  /\ lastCmd' \in [Panes -> Exchanges \cup {None}]
  /\ term' \in [Panes -> {"absent", "live", "exited"}]
  /\ followUpOf' \in [Exchanges -> Exchanges \cup {None}]
  /\ toRecover' \subseteq Exchanges

\* A write of one row.
LEMMA RowsMove ==
  ASSUME Types, NEW e \in Exchanges, NEW s \in Good,
         RowsBecome([row EXCEPT ![e] = s]) \/ RowsBecome(row),
         s.state = "delivered" => row[e].state = "delivered" \/ handed[e] = 1
  PROVE  /\ row' \in [Exchanges -> Good] /\ landed' \subseteq Exchanges
         /\ \A x \in Exchanges : x \in landed' \/ row'[x].state = "delivered" =>
              x \in landed \/ row[x].state = "delivered" \/ handed[x] = 1
<1>1. PICK r \in {row, [row EXCEPT ![e] = s]} :
         /\ row' = r
         /\ landed' = landed \cup {x \in Exchanges : r[x].state = "delivered"}
  BY DEF RowsBecome
<1>2. r \in [Exchanges -> Good] /\ \A x \in Exchanges : r[x] = row[x] \/ (x = e /\ r[x] = s)
  BY <1>1 DEF Types
<1>. QED  BY <1>1, <1>2 DEF Types

LEMMA PersistMoves ==
  ASSUME Types, NEW e \in Exchanges, NEW from, NEW s \in Good, NEW event,
         Persist(e, from, s, event), event # "delivery_failed",
         s.state = "delivered" => row[e].state = "delivered" \/ handed[e] = 1,
         mem' \in [Exchanges -> Good]
  PROVE  Moves
<1>1. RowsBecome([row EXCEPT ![e] = s]) \/ RowsBecome(row)
  BY DEF Persist, Persisted
<1>2. failedLast' \in [Exchanges -> BOOLEAN] /\ \A x \in Exchanges : failedLast'[x] => failedLast[x]
  BY DEF Types, Persist
<1>. QED  BY <1>1, <1>2, RowsMove DEF Moves

LEMMA TransitMoves ==
  ASSUME Types, NEW e \in Exchanges, NEW s \in Good, NEW event,
         Transit(e, s, event), event # "delivery_failed",
         s.state = "delivered" => row[e].state = "delivered" \/ handed[e] = 1,
         mem' \in [Exchanges -> Good]
  PROVE  Moves
<1>1. RowsBecome([row EXCEPT ![e] = s])
  BY DEF Transit
<1>2. failedLast' \in [Exchanges -> BOOLEAN] /\ \A x \in Exchanges : failedLast'[x] => failedLast[x]
  BY DEF Types, Transit
<1>. QED  BY <1>1, <1>2, RowsMove DEF Moves

LEMMA StayMoves ==
  ASSUME Types, UNCHANGED <<rows, failedLast>>, mem' \in [Exchanges -> Good]
  PROVE  Moves
  BY DEF Types, Moves, rows

LEMMA MirrorMoves ==
  ASSUME Types, NEW e \in Exchanges, NEW s \in Good, NEW event, Mirror(e, s, event),
         event # "delivery_failed",
         s.state = "delivered" => row[e].state = "delivered" \/ handed[e] = 1
  PROVE  Moves
<1>1. mem' \in [Exchanges -> Good] /\ Persist(e, mem[e].state, s, event)
  BY DEF Mirror, Types
<1>. QED  BY <1>1, PersistMoves

LEMMA CallMoves ==
  ASSUME Types, NEW e \in Exchanges, NEW ok, NEW s, NEW event, Call(e, ok, s, event),
         event # "delivery_failed",
         ok => s \in Good /\ s.state # "delivered"
  PROVE  Moves
<1>1. CASE ok /\ Mirror(e, s, event)
  BY <1>1, MirrorMoves
<1>2. CASE UNCHANGED <<mem, rows, failedLast>>
  BY <1>2, StayMoves DEF Types
<1>. QED  BY <1>1, <1>2 DEF Call

\* The machine's accepted moves.
LEMMA MachineMoves ==
  ASSUME Types, NEW e \in Exchanges, NEW to, transitionOk(mem[e], to)
  PROVE  transition(mem[e], to) \in Good /\ transition(mem[e], to).state = to
<1>1. mem[e] \in Good
  BY DEF Types
<1>2. to \in EXCHANGE_STATES /\ mem[e].state # "absent"
  BY Legals DEF transitionOk
<1>. QED  BY <1>1, <1>2, GoodResults

LEMMA ResumesMoves ==
  ASSUME Types, NEW p \in Panes, Resumes(p)
  PROVE  Moves
<1>1. CASE UNCHANGED <<mem, rows, failedLast>>
  BY <1>1, StayMoves DEF Types
<1>2. CASE /\ paneActive[p] # None /\ transitionOk(mem[paneActive[p]], "running")
           /\ Mirror(paneActive[p], transition(mem[paneActive[p]], "running"), "terminal_running")
  <2>1. paneActive[p] \in Exchanges
    BY <1>2 DEF Types
  <2>. QED  BY <1>2, <2>1, MachineMoves, MirrorMoves
<1>. QED  BY <1>1, <1>2 DEF Resumes

\* The types, when the mirror moves, the rest keeps to its values and the handler is
\* placed in its lane.
LEMMA TypesStep ==
  ASSUME Types, Moves, OthersTyped, UNCHANGED <<handed, approval, approvalRow, paneOf, proc>>,
         turn' = Rest \/ (turn' \in Turns /\ turn'.at \in DOMAIN Lane[turn'.lane]),
         turn'.lane = "followup" => turn'.of \in Exchanges
  PROVE  Types'
  BY DEF Types, Moves, OthersTyped

\* What is said of each exchange survives when the mirror moves and nothing is handed
\* over, held or placed.
LEMMA PointStep ==
  ASSUME IInv, Moves, UNCHANGED <<handed, approvalRow, paneOf>>
  PROVE  \A x \in Exchanges : Point(x)'
<1>1. TAKE x \in Exchanges
<1>2. Point(x)
  BY DEF IInv
<1>. QED  BY <1>2 DEF Point, Fresh, Unsent, Evidence, Moves

\* The tasks that hand over, hold, claim, drop, place or log a retry.
Special == {"hold", "claim", "drop", "drain", "write", "reattempt", "insert"}

\* Any other task, or a step between handlers that starts none.
LEMMA Mild ==
  ASSUME IInv, Moves, OthersTyped, UNCHANGED <<handed, approval, approvalRow, paneOf, proc>>,
         \/ UNCHANGED turn
         \/ \E task : task \notin Special /\ Doing(task) /\ (Advance \/ turn' = Rest)
  PROVE  IInv'
<1>0. Types /\ TurnOK /\ Offered
  BY DEF IInv
<1>1. \A x \in Exchanges : Point(x)'
  BY PointStep
<1>2. CASE UNCHANGED turn
  <2>1. Types'
    BY <1>0, <1>2, TypesStep DEF Types
  <2>2. TurnOK'
    <3>1. turn.lane \in Writing \cup {"propose"} => turn.e \in Exchanges
      BY <1>0 DEF Types, Turns, Rest, Writing
    <3>. QED  BY <1>0, <1>2, <3>1 DEF TurnOK, Moves, Writing
  <2>3. Offered'
    BY <1>0, <1>2 DEF Offered, Dropping
  <2>. QED  BY <1>1, <2>1, <2>2, <2>3 DEF IInv
<1>3. ASSUME NEW task, task \notin Special, Doing(task), Advance \/ turn' = Rest
      PROVE  IInv'
  <2>1. /\ turn \in Turns /\ turn.at \in Nat /\ proc = "up"
        /\ Placed(turn.lane, turn.at, task)
    BY <1>0, <1>3, Places DEF Doing, Turns
  <2>2. /\ turn' = Rest \/ (turn' \in Turns /\ turn'.at \in DOMAIN Lane[turn'.lane])
        /\ turn'.lane = "followup" => turn'.of \in Exchanges
        /\ turn' = Rest \/ (/\ turn'.lane = turn.lane /\ turn'.e = turn.e
                            /\ turn'.of = turn.of /\ turn'.at = turn.at + 1)
    BY <1>0, <1>3, Onward
  <2>3. Types'
    BY <1>0, <2>2, TypesStep
  <2>4. /\ ~(turn.lane \in {"approve", "reject"} /\ turn.at \in {1, 2})
        /\ ~(turn.lane = "propose" /\ turn.at = 1)
        /\ ~(turn.lane = "retry" /\ turn.at = 2)
        /\ ~(turn.lane = "followup" /\ turn.at = 1)
        /\ ~(turn.lane \in Writing /\ turn.at = WriteAt(turn.lane))
        /\ turn.e \in Exchanges
    BY <1>3, <2>1 DEF Placed, Special, Writing, WriteAt, Turns
  <2>5. CASE turn' = Rest
    <3>1. TurnOK' /\ Offered'
      BY <1>0, <2>1, <2>4, <2>5 DEF TurnOK, Offered, Dropping, Rest, Writing
    <3>. QED  BY <1>1, <2>3, <3>1 DEF IInv
  <2>6. CASE /\ turn'.lane = turn.lane /\ turn'.e = turn.e
             /\ turn'.of = turn.of /\ turn'.at = turn.at + 1
    <3>1. turn'.at # 1
      BY <1>0, <1>3, <2>6, Places
    <3>2. ~(turn'.lane \in {"approve", "reject"} /\ turn'.at = 2)
      BY <2>1, <2>4, <2>6
    <3>3. turn'.lane # "retry" \/ turn'.at > 2 => turn.lane # "retry" \/ turn.at > 2
      BY <2>1, <2>4, <2>6
    <3>4. turn.lane \in Writing =>
            (turn'.at <= WriteAt(turn.lane)) = (turn.at <= WriteAt(turn.lane))
      BY <2>1, <2>4, <2>6 DEF WriteAt
    <3>5. turn.lane \in Writing =>
            /\ paneOf[turn.e] # None
            /\ handed[turn.e] = IF turn.at <= WriteAt(turn.lane) THEN 0 ELSE 1
            /\ turn.lane # "approve" \/ turn.at > 1 => approvalRow[turn.e] # "open"
            /\ turn.lane # "retry" \/ turn.at > 2 => ~failedLast[turn.e]
      BY <1>0 DEF TurnOK
    <3>6. turn.lane = "approve" => turn.at > 1
      BY <1>0, <1>3, <2>4, Places
    <3>7. turn'.lane \in Writing =>
            /\ paneOf'[turn'.e] # None
            /\ handed'[turn'.e] = IF turn'.at <= WriteAt(turn'.lane) THEN 0 ELSE 1
            /\ turn'.lane # "approve" \/ turn'.at > 1 => approvalRow'[turn'.e] # "open"
            /\ turn'.lane # "retry" \/ turn'.at > 2 => ~failedLast'[turn'.e]
      <4>1. SUFFICES ASSUME turn.lane \in Writing
                     PROVE  /\ paneOf[turn.e] # None
                            /\ handed[turn.e] = IF turn'.at <= WriteAt(turn.lane) THEN 0 ELSE 1
                            /\ approvalRow[turn.e] # "open"
                            /\ turn.lane # "retry" \/ turn'.at > 2 => ~failedLast'[turn.e]
        BY <2>6
      <4>. QED  BY <2>4, <2>6, <3>3, <3>4, <3>5, <3>6, <4>1 DEF Moves
    <3>8. TurnOK'
      BY <2>1, <3>1, <3>7 DEF TurnOK
    <3>9. Offered'
      <4>1. \A e \in Exchanges : ~Dropping(e) /\ ~Dropping(e)'
        BY <2>4, <3>2 DEF Dropping
      <4>. QED  BY <1>0, <4>1 DEF Offered
    <3>. QED  BY <1>1, <2>3, <3>8, <3>9 DEF IInv
  <2>. QED  BY <2>2, <2>5, <2>6
<1>. QED  BY <1>2, <1>3

\* A handler starts: a writing or proposing one on a text that has a pane and was not
\* handed over, an answer on an approval that is open.
LEMMA Begin ==
  ASSUME IInv, Idle, Moves, OthersTyped, UNCHANGED <<handed, approval, approvalRow, proc>>,
         paneOf' \in [Exchanges -> Panes \cup {None}],
         \A x \in Exchanges : paneOf'[x] = None => paneOf[x] = None,
         NEW l \in DOMAIN Lane, NEW e \in Exchanges, NEW o \in Exchanges \cup {None},
         turn' = [lane |-> l, e |-> e, of |-> o, at |-> 1],
         1 \in DOMAIN Lane[l],
         l = "followup" => o \in Exchanges /\ paneOf'[e] = None,
         l \in Writing \cup {"propose"} => paneOf'[e] # None /\ handed[e] = 0,
         l = "propose" => ~failedLast[e],
         l \in {"workbench", "voice"} => approvalRow[e] # "open" /\ ~failedLast[e],
         l = "retry" => approvalRow[e] # "open",
         l \in {"approve", "reject"} => approvalRow[e] = "open",
         l = "approve" => ~failedLast[e]
  PROVE  IInv'
<1>0. Types /\ TurnOK /\ Offered /\ proc = "up" /\ turn = Rest
  BY DEF IInv, Idle
<1>1. turn'.lane = l /\ turn'.e = e /\ turn'.of = o /\ turn'.at = 1
  OBVIOUS
<1>2. Types'
  <2>1. turn' \in Turns /\ turn'.at \in DOMAIN Lane[turn'.lane]
    BY DEF Turns
  <2>. QED  BY <1>0, <1>1, <2>1 DEF Types, Moves, OthersTyped
<1>3. TurnOK'
  <2>1. 1 <= WriteAt(l)
    BY DEF WriteAt
  <2>. QED  BY <1>0, <1>1, <2>1 DEF TurnOK, Moves, Writing
<1>4. \A x \in Exchanges : Point(x)'
  <2>1. TAKE x \in Exchanges
  <2>2. Point(x)
    BY DEF IInv
  <2>. QED  BY <2>2 DEF Point, Fresh, Unsent, Evidence, Moves
<1>5. Offered'
  BY <1>0, <1>1 DEF Offered, Dropping, Rest
<1>. QED  BY <1>2, <1>3, <1>4, <1>5 DEF IInv

\* Every lane has a first task.
LEMMA Lanes ==
  /\ DOMAIN Lane = {"voice", "propose", "refuse", "workbench", "approve", "deadpane", "reject",
                    "drain", "retry", "followup", "complete", "needsInput"}
  /\ \A l \in DOMAIN Lane : 1 \in DOMAIN Lane[l]
<1>1. DOMAIN Lane = {"voice", "propose", "refuse", "workbench", "approve", "deadpane", "reject",
                    "drain", "retry", "followup", "complete", "needsInput"}
  BY DEF Lane
<1>2. Lane.approve = Approving
  BY ApproveLane DEF Lane
<1>3. ASSUME NEW l \in DOMAIN Lane
      PROVE  1 \in DOMAIN Lane[l]
  <2>1. CASE l = "approve"
    BY <1>2, <2>1 DEF Approving
  <2>2. CASE l # "approve"
    BY <1>1, <1>3, <2>2 DEF Lane, TwoPhase
  <2>. QED  BY <2>1, <2>2
<1>. QED  BY <1>1, <1>3

-----------------------------------------------------------------------------
(* Every action preserves the invariant: first the handlers that start.     *)

LEMMA MintStep ==
  ASSUME IInv, NEW e \in Exchanges, NEW p \in Panes, Mint(e, p),
         NEW l \in {"voice", "propose", "refuse", "workbench"}, Start(l, e)
  PROVE  IInv'
<1>0. Types
  BY DEF IInv
<1>1. /\ Idle /\ paneOf[e] = None /\ mem' = [mem EXCEPT ![e] = create]
      /\ paneOf' = [paneOf EXCEPT ![e] = p]
      /\ Persist(e, "absent", create, "exchange_created")
      /\ UNCHANGED <<paneActive, lastCmd, approval, term, followUpOf, approvalRow, handed,
                     proc, toRecover>>
  BY DEF Mint, history, boot
<1>2. create \in Good /\ create.state = "draft" /\ mem' \in [Exchanges -> Good]
  BY <1>0, <1>1, GoodResults DEF Types
<1>3. Moves
  BY <1>0, <1>1, <1>2, PersistMoves
<1>4. OthersTyped
  BY <1>0, <1>1 DEF Types, OthersTyped
<1>5. /\ paneOf' \in [Exchanges -> Panes \cup {None}] /\ paneOf'[e] # None
      /\ \A x \in Exchanges : paneOf'[x] = None => paneOf[x] = None
  BY <1>0, <1>1, SpineAssumption DEF Types
<1>6. handed[e] = 0 /\ ~failedLast[e] /\ approvalRow[e] = "none"
  BY <1>1 DEF IInv, Point, Fresh
<1>7. /\ l \in DOMAIN Lane /\ 1 \in DOMAIN Lane[l]
      /\ turn' = [lane |-> l, e |-> e, of |-> None, at |-> 1]
  BY Lanes DEF Start
<1>. QED  BY <1>1, <1>3, <1>4, <1>5, <1>6, <1>7, Begin

\* A handler that starts and leaves everything else alone.
LEMMA BareStart ==
  ASSUME IInv, Idle, UNCHANGED <<mem, rows, failedLast, paneActive, lastCmd, approval, term,
                                 paneOf, followUpOf, approvalRow, handed, proc, toRecover>>,
         NEW l \in DOMAIN Lane, NEW e \in Exchanges, NEW o \in Exchanges \cup {None},
         turn' = [lane |-> l, e |-> e, of |-> o, at |-> 1],
         l \notin {"voice", "propose", "workbench"},
         l = "followup" => o \in Exchanges /\ paneOf[e] = None,
         l = "retry" => failedLast[e],
         l \in {"approve", "reject"} => approvalRow[e] = "open"
  PROVE  IInv'
<1>0. Types /\ Point(e)
  BY DEF IInv
<1>1. Moves
  BY <1>0, StayMoves DEF Types
<1>2. OthersTyped
  BY <1>0 DEF Types, OthersTyped
<1>3. 1 \in DOMAIN Lane[l]
  BY Lanes
<1>4. /\ l \in {"approve", "retry"} => paneOf[e] # None /\ handed[e] = 0
      /\ l = "retry" => approvalRow[e] # "open"
      /\ l = "approve" => ~failedLast[e]
  BY <1>0 DEF Point, Fresh, Unsent
<1>5. paneOf' = paneOf /\ paneOf' \in [Exchanges -> Panes \cup {None}]
  BY <1>0 DEF Types
<1>. QED  BY <1>1, <1>2, <1>3, <1>4, <1>5, Begin DEF Writing

LEMMA OperatorStarts ==
  ASSUME IInv, NEW e \in Exchanges, NEW f \in Exchanges,
         Approve(e) \/ Reject(e) \/ Drain(e) \/ Retry(e) \/ FollowUp(e, f)
  PROVE  IInv'
<1>1. CASE Approve(e)
  <2>1. PICK l \in {"approve", "deadpane"} : Start(l, e)
    BY <1>1 DEF Approve
  <2>. QED  BY <1>1, <2>1, BareStart, Lanes
       DEF Approve, Start, live, durable, rows, history, boot
<1>2. CASE Reject(e)
  BY <1>2, BareStart, Lanes DEF Reject, Start, live, durable, rows, history, boot
<1>3. CASE Drain(e)
  BY <1>3, BareStart, Lanes DEF Drain, Start, live, durable, rows, history, boot
<1>4. CASE Retry(e)
  BY <1>4, BareStart, Lanes
  DEF Retry, RetryEligible, Start, live, durable, rows, history, boot
<1>5. CASE FollowUp(e, f)
  BY <1>5, BareStart, Lanes
  DEF FollowUp, FollowUpUnchecked, live, durable, rows, history, boot
<1>. QED  BY <1>1, <1>2, <1>3, <1>4, <1>5

-----------------------------------------------------------------------------
(* What the pane shows, and the operator's cancel.                         *)

LEMMA ReportStarts ==
  ASSUME IInv, NEW p \in Panes, NEW outcome \in {"complete", "needsInput"},
         paneActive[p] # None, Idle, Start(outcome, paneActive[p]),
         UNCHANGED <<mem, rows, failedLast, paneActive, lastCmd, approval, term,
                     paneOf, followUpOf, approvalRow, handed, boot>>
  PROVE  IInv'
<1>1. paneActive[p] \in Exchanges
  BY DEF IInv, Types
<1>. QED  BY <1>1, BareStart, Lanes DEF Start, boot

LEMMA PaneStep ==
  ASSUME IInv, NEW p \in Panes,
         \/ \E kind \in DOMAIN SignalTarget : PaneSignal(p, kind)
         \/ \E outcome \in {"failed", "complete", "needsInput"} : Report(p, outcome)
         \/ LegacyReport(p) \/ ManualCommand(p) \/ WriteAround(p) \/ PaneStarts(p) \/ PaneExits(p)
  PROVE  IInv'
<1>0. Types
  BY DEF IInv
<1>1. ASSUME NEW kind \in DOMAIN SignalTarget, PaneSignal(p, kind)
      PROVE  IInv'
  <2>. DEFINE e == paneActive[p]
              to == SignalTarget[kind]
  <2>1. /\ e \in Exchanges /\ transitionOk(mem[e], to) /\ Mirror(e, transition(mem[e], to), kind)
        /\ UNCHANGED <<turn, besidesMirror>>
    BY <1>0, <1>1 DEF PaneSignal, Types
  <2>2. to # "delivered" /\ kind # "delivery_failed"
    BY DEF SignalTarget
  <2>. HIDE DEF e, to
  <2>3. Moves
    BY <1>0, <2>1, <2>2, MachineMoves, MirrorMoves
  <2>4. OthersTyped
    BY <1>0, <2>1 DEF Types, OthersTyped, besidesMirror, boot
  <2>. QED  BY <2>1, <2>3, <2>4, Mild DEF besidesMirror, history, boot
<1>2. ASSUME NEW outcome \in {"failed", "complete", "needsInput"}, Report(p, outcome)
      PROVE  IInv'
  <2>. DEFINE e == paneActive[p]
  <2>1. e \in Exchanges /\ Idle /\ UNCHANGED besidesMirror
    BY <1>0, <1>2 DEF Report, Types
  <2>2. CASE /\ transitionOk(mem[e], "agent_failed") /\ UNCHANGED turn
             /\ Mirror(e, transition(mem[e], "agent_failed"), "agent_failure_reported")
    <3>. HIDE DEF e
    <3>1. Moves
      BY <1>0, <2>1, <2>2, MachineMoves, MirrorMoves
    <3>2. OthersTyped
      BY <1>0, <2>1 DEF Types, OthersTyped, besidesMirror, boot
    <3>. QED  BY <2>1, <2>2, <3>1, <3>2, Mild DEF besidesMirror, history, boot
  <2>3. CASE /\ outcome \in {"complete", "needsInput"} /\ Start(outcome, e)
             /\ UNCHANGED <<mem, rows, failedLast>>
    BY <1>2, <2>1, <2>3, ReportStarts DEF Report, besidesMirror, history, boot
  <2>. QED  BY <1>2, <2>2, <2>3 DEF Report
<1>3. CASE LegacyReport(p)
  BY <1>3, ReportStarts DEF LegacyReport, live, durable, rows, boot
<1>4. CASE ManualCommand(p) \/ WriteAround(p)
  <2>1. Moves
    BY <1>0, <1>4, ResumesMoves DEF ManualCommand, WriteAround
  <2>2. OthersTyped
    BY <1>0, <1>4 DEF ManualCommand, WriteAround, Types, OthersTyped, boot
  <2>. QED  BY <1>4, <2>1, <2>2, Mild DEF ManualCommand, WriteAround, boot
<1>5. CASE PaneStarts(p) \/ PaneExits(p)
  <2>1. PICK t \in {"live", "exited"} : term' = [term EXCEPT ![p] = t]
    BY <1>5 DEF PaneStarts, PaneExits
  <2>2. UNCHANGED <<turn, mem, paneActive, lastCmd, approval, durable, history, boot>>
    BY <1>5 DEF PaneStarts, PaneExits
  <2>3. Moves
    BY <1>0, <2>2, StayMoves DEF Types, durable
  <2>4. OthersTyped
    BY <1>0, <2>1, <2>2 DEF Types, OthersTyped, durable, boot
  <2>. QED  BY <2>2, <2>3, <2>4, Mild DEF durable, history, boot
<1>. QED  BY <1>1, <1>2, <1>3, <1>4, <1>5

LEMMA BoundTyped ==
  ASSUME Types, NEW e \in Exchanges, NEW s, s.state \in InFlight => paneOf[e] # None
  PROVE  Bound(e, s) \in [Panes -> Exchanges \cup {None}]
  BY DEF Types, Bound

LEMMA AdoptedGood ==
  ASSUME Types, NEW e \in Exchanges, NEW s \in Good
  PROVE  Adopted(e, s) \in [Exchanges -> Good]
  BY DEF Types, Adopted

LEMMA CancelDurableStep ==
  ASSUME IInv, NEW e \in Exchanges, CancelDurable(e)
  PROVE  IInv'
<1>0. Types
  BY DEF IInv
<1>. DEFINE s == transition(row[e], "cancelled")
<1>1. /\ row[e].state \in CANCELLABLE_STATES
      /\ Transit(e, s, "exchange_cancelled") /\ mem' = Adopted(e, s) /\ paneActive' = Bound(e, s)
      /\ UNCHANGED <<turn, lastCmd, approval, term, paneOf, followUpOf, approvalRow,
                     history, boot>>
  BY DEF CancelDurable
<1>2. s \in Good /\ s.state = "cancelled"
  <2>1. row[e] \in Good /\ row[e].state # "absent" /\ "cancelled" \in EXCHANGE_STATES
    BY <1>0, <1>1 DEF Types, CANCELLABLE_STATES, EXCHANGE_STATES
  <2>. QED  BY <2>1, GoodResults
<1>. HIDE DEF s
<1>3. Moves
  BY <1>0, <1>1, <1>2, AdoptedGood, TransitMoves
<1>4. OthersTyped
  <2>1. s.state \notin InFlight
    BY <1>2 DEF InFlight
  <2>. QED  BY <1>0, <1>1, <2>1, BoundTyped DEF Types, OthersTyped, boot
<1>. QED  BY <1>1, <1>3, <1>4, Mild DEF history, boot

-----------------------------------------------------------------------------
(* The tasks of the handlers.                                              *)

\* The tasks that only move the machine and the rows.
LEMMA MirrorTask ==
  ASSUME IInv, NEW task, task \notin Special, Doing(task), Advance \/ turn' = Rest,
         Moves, UNCHANGED besidesMirror
  PROVE  IInv'
<1>1. OthersTyped
  BY DEF IInv, Types, OthersTyped, besidesMirror, boot
<1>. QED  BY <1>1, Mild DEF besidesMirror, history, boot

\* The exchange of a running handler.
LEMMA Handled ==
  ASSUME IInv, NEW task, Doing(task)
  PROVE  turn.e \in Exchanges /\ mem[turn.e] \in Good /\ row[turn.e] \in Good
  BY DEF IInv, Types, Doing, Turns

LEMMA CallTasks ==
  ASSUME IInv, Request \/ Confirm \/ Cancel \/ Stage \/ Attempt
  PROVE  IInv'
<1>0. Types
  BY DEF IInv
<1>1. CASE Request
  <2>1. turn.e \in Exchanges /\ turn.e \in ApprovalIds
    BY <1>1, Handled, SpineAssumption DEF Request
  <2>2. requestApprovalOk(mem[turn.e]) =>
          /\ requestApproval(mem[turn.e], turn.e) \in Good
          /\ requestApproval(mem[turn.e], turn.e).state # "delivered"
    <3>1. requestApprovalOk(mem[turn.e]) => mem[turn.e].state # "absent"
      BY Legals DEF requestApprovalOk, transitionOk
    <3>. QED  BY <1>1, <2>1, <3>1, Handled, GoodResults DEF Request
  <2>3. Moves
    BY <1>0, <1>1, <2>1, <2>2, CallMoves DEF Request
  <2>. QED  BY <1>1, <2>3, MirrorTask DEF Request, Special
<1>2. CASE Confirm
  <2>1. turn.e \in Exchanges
    BY <1>2, Handled DEF Confirm
  <2>2. confirmApprovalOk(mem[turn.e], turn.e, mem[turn.e].approvalVersion) =>
          confirmApproval(mem[turn.e]) \in Good /\ confirmApproval(mem[turn.e]).state = "staged"
    <3>1. "staged" \in EXCHANGE_STATES
      BY DEF EXCHANGE_STATES
    <3>. QED  BY <1>2, <3>1, Handled, GoodResults DEF Confirm, confirmApprovalOk, confirmApproval
  <2>3. Moves
    BY <1>0, <1>2, <2>1, <2>2, CallMoves DEF Confirm
  <2>. QED  BY <1>2, <2>3, MirrorTask DEF Confirm, Special
<1>3. CASE Cancel
  <2>1. turn.e \in Exchanges
    BY <1>3, Handled DEF Cancel
  <2>2. Moves
    BY <1>0, <1>3, <2>1, MachineMoves, CallMoves DEF Cancel
  <2>. QED  BY <1>3, <2>2, MirrorTask DEF Cancel, Special
<1>4. CASE Stage
  <2>1. turn.e \in Exchanges
    BY <1>4, Handled DEF Stage
  <2>2. Moves
    BY <1>0, <1>4, <2>1, MachineMoves, CallMoves DEF Stage, stageAutoExecuteOk, stageAutoExecute
  <2>. QED  BY <1>4, <2>2, MirrorTask DEF Stage, Special
<1>5. CASE Attempt
  <2>1. turn.e \in Exchanges
    BY <1>5, Handled DEF Attempt
  <2>2. markDeliveryAttemptedOk(mem[turn.e]) =>
          /\ markDeliveryAttempted(mem[turn.e]) \in Good
          /\ markDeliveryAttempted(mem[turn.e]).state # "delivered"
    BY <1>5, Handled, GoodResults DEF Attempt, markDeliveryAttemptedOk
  <2>3. Moves
    BY <1>0, <1>5, <2>1, <2>2, CallMoves DEF Attempt
  <2>. QED  BY <1>5, <2>3, MirrorTask DEF Attempt, Special
<1>. QED  BY <1>1, <1>2, <1>3, <1>4, <1>5

LEMMA KickStep ==
  ASSUME IInv, Kick
  PROVE  IInv'
<1>1. Doing("kick") /\ turn.e \in Exchanges /\ Types
  BY Handled DEF Kick, IInv
<1>2. paneOf[turn.e] \in Panes
  <2>1. turn.lane \in Writing
    BY <1>1, Places DEF Placed, Writing
  <2>. QED  BY <1>1, <2>1 DEF IInv, TurnOK, Types
<1>3. Moves
  BY <1>1, <1>2, ResumesMoves DEF Kick
<1>. QED  BY <1>3, MirrorTask DEF Kick, Special

LEMMA HopStep ==
  ASSUME IInv, SettleReport
  PROVE  IInv'
<1>1. ASSUME NEW task \in {"idled", "finish", "resumed", "ask"}, NEW needed, NEW to, NEW event,
             to # "delivered", event # "delivery_failed", Hop(task, needed, to, event)
      PROVE  IInv'
  <2>1. Types /\ turn.e \in Exchanges
    BY <1>1, Handled DEF Hop, IInv
  <2>2. Moves
    <3>1. CASE UNCHANGED <<mem, rows, failedLast>>
      BY <2>1, <3>1, StayMoves DEF Types
    <3>2. CASE /\ transitionOk(mem[turn.e], to)
               /\ Mirror(turn.e, transition(mem[turn.e], to), event)
      BY <1>1, <2>1, <3>2, MachineMoves, MirrorMoves
    <3>. QED  BY <1>1, <3>1, <3>2 DEF Hop
  <2>3. Advance \/ turn' = Rest
    BY <1>1 DEF Hop
  <2>. QED  BY <1>1, <2>2, <2>3, MirrorTask DEF Hop, Special
<1>. QED  BY <1>1 DEF SettleReport

\* Within a handler that writes, the exchange has its pane.
LEMMA OnPane ==
  ASSUME IInv, turn.lane \in Writing
  PROVE  turn.e \in Exchanges /\ paneOf[turn.e] \in Panes
  BY DEF IInv, Types, TurnOK, Turns, Rest, Writing

\* Rows and machine adopt a snapshot together (a recovery action).
LEMMA AdoptionStep ==
  ASSUME IInv, NEW task, task \notin Special, Doing(task), Advance, turn.lane \in Writing,
         NEW s \in Good, mem' = Adopted(turn.e, s), paneActive' = Bound(turn.e, s), Moves,
         UNCHANGED <<lastCmd, approval, term, paneOf, followUpOf, approvalRow, history, boot>>
  PROVE  IInv'
<1>1. Types /\ turn.e \in Exchanges /\ paneOf[turn.e] # None
  BY OnPane, SpineAssumption DEF IInv
<1>2. OthersTyped
  BY <1>1, BoundTyped DEF Types, OthersTyped, boot
<1>. QED  BY <1>2, Mild DEF history, boot

LEMMA RestageStep ==
  ASSUME IInv, Stations, Restage
  PROVE  IInv'
<1>. DEFINE s == stageAutoExecute(row[turn.e])
<1>1. /\ Doing("restage") /\ Advance /\ RowsBecome([row EXCEPT ![turn.e] = s])
      /\ mem' = Adopted(turn.e, s) /\ paneActive' = Bound(turn.e, s)
      /\ UNCHANGED <<lastCmd, approval, term, paneOf, failedLast, followUpOf, approvalRow,
                     history, boot>>
  BY DEF Restage
<1>2. Types /\ turn.lane = "retry" /\ turn.e \in Exchanges /\ row[turn.e].state = "draft"
  BY <1>1, Handled, Places DEF IInv, Placed, Stations
<1>3. s \in Good /\ s.state = "staged"
  <2>1. row[turn.e] \in Good /\ "staged" \in EXCHANGE_STATES
    BY <1>2 DEF Types, EXCHANGE_STATES
  <2>. QED  BY <1>2, <2>1, GoodResults DEF stageAutoExecute
<1>. HIDE DEF s
<1>4. Moves
  <2>1. mem' \in [Exchanges -> Good]
    BY <1>1, <1>2, <1>3, AdoptedGood
  <2>. QED  BY <1>1, <1>2, <1>3, <2>1, RowsMove DEF Moves, Types
<1>. QED  BY <1>1, <1>2, <1>3, <1>4, AdoptionStep DEF Special, Writing

LEMMA RedeliveredStep ==
  ASSUME IInv, Stations, Redelivered
  PROVE  IInv'
<1>. DEFINE s == markDelivered(row[turn.e])
<1>1. /\ Doing("redelivered") /\ Advance /\ Transit(turn.e, s, "delivery_succeeded")
      /\ mem' = Adopted(turn.e, s) /\ paneActive' = Bound(turn.e, s)
      /\ UNCHANGED <<lastCmd, approval, term, paneOf, followUpOf, approvalRow, history, boot>>
  BY DEF Redelivered
<1>2. /\ Types /\ turn.lane = "retry" /\ turn.at = 5 /\ turn.e \in Exchanges
      /\ row[turn.e].state = "staged"
  BY <1>1, Handled, Places DEF IInv, Placed, Stations
<1>3. s \in Good /\ handed[turn.e] = 1
  <2>1. row[turn.e] \in Good /\ "delivered" \in EXCHANGE_STATES
    BY <1>2 DEF Types, EXCHANGE_STATES
  <2>2. s \in Good
    BY <1>2, <2>1, GoodResults DEF markDelivered
  <2>3. handed[turn.e] = IF turn.at <= WriteAt(turn.lane) THEN 0 ELSE 1
    BY <1>2 DEF IInv, TurnOK, Writing
  <2>. QED  BY <1>2, <2>2, <2>3 DEF WriteAt
<1>. HIDE DEF s
<1>4. Moves
  BY <1>1, <1>2, <1>3, AdoptedGood, TransitMoves
<1>. QED  BY <1>1, <1>2, <1>3, <1>4, AdoptionStep DEF Special, Writing

LEMMA CompleteStep ==
  ASSUME IInv, Complete
  PROVE  IInv'
<1>. DEFINE e == turn.e
            p == paneOf[e]
            prior == Superseded(e, p)
<1>1. /\ Doing("complete") /\ (Advance \/ turn' = Rest)
      /\ UNCHANGED <<approval, term, paneOf, followUpOf, approvalRow, history, boot>>
  BY DEF Complete
<1>2. /\ Types /\ e \in Exchanges /\ p \in Panes
  <2>1. turn.lane \in Writing
    BY <1>1, Places DEF Placed, Writing, IInv
  <2>. QED  BY <2>1, OnPane DEF IInv
<1>3. CASE UNCHANGED <<mem, rows, failedLast, paneActive, lastCmd>>
  <2>1. Moves
    BY <1>2, <1>3, StayMoves DEF Types
  <2>2. OthersTyped
    BY <1>1, <1>2, <1>3 DEF Types, OthersTyped, boot
  <2>. QED  BY <1>1, <2>1, <2>2, Mild DEF Special, history, boot
<1>4. CASE /\ markDeliveredOk(mem[e])
           /\ mem' = [x \in Exchanges |->
                 IF x = e THEN markDelivered(mem[e])
                 ELSE IF x \in prior THEN transition(mem[x], "interrupted") ELSE mem[x]]
           /\ \/ prior = {} /\ UNCHANGED <<rows, failedLast>>
              \/ \E x \in prior :
                   Persist(x, mem[x].state, transition(mem[x], "interrupted"), "exchange_recovered")
           /\ paneActive' = [paneActive EXCEPT ![p] = e]
           /\ lastCmd' = [lastCmd EXCEPT ![p] = e]
  <2>1. ASSUME NEW x \in prior
        PROVE  /\ x \in Exchanges /\ transition(mem[x], "interrupted") \in Good
               /\ transition(mem[x], "interrupted").state = "interrupted"
    BY <1>2, <2>1, MachineMoves DEF Superseded, Types
  <2>2. markDelivered(mem[e]) \in Good
    <3>1. "delivered" \in EXCHANGE_STATES /\ mem[e] \in Good /\ mem[e].state # "absent"
      BY <1>2, <1>4 DEF EXCHANGE_STATES, Types, markDeliveredOk
    <3>. QED  BY <3>1, GoodResults DEF markDelivered
  <2>. HIDE DEF e, p, prior
  <2>3. mem' \in [Exchanges -> Good]
    BY <1>2, <1>4, <2>1, <2>2 DEF Types
  <2>4. Moves
    <3>1. CASE UNCHANGED <<rows, failedLast>>
      BY <1>2, <2>3, <3>1, StayMoves
    <3>2. ASSUME NEW x \in prior,
                 Persist(x, mem[x].state, transition(mem[x], "interrupted"), "exchange_recovered")
          PROVE  Moves
      BY <1>2, <2>1, <2>3, <3>2, PersistMoves
    <3>. QED  BY <1>4, <3>1, <3>2
  <2>5. OthersTyped
    BY <1>1, <1>2, <1>4 DEF Types, OthersTyped, boot
  <2>. QED  BY <1>1, <2>4, <2>5, Mild DEF Special, history, boot
<1>. QED  BY <1>3, <1>4 DEF Complete

LEMMA RecordStep ==
  ASSUME IInv, Stations, Record
  PROVE  IInv'
<1>1. /\ Doing("record") /\ Advance /\ Types /\ turn.e \in Exchanges
      /\ Persist(turn.e, "staged", mem[turn.e], "delivery_succeeded")
      /\ UNCHANGED <<live, paneOf, followUpOf, approvalRow, history, boot>>
  BY Handled DEF Record, IInv
<1>2. /\ turn.lane \in Writing /\ turn.at = IF turn.lane = "approve" THEN 9 ELSE 6
      /\ turn.lane # "retry"
  BY <1>1, Places DEF Placed, Writing
<1>3. handed[turn.e] = 1
  BY <1>2 DEF IInv, TurnOK, Writing, WriteAt
<1>4. Moves
  BY <1>1, <1>3, PersistMoves DEF Types, live
<1>5. OthersTyped
  BY <1>1 DEF Types, OthersTyped, live, boot
<1>. QED  BY <1>1, <1>4, <1>5, Mild DEF Special, live, history, boot

LEMMA LinkStep ==
  ASSUME IInv, Link
  PROVE  IInv'
<1>1. /\ Doing("link") /\ Advance /\ Types /\ turn.e \in Exchanges /\ turn.of \in Exchanges
      /\ followUpOf' = [followUpOf EXCEPT ![turn.e] = turn.of]
      /\ UNCHANGED <<live, rows, paneOf, failedLast, approvalRow, history, boot>>
  BY Handled, Places DEF Link, IInv, Placed, Types
<1>2. Moves
  BY <1>1, StayMoves DEF Types, live
<1>3. OthersTyped
  BY <1>1 DEF Types, OthersTyped, live, boot
<1>. QED  BY <1>1, <1>2, <1>3, Mild DEF Special, live, history, boot

\* The write failed: the exchange may be sent again, and was not handed over.
LEMMA WriteThrowsStep ==
  ASSUME IInv, Stations, WriteThrows
  PROVE  IInv'
<1>. DEFINE e == turn.e
<1>1. /\ Doing("write") /\ turn' = Rest /\ Types /\ e \in Exchanges
      /\ UNCHANGED <<lastCmd, approval, term, paneOf, followUpOf, approvalRow, history, boot>>
  BY Handled DEF WriteThrows, IInv
<1>2. /\ turn.lane \in Writing /\ turn.at = WriteAt(turn.lane)
  BY <1>1, Places DEF Placed, Writing, WriteAt
<1>3. handed[e] = 0 /\ approvalRow[e] # "open" /\ paneOf[e] # None
  BY <1>2 DEF IInv, TurnOK, WriteAt, Writing
<1>4. /\ mem' \in [Exchanges -> Good] /\ row' \in [Exchanges -> Good]
      /\ failedLast' \in [Exchanges -> BOOLEAN] /\ landed' \subseteq Exchanges
      /\ \A x \in Exchanges : failedLast'[x] => failedLast[x] \/ x = e
      /\ \A x \in Exchanges : x \in landed' \/ row'[x].state = "delivered" =>
           x \in landed \/ row[x].state = "delivered" \/ handed[x] = 1
      /\ paneActive' \in [Panes -> Exchanges \cup {None}]
  <2>1. CASE turn.lane = "workbench"
    <3>1. CASE UNCHANGED <<mem, rows, failedLast, paneActive>>
      BY <1>1, <3>1 DEF Types, rows
    <3>2. CASE /\ markDeliveryFailedOk(mem[e]) /\ UNCHANGED paneActive
               /\ Mirror(e, markDeliveryFailed(mem[e]), "delivery_failed")
      <4>1. markDeliveryFailed(mem[e]) \in Good /\ markDeliveryFailed(mem[e]).state = "draft"
        <5>1. mem[e] \in Good /\ mem[e].state # "absent"
          BY <1>1, <3>2, Legals DEF Types, markDeliveryFailedOk, transitionOk
        <5>. QED  BY <5>1, GoodResults
      <4>2. Persist(e, mem[e].state, markDeliveryFailed(mem[e]), "delivery_failed")
        BY <3>2 DEF Mirror
      <4>3. \/ RowsBecome([row EXCEPT ![e] = markDeliveryFailed(mem[e])])
            \/ RowsBecome(row)
        BY <4>2 DEF Persist, Persisted
      <4>4. /\ failedLast' \in [Exchanges -> BOOLEAN]
            /\ \A x \in Exchanges : failedLast'[x] => failedLast[x] \/ x = e
        BY <1>1, <4>2 DEF Persist, Types
      <4>5. mem' \in [Exchanges -> Good] /\ paneActive' \in [Panes -> Exchanges \cup {None}]
        BY <1>1, <3>2, <4>1 DEF Mirror, Types
      <4>. QED  BY <1>1, <4>1, <4>3, <4>4, <4>5, RowsMove
    <3>. QED  BY <2>1, <3>1, <3>2 DEF WriteThrows, Call
  <2>2. CASE turn.lane = "retry"
    <3>. DEFINE s == markDeliveryFailed(row[e])
    <3>1. /\ Transit(e, s, "delivery_failed") /\ mem' = Adopted(e, s) /\ paneActive' = Bound(e, s)
      BY <2>2 DEF WriteThrows
    <3>2. s \in Good /\ s.state = "draft"
      <4>1. row[e] \in Good /\ row[e].state # "absent"
        BY <1>1, <2>2 DEF Types, Stations
      <4>. QED  BY <4>1, GoodResults
    <3>. HIDE DEF s
    <3>3. /\ failedLast' \in [Exchanges -> BOOLEAN] /\ RowsBecome([row EXCEPT ![e] = s])
          /\ \A x \in Exchanges : failedLast'[x] => failedLast[x] \/ x = e
      BY <1>1, <3>1 DEF Transit, Types
    <3>4. mem' \in [Exchanges -> Good] /\ paneActive' \in [Panes -> Exchanges \cup {None}]
      BY <1>1, <1>3, <3>1, <3>2, AdoptedGood, BoundTyped
    <3>. QED  BY <1>1, <3>2, <3>3, <3>4, RowsMove
  <2>3. CASE turn.lane \notin {"workbench", "retry"}
    <3>1. UNCHANGED <<mem, rows, failedLast, paneActive>>
      BY <2>3 DEF WriteThrows
    <3>. QED  BY <1>1, <3>1 DEF Types, rows
  <2>. QED  BY <2>1, <2>2, <2>3
<1>. HIDE DEF e
<1>5. Types'
  BY <1>1, <1>4 DEF Types, Rest, boot, history
<1>6. TurnOK'
  BY <1>1 DEF TurnOK, Rest, Writing
<1>7. \A x \in Exchanges : Point(x)'
  <2>1. TAKE x \in Exchanges
  <2>2. Point(x)
    BY DEF IInv
  <2>. QED  BY <1>1, <1>3, <1>4, <2>2 DEF Point, Fresh, Unsent, Evidence, history
<1>8. Offered'
  <2>1. \A x \in Exchanges : ~Dropping(x) /\ ~Dropping(x)'
    BY <1>1, <1>2 DEF Dropping, Rest, Writing, WriteAt
  <2>. QED  BY <1>1, <2>1 DEF Offered, IInv, boot
<1>. QED  BY <1>5, <1>6, <1>7, <1>8 DEF IInv

-----------------------------------------------------------------------------
(* The tasks that hand over, hold, claim, drop, place or log a retry.      *)

\* The machine and the rows stay; turn, approvals and history move within their types.
LEMMA HoldStep ==
  ASSUME IInv, Hold
  PROVE  IInv'
<1>1. /\ Doing("hold") /\ Advance /\ Types /\ turn.e \in Exchanges
      /\ approval' = [approval EXCEPT ![turn.e] = TRUE]
      /\ approvalRow' = [approvalRow EXCEPT ![turn.e] = "open"]
      /\ UNCHANGED <<mem, paneActive, lastCmd, term, rows, paneOf, failedLast, followUpOf,
                     history, boot>>
  BY Handled DEF Hold, IInv
<1>2. turn.lane = "propose" /\ turn.at = 1
  BY <1>1, Places DEF Placed
<1>3. (turn' \in Turns /\ turn'.at \in DOMAIN Lane[turn'.lane]) \/ turn' = Rest
  BY <1>1, Onward
<1>4. turn' = Rest \/ (turn'.lane = "propose" /\ turn'.at = 2)
  BY <1>1, <1>2, Onward
<1>5. Types'
  BY <1>1, <1>3, <1>4 DEF Types, Bindings, Rest, rows, history, boot
<1>6. TurnOK'
  BY <1>1, <1>4 DEF TurnOK, Rest, Writing, boot, IInv, Doing
<1>7. \A x \in Exchanges : Point(x)'
  <2>1. TAKE x \in Exchanges
  <2>2. Point(x) /\ paneOf[turn.e] # None /\ handed[turn.e] = 0 /\ ~failedLast[turn.e]
    BY <1>2 DEF IInv, TurnOK
  <2>. QED  BY <1>1, <2>2 DEF Point, Fresh, Unsent, Evidence, rows, history, Types
<1>8. Offered'
  <2>1. \A x \in Exchanges : ~Dropping(x) /\ ~Dropping(x)'
    BY <1>2, <1>4 DEF Dropping, Rest
  <2>. QED  BY <1>1, <2>1 DEF Offered, IInv, boot, Types
<1>. QED  BY <1>5, <1>6, <1>7, <1>8 DEF IInv

LEMMA ClaimStep ==
  ASSUME IInv, Claim
  PROVE  IInv'
<1>1. /\ Doing("claim") /\ Advance /\ Types /\ turn.e \in Exchanges
      /\ approvalRow' = [approvalRow EXCEPT ![turn.e] = "claimed"]
      /\ UNCHANGED <<live, rows, paneOf, failedLast, followUpOf, history, boot>>
  BY Handled DEF Claim, IInv
<1>2. turn.lane \in {"approve", "reject"} /\ turn.at = 1 /\ approvalRow[turn.e] = "open"
  BY <1>1, Places DEF Placed, IInv, TurnOK
<1>3. /\ turn' \in Turns /\ turn'.at \in DOMAIN Lane[turn'.lane]
      /\ turn'.lane = turn.lane /\ turn'.at = 2 /\ turn'.e = turn.e
  <2>1. Len(Lane[turn.lane]) # 1
    BY <1>2, ApproveLane DEF Lane, Approving
  <2>2. turn' # Rest
    BY <1>1, <1>2, <2>1 DEF Advance, Rest, Types, Turns
  <2>. QED  BY <1>1, <1>2, <2>2, Onward
<1>4. Types'
  BY <1>1, <1>2, <1>3 DEF Types, Bindings, live, rows, history, boot
<1>5. TurnOK'
  <2>1. turn.lane = "approve" =>
          paneOf[turn.e] # None /\ handed[turn.e] = 0 /\ ~failedLast[turn.e]
    <3>1. Point(turn.e)
      BY <1>1 DEF IInv
    <3>. QED  BY <1>2, <3>1 DEF Point, Fresh, Unsent
  <2>2. approvalRow'[turn.e] = "claimed" /\ UNCHANGED <<paneOf, handed, failedLast, proc>>
    BY <1>1 DEF Types, history, boot
  <2>3. proc = "up"
    BY <1>1 DEF Doing
  <2>. QED  BY <1>2, <1>3, <2>1, <2>2, <2>3 DEF TurnOK, Writing, WriteAt
<1>6. \A x \in Exchanges : Point(x)'
  <2>1. TAKE x \in Exchanges
  <2>2. Point(x) /\ Point(turn.e)
    BY <1>1 DEF IInv
  <2>. QED  BY <1>1, <1>2, <2>2 DEF Point, Fresh, Unsent, Evidence, rows, history, Types
<1>7. Offered'
  <2>1. \A x \in Exchanges : ~Dropping(x) /\ (Dropping(x)' <=> x = turn.e)
    BY <1>2, <1>3 DEF Dropping
  <2>. QED  BY <1>1, <1>2, <2>1 DEF Offered, IInv, boot, live, Types
<1>. QED  BY <1>4, <1>5, <1>6, <1>7 DEF IInv

LEMMA DropStep ==
  ASSUME IInv, Drop
  PROVE  IInv'
<1>1. /\ Doing("drop") /\ Advance /\ Types /\ turn.e \in Exchanges /\ proc = "up"
      /\ approval' = [approval EXCEPT ![turn.e] = FALSE]
      /\ approvalRow' = [approvalRow EXCEPT ![turn.e] = "none"]
      /\ UNCHANGED <<mem, paneActive, lastCmd, term, rows, paneOf, failedLast, followUpOf,
                     history, boot>>
  BY Handled DEF Drop, IInv, Doing
<1>2. \/ turn.lane \in {"approve", "reject"} /\ turn.at = 2
      \/ turn.lane = "deadpane" /\ turn.at = 1
  BY <1>1, Places DEF Placed
<1>3. \/ turn' = Rest
      \/ /\ turn' \in Turns /\ turn'.at \in DOMAIN Lane[turn'.lane]
         /\ turn'.lane = turn.lane /\ turn'.at = turn.at + 1 /\ turn'.e = turn.e
  BY <1>1, Onward
<1>4. Types'
  BY <1>1, <1>2, <1>3 DEF Types, Bindings, Rest, rows, history, boot
<1>5. approvalRow'[turn.e] = "none" /\ UNCHANGED <<paneOf, handed, failedLast, proc>>
  BY <1>1 DEF Types, history, boot
<1>6. TurnOK'
  <2>1. turn.lane = "approve" =>
          paneOf[turn.e] # None /\ handed[turn.e] = 0 /\ ~failedLast[turn.e]
    BY <1>2 DEF IInv, TurnOK, Writing, WriteAt
  <2>. QED  BY <1>1, <1>2, <1>3, <1>5, <2>1 DEF TurnOK, Rest, Writing, WriteAt
<1>7. \A x \in Exchanges : Point(x)'
  <2>1. TAKE x \in Exchanges
  <2>2. Point(x)
    BY DEF IInv
  <2>. QED  BY <1>1, <2>2 DEF Point, Fresh, Unsent, Evidence, rows, history, Types
<1>8. Offered'
  <2>1. \A x \in Exchanges : ~Dropping(x)' /\ (x # turn.e => ~Dropping(x))
    BY <1>2, <1>3 DEF Dropping, Rest
  <2>. QED  BY <1>1, <2>1 DEF Offered, IInv, boot, Types
<1>. QED  BY <1>4, <1>6, <1>7, <1>8 DEF IInv

LEMMA DrainStep ==
  ASSUME IInv, DrainOne
  PROVE  IInv'
<1>1. PICK x \in Exchanges :
         /\ approval' = [approval EXCEPT ![x] = FALSE]
         /\ approvalRow' = [approvalRow EXCEPT ![x] = "none"]
         /\ Advance \/ UNCHANGED turn
  BY DEF DrainOne
<1>2. /\ Doing("drain") /\ Types /\ proc = "up"
      /\ UNCHANGED <<mem, paneActive, lastCmd, term, rows, paneOf, failedLast, followUpOf,
                     history, boot>>
  BY DEF DrainOne, IInv, Doing
<1>3. turn.lane = "drain" /\ turn.at = 1 /\ turn \in Turns /\ turn.at \in DOMAIN Lane[turn.lane]
  BY <1>2, Places DEF Placed
<1>4. turn' = Rest \/ UNCHANGED turn
  <2>1. Len(Lane["drain"]) = 1
    BY DEF Lane
  <2>. QED  BY <1>1, <1>3, <2>1 DEF Advance
<1>5. Types'
  BY <1>1, <1>2, <1>3, <1>4 DEF Types, Bindings, Rest, rows, history, boot
<1>6. TurnOK'
  BY <1>2, <1>3, <1>4 DEF TurnOK, Rest, Writing, boot
<1>7. \A y \in Exchanges : Point(y)'
  <2>1. TAKE y \in Exchanges
  <2>2. Point(y)
    BY DEF IInv
  <2>. QED  BY <1>1, <1>2, <2>2 DEF Point, Fresh, Unsent, Evidence, rows, history, Types
<1>8. Offered'
  <2>1. \A y \in Exchanges : ~Dropping(y)' /\ ~Dropping(y)
    BY <1>3, <1>4 DEF Dropping, Rest
  <2>. QED  BY <1>1, <1>2, <2>1 DEF Offered, IInv, boot, Types
<1>. QED  BY <1>5, <1>6, <1>7, <1>8 DEF IInv

LEMMA WriteStep ==
  ASSUME IInv, Write
  PROVE  IInv'
<1>1. /\ Doing("write") /\ Advance /\ Types /\ turn.e \in Exchanges /\ proc = "up"
      /\ handed' = [handed EXCEPT ![turn.e] = @ + 1]
      /\ UNCHANGED <<live, durable, boot>>
  BY Handled DEF Write, IInv, Doing
<1>2. turn.lane \in Writing /\ turn.at = WriteAt(turn.lane) /\ turn.at > 1
  BY <1>1, Places DEF Placed, Writing, WriteAt
<1>3. /\ handed[turn.e] = 0 /\ paneOf[turn.e] # None /\ approvalRow[turn.e] # "open"
      /\ ~failedLast[turn.e]
  BY <1>2 DEF IInv, TurnOK, WriteAt, Writing
<1>4. handed' \in [Exchanges -> {0, 1}] /\ handed'[turn.e] = 1
      /\ \A x \in Exchanges : x # turn.e => handed'[x] = handed[x]
  BY <1>1, <1>3 DEF Types
<1>5. \/ turn' = Rest
      \/ /\ turn' \in Turns /\ turn'.at \in DOMAIN Lane[turn'.lane]
         /\ turn'.lane = turn.lane /\ turn'.at = turn.at + 1 /\ turn'.e = turn.e
  BY <1>1, Onward
<1>6. Types'
  BY <1>1, <1>2, <1>4, <1>5 DEF Types, Rest, Writing, live, durable, rows, boot
<1>7. TurnOK'
  <2>1. UNCHANGED <<paneOf, failedLast, approvalRow, proc>>
    BY <1>1 DEF durable, boot
  <2>2. ~(turn.at + 1 <= WriteAt(turn.lane)) /\ turn.at + 1 # 1
    BY <1>2 DEF WriteAt
  <2>. QED  BY <1>1, <1>2, <1>3, <1>4, <1>5, <2>1, <2>2 DEF TurnOK, Rest, Writing
<1>8. \A x \in Exchanges : Point(x)'
  <2>1. TAKE x \in Exchanges
  <2>2. Point(x)
    BY DEF IInv
  <2>. QED  BY <1>1, <1>3, <1>4, <2>2 DEF Point, Fresh, Unsent, Evidence, durable, rows
<1>9. Offered'
  <2>1. \A x \in Exchanges : ~Dropping(x)' /\ ~Dropping(x)
    BY <1>2, <1>5 DEF Dropping, Rest, Writing, WriteAt
  <2>. QED  BY <1>1, <2>1 DEF Offered, IInv, boot, live, durable
<1>. QED  BY <1>6, <1>7, <1>8, <1>9 DEF IInv

LEMMA ReattemptStep ==
  ASSUME IInv, Stations, Reattempt
  PROVE  IInv'
<1>. DEFINE s == markDeliveryAttempted(row[turn.e])
<1>1. /\ Doing("reattempt") /\ Advance /\ Types /\ turn.e \in Exchanges /\ proc = "up"
      /\ Transit(turn.e, s, "retry_initiated")
      /\ UNCHANGED <<live, paneOf, followUpOf, approvalRow, history, boot>>
  BY Handled DEF Reattempt, IInv, Doing
<1>2. turn.lane = "retry" /\ turn.at = 2 /\ row[turn.e].state = "staged"
  BY <1>1, Places DEF Placed, Stations
<1>3. s \in Good /\ s.state = "staged"
  <2>1. row[turn.e] \in Good
    BY <1>1 DEF Types
  <2>. QED  BY <1>2, <2>1, GoodResults
<1>4. failedLast' = [failedLast EXCEPT ![turn.e] = FALSE]
  BY <1>1 DEF Transit
<1>. HIDE DEF s
<1>5. Moves
  BY <1>1, <1>3, TransitMoves DEF Types, live
<1>6. \/ turn' = Rest
      \/ /\ turn' \in Turns /\ turn'.at \in DOMAIN Lane[turn'.lane]
         /\ turn'.lane = turn.lane /\ turn'.at = turn.at + 1 /\ turn'.e = turn.e
  BY <1>1, Onward
<1>7. Types'
  BY <1>1, <1>2, <1>5, <1>6 DEF Types, Moves, Rest, live, history, boot
<1>8. TurnOK'
  <2>1. /\ paneOf[turn.e] # None /\ handed[turn.e] = 0 /\ approvalRow[turn.e] # "open"
    BY <1>2 DEF IInv, TurnOK, WriteAt, Writing
  <2>2. ~failedLast'[turn.e] /\ UNCHANGED <<paneOf, handed, approvalRow, proc>>
    BY <1>1, <1>4 DEF Types, history, boot
  <2>. QED  BY <1>1, <1>2, <1>6, <2>1, <2>2 DEF TurnOK, Rest, Writing, WriteAt
<1>9. \A x \in Exchanges : Point(x)'
  BY <1>1, <1>5, PointStep DEF history
<1>10. Offered'
  <2>1. \A x \in Exchanges : ~Dropping(x)' /\ ~Dropping(x)
    BY <1>2, <1>6 DEF Dropping, Rest
  <2>. QED  BY <1>1, <2>1 DEF Offered, IInv, boot, live
<1>. QED  BY <1>7, <1>8, <1>9, <1>10 DEF IInv

LEMMA InsertStep ==
  ASSUME IInv, Insert
  PROVE  IInv'
<1>1. /\ Doing("insert") /\ Advance /\ Types /\ turn.e \in Exchanges /\ proc = "up"
      /\ RowsBecome([row EXCEPT ![turn.e] = create])
      /\ paneOf' = [paneOf EXCEPT ![turn.e] = paneOf[turn.of]]
      /\ UNCHANGED <<live, failedLast, followUpOf, approvalRow, history, boot>>
  BY Handled DEF Insert, IInv, Doing
<1>2. /\ turn.lane = "followup" /\ turn.at = 1 /\ paneOf[turn.e] = None /\ turn.of \in Exchanges
  BY <1>1, Places DEF Placed, IInv, TurnOK, Types
<1>3. Moves
  BY <1>1, GoodResults, RowsMove DEF Moves, Types, live
<1>4. \/ turn' = Rest
      \/ /\ turn' \in Turns /\ turn'.at \in DOMAIN Lane[turn'.lane]
         /\ turn'.lane = turn.lane /\ turn'.at = turn.at + 1 /\ turn'.e = turn.e
         /\ turn'.of = turn.of
  BY <1>1, Onward
<1>5. paneOf' \in [Exchanges -> Panes \cup {None}]
      /\ \A x \in Exchanges : paneOf'[x] = None => paneOf[x] = None
  BY <1>1, <1>2 DEF Types
<1>6. Types'
  BY <1>1, <1>2, <1>3, <1>4, <1>5 DEF Types, Moves, Rest, live, history, boot
<1>7. TurnOK'
  BY <1>1, <1>2, <1>4 DEF TurnOK, Rest, Writing, boot
<1>8. \A x \in Exchanges : Point(x)'
  <2>1. TAKE x \in Exchanges
  <2>2. Point(x)
    BY DEF IInv
  <2>. QED  BY <1>1, <1>3, <1>5, <2>2 DEF Point, Fresh, Unsent, Evidence, Moves, history
<1>9. Offered'
  <2>1. \A x \in Exchanges : ~Dropping(x)' /\ ~Dropping(x)
    BY <1>2, <1>4 DEF Dropping, Rest
  <2>. QED  BY <1>1, <2>1 DEF Offered, IInv, boot, live
<1>. QED  BY <1>6, <1>7, <1>8, <1>9 DEF IInv

-----------------------------------------------------------------------------
(* Crash and boot.                                                         *)

LEMMA CrashStep ==
  ASSUME IInv, Crash
  PROVE  IInv'
<1>1. Moves
  <2>1. mem' \in [Exchanges -> Good]
    BY GoodResults DEF Crash
  <2>. QED  BY <2>1, StayMoves DEF IInv, Crash, durable
<1>2. Types'
  BY <1>1 DEF IInv, Crash, Types, Moves, Rest, durable, rows, history
<1>3. TurnOK' /\ Offered'
  BY DEF Crash, TurnOK, Offered, Rest, Writing
<1>4. \A x \in Exchanges : Point(x)'
  BY <1>1, PointStep DEF Crash, durable, history
<1>. QED  BY <1>2, <1>3, <1>4 DEF IInv

LEMMA RecoveryStep ==
  ASSUME IInv, Recovery
  PROVE  IInv'
<1>0. Types /\ TurnOK
  BY DEF IInv
<1>1. CASE Boot
  <2>1. /\ turn = Rest /\ UNCHANGED <<turn, live, durable, history>> /\ proc' = "boot"
        /\ toRecover' \subseteq Exchanges
    BY <1>0, <1>1 DEF Boot, TurnOK
  <2>2. Moves
    BY <1>0, <2>1, StayMoves DEF Types, live, durable
  <2>3. Types'
    BY <1>0, <2>1 DEF Types, live, durable, rows, history
  <2>4. TurnOK' /\ Offered'
    BY <2>1 DEF TurnOK, Offered, Rest, Writing
  <2>5. \A x \in Exchanges : Point(x)'
    BY <2>1, <2>2, PointStep DEF durable, history
  <2>. QED  BY <2>3, <2>4, <2>5 DEF IInv
<1>2. ASSUME NEW e \in Exchanges, RecoverRow(e)
      PROVE  IInv'
  <2>. DEFINE s == IF row[e].state = "awaiting_approval"
                   THEN Unbound(transition(row[e], "draft"))
                   ELSE transition(row[e], "interrupted")
  <2>1. /\ proc = "boot" /\ turn = Rest /\ toRecover' \subseteq Exchanges
        /\ \/ UNCHANGED <<rows, failedLast>>
           \/ ~Kept(e) /\ Transit(e, s, "exchange_recovered")
        /\ UNCHANGED <<proc, turn, crashes, live, paneOf, followUpOf, approvalRow, history>>
    BY <1>0, <1>2 DEF RecoverRow, TurnOK, Types
  <2>2. ~Kept(e) => s \in Good /\ s.state # "delivered"
    <3>1. CASE row[e].state = "awaiting_approval"
      <4>1. row[e] \in Good /\ row[e].state # "absent"
        BY <1>0, <3>1 DEF Types
      <4>. QED  BY <3>1, <4>1, GoodRevert
    <3>2. CASE row[e].state # "awaiting_approval" /\ ~Kept(e)
      <4>1. row[e].state \in InFlight
        BY <3>2 DEF Kept, recoveryDisposition
      <4>2. row[e] \in Good /\ row[e].state # "absent" /\ "interrupted" \in EXCHANGE_STATES
        BY <1>0, <4>1 DEF Types, InFlight, EXCHANGE_STATES
      <4>. QED  BY <3>2, <4>2, GoodResults
    <3>. QED  BY <3>1, <3>2
  <2>. HIDE DEF s
  <2>3. Moves
    <3>1. mem' \in [Exchanges -> Good]
      BY <1>0, <2>1 DEF Types, live
    <3>. QED  BY <1>0, <2>1, <2>2, <3>1, StayMoves, TransitMoves
  <2>4. OthersTyped
    BY <1>0, <2>1 DEF Types, OthersTyped, live
  <2>. QED  BY <2>1, <2>3, <2>4, Mild DEF live, history
<1>3. CASE BootDone
  <2>1. /\ turn = Rest /\ proc' = "up"
        /\ approval' = [e \in Exchanges |-> approvalRow[e] = "open"]
        /\ UNCHANGED <<turn, toRecover, mem, paneActive, lastCmd, term, durable, history>>
    BY <1>0, <1>3 DEF BootDone, TurnOK
  <2>2. Moves
    BY <1>0, <2>1, StayMoves DEF Types, durable
  <2>3. Types'
    BY <1>0, <2>1 DEF Types, durable, rows, history
  <2>4. TurnOK' /\ Offered'
    BY <2>1 DEF TurnOK, Offered, Dropping, Rest, Writing, durable
  <2>5. \A x \in Exchanges : Point(x)'
    BY <2>1, <2>2, PointStep DEF durable, history
  <2>. QED  BY <2>3, <2>4, <2>5 DEF IInv
<1>. QED  BY <1>1, <1>2, <1>3 DEF Recovery

\* Every step.
LEMMA InvStep ==
  ASSUME IInv, Stations, [Next]_vars
  PROVE  IInv'
<1>1. CASE Mints
  <2>1. PICK e \in Exchanges, p \in Panes :
          DispatchAuto(e, p) \/ DispatchHeld(e, p) \/ DispatchRefused(e, p) \/ WorkbenchSend(e, p)
    BY <1>1 DEF Mints
  <2>2. Mint(e, p) /\ \E l \in {"voice", "propose", "refuse", "workbench"} : Start(l, e)
    BY <2>1 DEF DispatchAuto, DispatchHeld, DispatchRefused, WorkbenchSend
  <2>. QED  BY <2>2, MintStep
<1>2. CASE Tasks
  BY <1>2, HoldStep, CallTasks, ClaimStep, DropStep, DrainStep, KickStep, WriteStep,
     WriteThrowsStep, CompleteStep, RecordStep, HopStep, RestageStep, ReattemptStep,
     RedeliveredStep, InsertStep, LinkStep DEF Tasks
<1>3. CASE Operator
  BY <1>3, OperatorStarts, CancelDurableStep DEF Operator
<1>4. CASE Pane
  BY <1>4, PaneStep DEF Pane
<1>5. CASE Crash
  BY <1>5, CrashStep
<1>6. CASE Recovery
  BY <1>6, RecoveryStep
<1>7. CASE UNCHANGED vars
  BY <1>7 DEF vars, boot, live, durable, rows, history, IInv, Types, TurnOK, Point, Fresh,
     Unsent, Evidence, Offered, Dropping
<1>. QED  BY <1>1, <1>2, <1>3, <1>4, <1>5, <1>6, <1>7 DEF Next

-----------------------------------------------------------------------------
(* How far a handler has come.                                             *)

LEMMA AtRest ==
  ASSUME turn' = Rest
  PROVE  Stations'
  BY DEF Stations, Rest

\* A task that is none of these leaves the stations of its exchange.
Milestone == {"stage", "attempt", "complete", "restage", "insert"}

LEMMA StationKept ==
  ASSUME IInv, Stations, NEW task, task \notin Milestone, Doing(task), Advance \/ turn' = Rest,
         turn.lane \notin {"reject", "deadpane", "complete", "needsInput"} =>
           \/ turn.lane = "approve" /\ task = "confirm"
           \/ turn.at = Len(Lane[turn.lane])
           \/ mem'[turn.e] = mem[turn.e]
           \/ turn.lane = "approve" /\ mem'[turn.e].state \notin {"staged", "delivered"},
         turn.lane = "retry" /\ turn.at # 5 => row'[turn.e].state = row[turn.e].state
  PROVE  Stations'
<1>1. CASE turn' = Rest
  BY <1>1, AtRest
<1>2. CASE turn' # Rest
  <2>1. /\ turn'.lane = turn.lane /\ turn'.e = turn.e /\ turn'.at = turn.at + 1
        /\ turn.at \in Nat /\ turn.at # 0 /\ turn.at # Len(Lane[turn.lane])
        /\ Placed(turn.lane, turn.at, task)
    BY <1>2, Onward, Places DEF IInv, Advance, Turns
  <2>. DEFINE l == turn.lane
              k == turn.at
              m == mem[turn.e]
              n == mem'[turn.e]
  <2>2. CASE l \in {"propose", "refuse"}
    BY <2>1, <2>2 DEF Stations
  <2>3. CASE l = "voice"
    <3>1. k # 3 /\ k # 4 /\ k # 5
      BY <2>1, <2>3 DEF Placed, Milestone
    <3>. QED  BY <2>1, <2>3, <3>1 DEF Stations
  <2>4. CASE l = "workbench"
    <3>1. k # 1 /\ k # 2 /\ k # 5
      BY <2>1, <2>4 DEF Placed, Milestone
    <3>. QED  BY <2>1, <2>4, <3>1 DEF Stations
  <2>5. CASE l = "approve"
    <3>1. k # 4 /\ k # 5 /\ k # 8 /\ (task = "confirm" => k = 3)
      BY <2>1, <2>5 DEF Placed, Milestone
    <3>. QED  BY <2>1, <2>5, <3>1 DEF Stations
  <2>6. CASE l = "retry"
    <3>1. k # 1
      BY <2>1, <2>6 DEF Placed, Milestone
    <3>2. Len(Lane["retry"]) = 5
      BY DEF Lane
    <3>. QED  BY <2>1, <2>6, <3>1, <3>2 DEF Stations
  <2>7. CASE l = "followup"
    <3>1. k # 1
      BY <2>1, <2>7 DEF Placed, Milestone
    <3>2. Len(Lane["followup"]) = 2 /\ turn.at \in 1..Len(Lane[turn.lane])
      BY Places DEF Lane, IInv
    <3>. QED  BY <2>1, <2>7, <3>1, <3>2
  <2>8. CASE l \notin {"propose", "refuse", "voice", "workbench", "approve", "retry", "followup"}
    BY <2>1, <2>8 DEF Stations
  <2>. QED  BY <2>2, <2>3, <2>4, <2>5, <2>6, <2>7, <2>8
<1>. QED  BY <1>1, <1>2

\* What the pane resumes is never the exchange a two-phase lane is about to write.
LEMMA KickStations ==
  ASSUME IInv, Stations, Kick
  PROVE  Stations'
<1>. DEFINE prior == paneActive[paneOf[turn.e]]
<1>1. Doing("kick") /\ Advance /\ Types /\ turn.e \in Exchanges
  BY Handled DEF Kick, IInv
<1>2. /\ \/ turn.lane = "voice" /\ turn.at = 1
         \/ turn.lane = "workbench" /\ turn.at = 3
         \/ turn.lane = "approve" /\ turn.at = 6
         \/ turn.lane = "retry" /\ turn.at = 3
  BY <1>1, Places DEF Placed
<1>3. CASE UNCHANGED <<mem, rows, failedLast>>
  BY <1>1, <1>3, StationKept DEF Milestone, rows
<1>4. CASE /\ prior # None /\ transitionOk(mem[prior], "running")
           /\ Mirror(prior, transition(mem[prior], "running"), "terminal_running")
  <2>1. prior \in Exchanges
    <3>1. paneOf[turn.e] \in Panes
      BY <1>2, OnPane DEF Writing
    <3>. QED  BY <1>1, <1>4, <3>1 DEF Types
  <2>2. mem[prior].state \in {"delivered", "needs_input", "terminal_idle"}
    BY <1>4, Sources DEF transitionOk
  <2>3. turn.lane # "approve" => prior # turn.e
    BY <1>2, <2>2 DEF Stations
  <2>4. mem' = [mem EXCEPT ![prior] = transition(mem[prior], "running")]
    BY <1>4 DEF Mirror
  <2>5. transition(mem[prior], "running").state = "running"
    BY <1>1, <1>4, <2>1, MachineMoves
  <2>6. \/ mem'[turn.e] = mem[turn.e]
        \/ turn.lane = "approve" /\ mem'[turn.e].state \notin {"staged", "delivered"}
    BY <1>1, <2>1, <2>3, <2>4, <2>5 DEF Types
  <2>7. turn.lane = "retry" => row'[turn.e].state = row[turn.e].state
    BY <1>1, <1>4, <2>1, <2>3 DEF Mirror, Persist, Persisted, RowsBecome, Types
  <2>. QED  BY <1>1, <2>6, <2>7, StationKept DEF Milestone
<1>. QED  BY <1>3, <1>4 DEF Kick, Resumes

LEMMA StationStays ==
  ASSUME IInv, Stations, NEW task, task \notin Milestone, Doing(task), Advance, UNCHANGED <<mem, row>>
  PROVE  Stations'
  BY StationKept

LEMMA LaneEnds ==
  /\ Len(Lane["propose"]) = 2 /\ Len(Lane["refuse"]) = 1
  /\ Len(Lane["voice"]) = 6 /\ Len(Lane["workbench"]) = 6 /\ Len(Lane["approve"]) = 9
  /\ Len(Lane["retry"]) = 5 /\ Len(Lane["followup"]) = 2
<1>1. Lane.approve = Approving
  BY ApproveLane DEF Lane
<1>. QED  BY <1>1 DEF Lane, TwoPhase, Approving

LEMMA StageStations ==
  ASSUME IInv, Stations, Stage
  PROVE  Stations'
<1>1. Doing("stage") /\ Advance /\ Types /\ turn.e \in Exchanges
  BY Handled DEF Stage, IInv
<1>2. /\ \/ turn.lane = "voice" /\ turn.at = 3
         \/ turn.lane = "workbench" /\ turn.at = 1
         \/ turn.lane = "approve" /\ turn.at = 4
  BY <1>1, Places DEF Placed
<1>3. turn.lane # "approve" => mem'[turn.e].state = "staged"
  <2>1. SUFFICES ASSUME turn.lane # "approve"
                 PROVE  mem'[turn.e].state = "staged"
    OBVIOUS
  <2>2. transitionOk(mem[turn.e], "staged")
    BY <1>2, <2>1, Sources DEF Stations, transitionOk
  <2>3. mem' = [mem EXCEPT ![turn.e] = transition(mem[turn.e], "staged")]
    BY <2>2 DEF Stage, Call, Mirror, stageAutoExecuteOk, stageAutoExecute
  <2>. QED  BY <1>1, <2>2, <2>3, MachineMoves DEF Types
<1>4. \/ turn' = Rest
      \/ turn'.lane = turn.lane /\ turn'.at = turn.at + 1 /\ turn'.e = turn.e
  BY <1>1, Onward
<1>. QED  BY <1>2, <1>3, <1>4, AtRest DEF Stations

LEMMA AttemptStations ==
  ASSUME IInv, Stations, Attempt
  PROVE  Stations'
<1>1. Doing("attempt") /\ Advance /\ Types /\ turn.e \in Exchanges
  BY Handled DEF Attempt, IInv
<1>2. /\ \/ turn.lane = "voice" /\ turn.at = 4
         \/ turn.lane = "workbench" /\ turn.at = 2
         \/ turn.lane = "approve" /\ turn.at = 5
  BY <1>1, Places DEF Placed
<1>3. mem[turn.e].state = "staged" => mem'[turn.e].state = "staged" /\ mem'[turn.e].attempt > 0
  <2>1. SUFFICES ASSUME mem[turn.e].state = "staged"
                 PROVE  mem'[turn.e].state = "staged" /\ mem'[turn.e].attempt > 0
    OBVIOUS
  <2>2. mem' = [mem EXCEPT ![turn.e] = markDeliveryAttempted(mem[turn.e])]
    BY <2>1 DEF Attempt, Call, Mirror, markDeliveryAttemptedOk
  <2>3. mem[turn.e] \in Snapshot
    BY <1>1 DEF Types, Good
  <2>. QED  BY <1>1, <2>1, <2>2, <2>3, Results DEF Types
<1>4. mem[turn.e].state # "staged" => mem'[turn.e] = mem[turn.e]
  BY DEF Attempt, Call, markDeliveryAttemptedOk
<1>5. \/ turn' = Rest
      \/ turn'.lane = turn.lane /\ turn'.at = turn.at + 1 /\ turn'.e = turn.e
  BY <1>1, Onward
<1>. QED  BY <1>2, <1>3, <1>4, <1>5, AtRest DEF Stations

LEMMA CompleteStations ==
  ASSUME IInv, Stations, Complete
  PROVE  Stations'
<1>1. Doing("complete") /\ Types /\ turn.e \in Exchanges
  BY Handled DEF Complete, IInv
<1>2. CASE turn' = Rest
  BY <1>2, AtRest
<1>3. CASE turn' # Rest
  <2>1. /\ Advance /\ markDeliveredOk(mem[turn.e]) /\ mem'[turn.e] = markDelivered(mem[turn.e])
    BY <1>1, <1>3 DEF Complete
  <2>2. \/ turn.lane = "voice" /\ turn.at = 5
        \/ turn.lane = "workbench" /\ turn.at = 5
        \/ turn.lane = "approve" /\ turn.at = 8
    BY <1>1, Places DEF Placed
  <2>3. mem'[turn.e].state = "delivered" /\ mem'[turn.e].attempt > 0
    <3>1. mem[turn.e] \in Snapshot /\ "delivered" \in EXCHANGE_STATES /\ mem[turn.e].attempt >= 1
      BY <1>1, <2>1 DEF Types, Good, EXCHANGE_STATES, markDeliveredOk
    <3>2. mem[turn.e].attempt \in Nat
      BY <3>1 DEF Snapshot
    <3>3. mem'[turn.e] = transition(mem[turn.e], "delivered")
      BY <2>1 DEF markDelivered
    <3>4. /\ transition(mem[turn.e], "delivered").state = "delivered"
          /\ transition(mem[turn.e], "delivered").attempt = mem[turn.e].attempt
      BY <3>1, Results
    <3>. QED  BY <3>1, <3>2, <3>3, <3>4
  <2>4. turn'.lane = turn.lane /\ turn'.at = turn.at + 1 /\ turn'.e = turn.e
    BY <1>1, <1>3, <2>1, Onward
  <2>5. mem'[turn'.e].state = "delivered" /\ mem'[turn'.e].attempt > 0
    BY <2>3, <2>4
  <2>6. \/ turn'.lane = "voice" /\ turn'.at = 6
        \/ turn'.lane = "workbench" /\ turn'.at = 6
        \/ turn'.lane = "approve" /\ turn'.at = 9
    BY <2>2, <2>4
  <2>. QED  BY <2>5, <2>6 DEF Stations
<1>. QED  BY <1>2, <1>3

LEMMA RestageStations ==
  ASSUME IInv, Stations, Restage
  PROVE  Stations'
<1>1. Doing("restage") /\ Advance /\ Types /\ turn.e \in Exchanges
  BY Handled DEF Restage, IInv
<1>2. turn.lane = "retry" /\ turn.at = 1
  BY <1>1, Places DEF Placed
<1>3. /\ mem' = [mem EXCEPT ![turn.e] = stageAutoExecute(row[turn.e])]
      /\ row' = [row EXCEPT ![turn.e] = stageAutoExecute(row[turn.e])]
  BY DEF Restage, RowsBecome, Adopted
<1>4. stageAutoExecute(row[turn.e]).state = "staged"
  <2>1. row[turn.e] \in Good /\ row[turn.e].state # "absent" /\ "staged" \in EXCHANGE_STATES
    BY <1>1, <1>2 DEF Types, Stations, EXCHANGE_STATES
  <2>. QED  BY <2>1, GoodResults DEF stageAutoExecute
<1>5. mem'[turn.e].state = "staged" /\ row'[turn.e].state = "staged"
  BY <1>1, <1>3, <1>4 DEF Types
<1>6. \/ turn' = Rest
      \/ turn'.lane = turn.lane /\ turn'.at = turn.at + 1 /\ turn'.e = turn.e
  BY <1>1, Onward
<1>. QED  BY <1>2, <1>5, <1>6, AtRest DEF Stations

LEMMA InsertStations ==
  ASSUME IInv, Stations, Insert
  PROVE  Stations'
<1>1. /\ Doing("insert") /\ Advance /\ Types /\ turn.e \in Exchanges
      /\ row' = [row EXCEPT ![turn.e] = create] /\ UNCHANGED mem
  BY Handled DEF Insert, IInv, RowsBecome, live
<1>2. turn.lane = "followup" /\ turn.at = 1
  BY <1>1, Places DEF Placed
<1>3. row'[turn.e].state = "draft"
  BY <1>1, GoodResults DEF Types
<1>4. \/ turn' = Rest
      \/ turn'.lane = turn.lane /\ turn'.at = turn.at + 1 /\ turn'.e = turn.e
  BY <1>1, Onward
<1>. QED  BY <1>1, <1>2, <1>3, <1>4, AtRest DEF Stations

LEMMA TaskStations ==
  ASSUME IInv, Stations, Tasks
  PROVE  Stations'
<1>1. CASE Hold \/ Claim \/ Drop \/ Write \/ Link
  <2>1. PICK task \in {"hold", "claim", "drop", "write", "link"} :
          Doing(task) /\ Advance /\ UNCHANGED <<mem, row>>
    BY <1>1 DEF Hold, Claim, Drop, Write, Link, rows, live, durable
  <2>. QED  BY <2>1, StationStays DEF Milestone
<1>2. CASE DrainOne
  <2>1. turn.lane = "drain" /\ Doing("drain")
    BY <1>2, Places DEF DrainOne, Placed, IInv
  <2>2. turn'.lane = "drain" \/ turn' = Rest
    <3>1. Advance \/ UNCHANGED turn
      BY <1>2 DEF DrainOne
    <3>. QED  BY <2>1, <3>1, Onward DEF IInv
  <2>. QED  BY <2>2, AtRest DEF Stations
<1>3. CASE Request
  <2>1. Doing("request") /\ Advance /\ turn.lane = "propose" /\ turn.at = 2
    BY <1>3, Places DEF Request, Placed, IInv
  <2>. QED  BY <2>1, LaneEnds, StationKept DEF Milestone
<1>4. CASE Confirm
  <2>1. Doing("confirm") /\ Advance /\ turn.lane = "approve"
    BY <1>4, Places DEF Confirm, Placed, IInv
  <2>. QED  BY <2>1, StationKept DEF Milestone
<1>5. CASE Cancel
  <2>1. /\ Doing("cancel") /\ Advance
        /\ turn.lane \in {"reject", "deadpane"} \/ (turn.lane = "refuse" /\ turn.at = 1)
    BY <1>5, Places DEF Cancel, Placed, IInv
  <2>. QED  BY <2>1, LaneEnds, StationKept DEF Milestone
<1>6. CASE Stage
  BY <1>6, StageStations
<1>7. CASE Attempt
  BY <1>7, AttemptStations
<1>8. CASE Kick
  BY <1>8, KickStations
<1>9. CASE WriteThrows
  BY <1>9, AtRest DEF WriteThrows
<1>10. CASE Complete
  BY <1>10, CompleteStations
<1>11. CASE Record
  <2>1. /\ Doing("record") /\ Advance
        /\ turn.at = Len(Lane[turn.lane]) /\ turn.lane # "retry"
    BY <1>11, Places, LaneEnds DEF Record, Placed, IInv
  <2>. QED  BY <2>1, StationKept DEF Milestone
<1>12. CASE SettleReport
  <2>1. PICK task \in {"idled", "finish", "resumed", "ask"} :
          Doing(task) /\ (Advance \/ turn' = Rest)
    BY <1>12 DEF SettleReport, Hop
  <2>2. turn.lane \in {"complete", "needsInput"}
    BY <2>1, Places DEF Placed, IInv
  <2>. QED  BY <2>1, <2>2, StationKept DEF Milestone
<1>13. CASE Restage
  BY <1>13, RestageStations
<1>14. CASE Reattempt
  <2>1. Doing("reattempt") /\ Advance /\ UNCHANGED mem /\ turn.e \in Exchanges
    BY <1>14, Handled DEF Reattempt, live
  <2>2. turn.lane = "retry" /\ turn.at = 2
    BY <2>1, Places DEF Placed, IInv
  <2>3. row'[turn.e].state = row[turn.e].state
    <3>1. row[turn.e] \in Snapshot
      BY <2>1, Handled DEF Good
    <3>2. row' = [row EXCEPT ![turn.e] = markDeliveryAttempted(row[turn.e])]
      BY <1>14 DEF Reattempt, Transit, RowsBecome
    <3>. QED  BY <2>1, <3>1, <3>2, Results DEF IInv, Types
  <2>. QED  BY <2>1, <2>2, <2>3, StationKept DEF Milestone
<1>15. CASE Redelivered
  <2>1. /\ Doing("redelivered") /\ Advance
        /\ turn.lane = "retry" /\ turn.at = 5
    BY <1>15, Places DEF Redelivered, Placed, IInv
  <2>. QED  BY <2>1, LaneEnds, StationKept DEF Milestone
<1>16. CASE Insert
  BY <1>16, InsertStations
<1>. QED
  BY <1>1, <1>2, <1>3, <1>4, <1>5, <1>6, <1>7, <1>8, <1>9, <1>10, <1>11, <1>12, <1>13, <1>14,
     <1>15, <1>16 DEF Tasks

\* Between handlers: at rest, or at the first task of one that starts.
LEMMA StationStep ==
  ASSUME IInv, Stations, [Next]_vars
  PROVE  Stations'
<1>1. CASE Mints
  <2>1. PICK e \in Exchanges, p \in Panes :
          /\ Mint(e, p) /\ \E l \in {"voice", "propose", "refuse", "workbench"} : Start(l, e)
    BY <1>1 DEF Mints, DispatchAuto, DispatchHeld, DispatchRefused, WorkbenchSend
  <2>2. mem'[e].state = "draft"
    BY <2>1, GoodResults DEF Mint, IInv, Types
  <2>3. turn'.e = e /\ turn'.at = 1 /\ turn'.lane \in {"voice", "propose", "refuse", "workbench"}
    BY <2>1 DEF Start
  <2>. QED  BY <2>2, <2>3 DEF Stations
<1>2. CASE Tasks
  BY <1>2, TaskStations
<1>3. CASE Operator
  <2>1. PICK e \in Exchanges, f \in Exchanges :
          \/ Approve(e) \/ Reject(e) \/ Drain(e) \/ Retry(e) \/ CancelDurable(e)
          \/ FollowUp(e, f)
    BY <1>3 DEF Operator
  <2>2. CASE Approve(e) \/ Reject(e) \/ Drain(e)
    <3>1. turn'.lane \in {"approve", "deadpane", "reject", "drain"} /\ turn'.at = 1
      BY <2>2 DEF Approve, Reject, Drain, Start
    <3>. QED  BY <3>1 DEF Stations
  <2>3. CASE Retry(e)
    <3>1. turn'.lane = "retry" /\ turn'.at = 1 /\ turn'.e = e /\ row'[e].state = "draft"
      BY <2>3 DEF Retry, Start, RetryEligible, durable, rows
    <3>. QED  BY <3>1 DEF Stations
  <2>4. CASE CancelDurable(e)
    BY <2>4, AtRest DEF CancelDurable, Idle
  <2>5. CASE FollowUp(e, f)
    <3>1. /\ turn'.lane = "followup" /\ turn'.at = 1 /\ turn'.e = f
          /\ row'[f].state = "absent" /\ mem'[f].state = "absent"
      BY <2>5 DEF FollowUp, FollowUpUnchecked, durable, rows, live
    <3>. QED  BY <3>1 DEF Stations
  <2>. QED  BY <2>1, <2>2, <2>3, <2>4, <2>5
<1>4. CASE Pane
  <2>1. turn' = Rest \/ (turn'.lane \in {"complete", "needsInput"})
    BY <1>4 DEF Pane, PaneSignal, Report, LegacyReport, ManualCommand, WriteAround, PaneStarts, PaneExits,
            Idle, Start
  <2>. QED  BY <2>1, AtRest DEF Stations
<1>5. CASE Crash
  BY <1>5, AtRest DEF Crash
<1>6. CASE Recovery
  <2>1. turn' = Rest
    BY <1>6 DEF Recovery, Boot, RecoverRow, BootDone, IInv, TurnOK
  <2>. QED  BY <2>1, AtRest
<1>7. CASE UNCHANGED vars
  BY <1>7 DEF vars, live, durable, rows, Stations
<1>. QED  BY <1>1, <1>2, <1>3, <1>4, <1>5, <1>6, <1>7 DEF Next

-----------------------------------------------------------------------------
(* Results.                                                                *)

Inv == IInv /\ Stations

LEMMA InitInv ==
  ASSUME Init
  PROVE  Inv
<1>1. Absent \in Good
  BY GoodResults
<1>2. Types
  BY <1>1 DEF Init, Types, Rest, Bindings
<1>3. TurnOK /\ Offered /\ Stations
  BY DEF Init, TurnOK, Offered, Dropping, Stations, Rest, Writing
<1>4. \A x \in Exchanges : Point(x)
  BY DEF Init, Point, Fresh, Unsent, Evidence, Absent
<1>. QED  BY <1>2, <1>3, <1>4 DEF Inv, IInv

THEOREM Invariance == Spec => []Inv
<1>1. Init => Inv
  BY InitInv
<1>2. Inv /\ [Next]_vars => Inv'
  BY InvStep, StationStep DEF Inv
<1>. QED  BY <1>1, <1>2, PTL DEF Spec

\* Every variable keeps to its values, at every bound.
THEOREM TypeCorrect == Spec => []TypeOK
<1>1. Inv => TypeOK
  BY DEF Inv, IInv, Types, TypeOK, Good, Coupled
<1>. QED  BY <1>1, Invariance, PTL

\* No text is typed twice, over any number of crashes, retries and lost store writes.
THEOREM TypedOnceEver == Spec => []TypedAtMostOnce
<1>1. Inv => TypedAtMostOnce
  BY DEF Inv, IInv, Types, TypedAtMostOnce
<1>. QED  BY <1>1, Invariance, PTL

\* A row is called delivered only of a text that a terminal took.
THEOREM EvidenceIsReal == Spec => []EvidenceNeedsWrite
<1>1. Inv => EvidenceNeedsWrite
  BY DEF Inv, IInv, Types, Point, Evidence, EvidenceNeedsWrite
<1>. QED  BY <1>1, Invariance, PTL

\* What can still be answered is in memory and in the store alike.
THEOREM ApprovalsInBoth == Spec => []ApprovalsSurvive
<1>1. Inv => ApprovalsSurvive
  BY DEF Inv, IInv, Offered, Dropping, Idle, Rest, ApprovalsSurvive
<1>. QED  BY <1>1, Invariance, PTL

-----------------------------------------------------------------------------
(* Rows move legally.                                                      *)

\* One row's step.
Moved(from, to) ==
  to = from \/ (from = "absent" /\ to = "draft") \/ isLegalTransition(from, to)

LegalRows == \A x \in Exchanges : Moved(row[x].state, row'[x].state)

LEMMA RowStays ==
  ASSUME UNCHANGED row
  PROVE  LegalRows
  BY DEF LegalRows, Moved

\* A mirrored move is refused unless the row is where the machine was.
LEMMA PersistLegal ==
  ASSUME Types, NEW e \in Exchanges, NEW from, NEW s, NEW event, Persist(e, from, s, event),
         Moved(from, s.state)
  PROVE  LegalRows
<1>1. row' = row \/ (row[e].state = from /\ row' = [row EXCEPT ![e] = s])
  BY DEF Persist, Persisted, RowsBecome
<1>. QED  BY <1>1 DEF LegalRows, Moved, Types

LEMMA TransitLegal ==
  ASSUME Types, NEW e \in Exchanges, NEW s, RowsBecome([row EXCEPT ![e] = s]),
         Moved(row[e].state, s.state)
  PROVE  LegalRows
  BY DEF RowsBecome, LegalRows, Moved, Types

LEMMA MirrorLegal ==
  ASSUME Types, NEW e \in Exchanges, NEW s, NEW event, Mirror(e, s, event),
         Moved(mem[e].state, s.state)
  PROVE  LegalRows
<1>1. Persist(e, mem[e].state, s, event)
  BY DEF Mirror
<1>. QED  BY <1>1, PersistLegal

LEMMA CallLegal ==
  ASSUME Types, NEW e \in Exchanges, NEW ok, NEW s, NEW event, Call(e, ok, s, event),
         ok => Moved(mem[e].state, s.state)
  PROVE  LegalRows
<1>1. CASE ok /\ Mirror(e, s, event)
  BY <1>1, MirrorLegal
<1>2. CASE UNCHANGED <<mem, rows, failedLast>>
  BY <1>2, RowStays DEF rows
<1>. QED  BY <1>1, <1>2 DEF Call

\* Each accepted move of the machine is a legal one.
LEMMA MachineLegal ==
  ASSUME Types, NEW e \in Exchanges, NEW to, transitionOk(mem[e], to)
  PROVE  Moved(mem[e].state, transition(mem[e], to).state)
  BY MachineMoves DEF Moved, transitionOk

LEMMA ResumesLegal ==
  ASSUME Types, NEW p \in Panes, Resumes(p)
  PROVE  LegalRows
<1>1. CASE UNCHANGED <<mem, rows, failedLast>>
  BY <1>1, RowStays DEF rows
<1>2. CASE /\ paneActive[p] # None /\ transitionOk(mem[paneActive[p]], "running")
           /\ Mirror(paneActive[p], transition(mem[paneActive[p]], "running"), "terminal_running")
  <2>1. paneActive[p] \in Exchanges
    BY <1>2 DEF Types
  <2>. QED  BY <1>2, <2>1, MachineLegal, MirrorLegal
<1>. QED  BY <1>1, <1>2 DEF Resumes

LEMMA CallTasksLegal ==
  ASSUME Inv, Request \/ Confirm \/ Cancel \/ Stage \/ Attempt
  PROVE  LegalRows
<1>0. Types /\ turn.e \in Exchanges /\ mem[turn.e] \in Good
  BY Handled DEF Inv, IInv, Request, Confirm, Cancel, Stage, Attempt
<1>1. CASE Request
  <2>1. requestApprovalOk(mem[turn.e]) =>
          Moved(mem[turn.e].state, requestApproval(mem[turn.e], turn.e).state)
    <3>1. mem[turn.e] \in Snapshot /\ turn.e \in ApprovalIds
      BY <1>0, SpineAssumption DEF Good
    <3>. QED  BY <3>1, Results DEF requestApprovalOk, transitionOk, Moved
  <2>. QED  BY <1>0, <1>1, <2>1, CallLegal DEF Request
<1>2. CASE Confirm
  <2>1. confirmApprovalOk(mem[turn.e], turn.e, mem[turn.e].approvalVersion) =>
          Moved(mem[turn.e].state, confirmApproval(mem[turn.e]).state)
    <3>1. isLegalTransition("awaiting_approval", "staged")
      BY Sources
    <3>2. mem[turn.e] \in Snapshot /\ "staged" \in EXCHANGE_STATES
      BY <1>0 DEF Good, EXCHANGE_STATES
    <3>. QED  BY <3>1, <3>2, Results DEF confirmApprovalOk, confirmApproval, Moved
  <2>. QED  BY <1>0, <1>2, <2>1, CallLegal DEF Confirm
<1>3. CASE Cancel
  BY <1>0, <1>3, MachineLegal, CallLegal DEF Cancel
<1>4. CASE Stage
  BY <1>0, <1>4, MachineLegal, CallLegal DEF Stage, stageAutoExecuteOk, stageAutoExecute
<1>5. CASE Attempt
  <2>1. Moved(mem[turn.e].state, markDeliveryAttempted(mem[turn.e]).state)
    BY <1>0, Results DEF Moved, Good
  <2>. QED  BY <1>0, <1>5, <2>1, CallLegal DEF Attempt
<1>. QED  BY <1>1, <1>2, <1>3, <1>4, <1>5

\* The write's failure puts a staged exchange back into its draft.
LEMMA WriteThrowsLegal ==
  ASSUME Inv, WriteThrows
  PROVE  LegalRows
<1>0. Types /\ Doing("write") /\ turn.e \in Exchanges
  BY Handled DEF Inv, IInv, WriteThrows
<1>1. CASE turn.lane = "workbench"
  <2>1. markDeliveryFailedOk(mem[turn.e]) =>
          Moved(mem[turn.e].state, markDeliveryFailed(mem[turn.e]).state)
    BY <1>0, Results DEF Types, Good, markDeliveryFailedOk, transitionOk, Moved
  <2>2. Call(turn.e, markDeliveryFailedOk(mem[turn.e]), markDeliveryFailed(mem[turn.e]),
             "delivery_failed")
    BY <1>1 DEF WriteThrows
  <2>. QED  BY <1>0, <2>1, <2>2, CallLegal
<1>2. CASE turn.lane = "retry"
  <2>1. row[turn.e].state = "staged" /\ row[turn.e] \in Snapshot
    <3>1. turn.at = 4
      BY <1>0, <1>2, Places DEF Placed
    <3>. QED  BY <1>0, <1>2, <3>1 DEF Inv, Stations, Types, Good
  <2>2. isLegalTransition("staged", "draft")
    BY Sources
  <2>3. Moved(row[turn.e].state, markDeliveryFailed(row[turn.e]).state)
    BY <2>1, <2>2, Results DEF Moved
  <2>4. RowsBecome([row EXCEPT ![turn.e] = markDeliveryFailed(row[turn.e])])
    BY <1>2 DEF WriteThrows, Transit
  <2>. QED  BY <1>0, <2>3, <2>4, TransitLegal
<1>3. CASE turn.lane \notin {"workbench", "retry"}
  BY <1>3, RowStays DEF WriteThrows, rows
<1>. QED  BY <1>1, <1>2, <1>3

LEMMA RetryLegal ==
  ASSUME Inv, Restage \/ Reattempt \/ Redelivered
  PROVE  LegalRows
<1>0. Types /\ turn.e \in Exchanges /\ row[turn.e] \in Snapshot
  BY Handled DEF Inv, IInv, Restage, Reattempt, Redelivered, Good
<1>1. {"staged", "delivered"} \subseteq EXCHANGE_STATES
  BY DEF EXCHANGE_STATES
<1>2. isLegalTransition("draft", "staged") /\ isLegalTransition("staged", "delivered")
  BY Sources
<1>3. CASE Restage
  <2>1. row[turn.e].state = "draft"
    BY <1>0, <1>3, Places DEF Restage, Placed, Inv, Stations
  <2>. QED  BY <1>0, <1>1, <1>2, <1>3, <2>1, Results, TransitLegal
       DEF Restage, stageAutoExecute, Moved
<1>4. CASE Reattempt
  <2>1. RowsBecome([row EXCEPT ![turn.e] = markDeliveryAttempted(row[turn.e])])
    BY <1>4 DEF Reattempt, Transit
  <2>2. Moved(row[turn.e].state, markDeliveryAttempted(row[turn.e]).state)
    BY <1>0, Results DEF Moved
  <2>. QED  BY <1>0, <2>1, <2>2, TransitLegal
<1>5. CASE Redelivered
  <2>1. row[turn.e].state = "staged"
    BY <1>0, <1>5, Places DEF Redelivered, Placed, Inv, Stations
  <2>2. RowsBecome([row EXCEPT ![turn.e] = markDelivered(row[turn.e])])
    BY <1>5 DEF Redelivered, Transit
  <2>3. Moved(row[turn.e].state, markDelivered(row[turn.e]).state)
    BY <1>0, <1>1, <1>2, <2>1, Results DEF markDelivered, Moved
  <2>. QED  BY <1>0, <2>2, <2>3, TransitLegal
<1>. QED  BY <1>3, <1>4, <1>5

LEMMA CompleteLegal ==
  ASSUME Inv, Complete
  PROVE  LegalRows
<1>. DEFINE p == paneOf[turn.e]
            prior == Superseded(turn.e, p)
<1>0. Types /\ turn.e \in Exchanges /\ p \in Panes
  <2>1. turn.lane \in Writing
    BY Places DEF Complete, Placed, Writing, Inv, IInv
  <2>. QED  BY <2>1, OnPane DEF Inv, IInv
<1>1. CASE UNCHANGED <<rows, failedLast>>
  BY <1>1, RowStays DEF rows
<1>2. ASSUME NEW x \in prior,
             Persist(x, mem[x].state, transition(mem[x], "interrupted"), "exchange_recovered")
      PROVE  LegalRows
  <2>1. x \in Exchanges /\ transitionOk(mem[x], "interrupted")
    BY <1>0, <1>2 DEF Superseded, Types
  <2>. QED  BY <1>0, <1>2, <2>1, MachineLegal, PersistLegal
<1>. QED  BY <1>1, <1>2 DEF Complete

LEMMA RecordLegal ==
  ASSUME Inv, Record
  PROVE  LegalRows
<1>0. /\ Types /\ turn.e \in Exchanges /\ Doing("record")
      /\ Persist(turn.e, "staged", mem[turn.e], "delivery_succeeded")
  BY Handled DEF Inv, IInv, Record
<1>1. mem[turn.e].state = "delivered"
  BY <1>0, Places DEF Placed, Inv, Stations
<1>2. Moved("staged", mem[turn.e].state)
  BY <1>1, Sources DEF Moved
<1>. QED  BY <1>0, <1>2, PersistLegal

LEMMA HopLegal ==
  ASSUME Inv, SettleReport
  PROVE  LegalRows
<1>1. ASSUME NEW task, NEW needed, NEW to, NEW event, Hop(task, needed, to, event)
      PROVE  LegalRows
  <2>1. Types /\ turn.e \in Exchanges
    BY <1>1, Handled DEF Hop, Inv, IInv
  <2>2. CASE UNCHANGED <<mem, rows, failedLast>>
    BY <2>2, RowStays DEF rows
  <2>3. CASE /\ transitionOk(mem[turn.e], to)
             /\ Mirror(turn.e, transition(mem[turn.e], to), event)
    BY <2>1, <2>3, MachineLegal, MirrorLegal
  <2>. QED  BY <1>1, <2>2, <2>3 DEF Hop
<1>. QED  BY <1>1 DEF SettleReport

LEMMA TasksLegal ==
  ASSUME Inv, Tasks
  PROVE  LegalRows
<1>1. CASE Hold \/ Claim \/ Drop \/ DrainOne \/ Write \/ Link
  BY <1>1, RowStays DEF Hold, Claim, Drop, DrainOne, Write, Link, live, durable, rows
<1>2. CASE Kick
  <2>1. paneOf[turn.e] \in Panes
    <3>1. turn.lane \in Writing
      BY <1>2, Places DEF Kick, Placed, Writing, Inv, IInv
    <3>. QED  BY <3>1, OnPane DEF Inv
  <2>. QED  BY <1>2, <2>1, ResumesLegal DEF Kick, Inv, IInv
<1>3. CASE Insert
  <2>1. /\ Types /\ turn.e \in Exchanges /\ row[turn.e].state = "absent"
        /\ RowsBecome([row EXCEPT ![turn.e] = create])
    BY <1>3, Handled, Places DEF Insert, Placed, Inv, IInv, Stations
  <2>. QED  BY <2>1, GoodResults, TransitLegal DEF Moved
<1>. QED
  BY <1>1, <1>2, <1>3, CallTasksLegal, WriteThrowsLegal, RetryLegal, CompleteLegal,
     RecordLegal, HopLegal DEF Tasks

LEMMA RecoverLegal ==
  ASSUME Inv, NEW e \in Exchanges, RecoverRow(e)
  PROVE  LegalRows
<1>0. Types /\ row[e] \in Snapshot
  BY DEF Inv, IInv, Types, Good
<1>1. CASE UNCHANGED <<rows, failedLast>>
  BY <1>1, RowStays DEF rows
<1>2. CASE /\ row[e].state = "awaiting_approval"
           /\ RowsBecome([row EXCEPT ![e] = Unbound(transition(row[e], "draft"))])
  <2>1. Moved(row[e].state, Unbound(transition(row[e], "draft")).state)
    <3>1. row[e] \in Good /\ isLegalTransition("awaiting_approval", "draft")
      BY Sources DEF Inv, IInv, Types
    <3>. QED  BY <1>2, <3>1, GoodRevert DEF Moved
  <2>. QED  BY <1>0, <1>2, <2>1, TransitLegal
<1>3. CASE /\ row[e].state \in InFlight
           /\ RowsBecome([row EXCEPT ![e] = transition(row[e], "interrupted")])
  <2>1. Moved(row[e].state, transition(row[e], "interrupted").state)
    <3>1. "interrupted" \in EXCHANGE_STATES
      BY DEF EXCHANGE_STATES
    <3>. QED  BY <1>0, <1>3, <3>1, Results, Sources DEF Moved
  <2>. QED  BY <1>0, <1>3, <2>1, TransitLegal
<1>. QED  BY <1>1, <1>2, <1>3 DEF RecoverRow, Transit, Kept, recoveryDisposition

\* Every step moves every row along the legal relation.
LEMMA StepLegal ==
  ASSUME Inv, [Next]_vars
  PROVE  LegalRows
<1>0. Types
  BY DEF Inv, IInv
<1>1. CASE Mints
  <2>1. PICK e \in Exchanges : Persist(e, "absent", create, "exchange_created")
    BY <1>1 DEF Mints, DispatchAuto, DispatchHeld, DispatchRefused, WorkbenchSend, Mint
  <2>. QED  BY <1>0, <2>1, GoodResults, PersistLegal DEF Moved
<1>2. CASE Tasks
  BY <1>2, TasksLegal
<1>3. CASE Operator
  <2>1. PICK e \in Exchanges, f \in Exchanges :
          \/ Approve(e) \/ Reject(e) \/ Drain(e) \/ Retry(e) \/ FollowUp(e, f)
          \/ CancelDurable(e)
    BY <1>3 DEF Operator
  <2>2. CASE CancelDurable(e)
    <3>1. /\ isLegalTransition(row[e].state, "cancelled")
          /\ RowsBecome([row EXCEPT ![e] = transition(row[e], "cancelled")])
      BY <2>2, Sources DEF CancelDurable, Transit
    <3>2. transition(row[e], "cancelled").state = "cancelled"
      <4>1. row[e] \in Snapshot /\ "cancelled" \in EXCHANGE_STATES
        BY <1>0 DEF Types, Good, EXCHANGE_STATES
      <4>. QED  BY <4>1, Results
    <3>. QED  BY <1>0, <3>1, <3>2, TransitLegal DEF Moved
  <2>. QED
    BY <2>1, <2>2, RowStays
    DEF Approve, Reject, Drain, Retry, FollowUp, FollowUpUnchecked, durable, rows
<1>4. CASE Pane
  <2>1. PICK p \in Panes :
          \/ \E kind \in DOMAIN SignalTarget : PaneSignal(p, kind)
          \/ \E outcome \in {"failed", "complete", "needsInput"} : Report(p, outcome)
          \/ LegacyReport(p) \/ ManualCommand(p) \/ WriteAround(p) \/ PaneStarts(p) \/ PaneExits(p)
    BY <1>4 DEF Pane
  <2>2. ASSUME paneActive[p] # None, NEW to, NEW event, transitionOk(mem[paneActive[p]], to),
               Mirror(paneActive[p], transition(mem[paneActive[p]], to), event)
        PROVE  LegalRows
    <3>1. paneActive[p] \in Exchanges
      BY <1>0, <2>2 DEF Types
    <3>. QED  BY <1>0, <2>2, <3>1, MachineLegal, MirrorLegal
  <2>3. CASE \E kind \in DOMAIN SignalTarget : PaneSignal(p, kind)
    BY <2>2, <2>3 DEF PaneSignal
  <2>4. CASE \E outcome \in {"failed", "complete", "needsInput"} : Report(p, outcome)
    BY <2>2, <2>4, RowStays DEF Report, rows
  <2>5. CASE LegacyReport(p) \/ PaneStarts(p) \/ PaneExits(p)
    BY <2>5, RowStays DEF LegacyReport, PaneStarts, PaneExits, durable, rows
  <2>6. CASE ManualCommand(p) \/ WriteAround(p)
    BY <1>0, <2>6, ResumesLegal DEF ManualCommand, WriteAround
  <2>. QED  BY <2>1, <2>3, <2>4, <2>5, <2>6
<1>5. CASE Crash
  BY <1>5, RowStays DEF Crash, durable, rows
<1>6. CASE Recovery
  BY <1>6, RecoverLegal, RowStays DEF Recovery, Boot, BootDone, durable, rows
<1>7. CASE UNCHANGED vars
  BY <1>7, RowStays DEF vars, durable, rows
<1>. QED  BY <1>1, <1>2, <1>3, <1>4, <1>5, <1>6, <1>7 DEF Next

\* Whatever the store loses, a row never invents a history.
THEOREM RowsMoveLegally == Spec => RowMovesLegally
<1>1. Inv /\ [Next]_vars =>
        [\A e \in Exchanges :
           \/ row'[e].state = row[e].state
           \/ row[e].state = "absent" /\ row'[e].state = "draft"
           \/ isLegalTransition(row[e].state, row'[e].state)]_row
  BY StepLegal DEF LegalRows, Moved
<1>. QED  BY <1>1, Invariance, PTL DEF Spec, RowMovesLegally
=============================================================================
