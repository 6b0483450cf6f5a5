------------------------ MODULE ExchangeAgreementProofs ------------------------
(***************************************************************************)
(* The agreements ExchangeSpine keeps between its parts, on the invariants *)
(* of ExchangeSpineProofs: the live machine with the rows, the rows with   *)
(* the law of the exchange and a pane with the exchange it works for, when *)
(* the store loses no write; an interrupted exchange with its one open     *)
(* follow-up and the command log with what was typed, whatever it loses.   *)
(***************************************************************************)
EXTENDS ExchangeSpineProofs, FiniteSetTheorems

\* The last task of a delivery: the machine has delivered, the row is still to follow.
Behind(x) ==
  turn.e = x /\ \/ turn.lane \in {"voice", "workbench"} /\ turn.at = 6
                \/ turn.lane = "approve" /\ turn.at = 9

\* A retry has counted its attempt in the row and not told the machine.
Untold(x) == turn.e = x /\ turn.lane = "retry" /\ turn.at > 2

Same(x) ==
  IF mem[x].state = "absent" THEN row[x].state \notin InFlight ELSE mem[x] = row[x]

Agree(x) ==
  IF Behind(x)
  THEN row[x].state = "staged" /\ row[x].attempt > 0 /\ mem[x] = markDelivered(row[x])
  ELSE IF Untold(x) THEN row[x] = markDeliveryAttempted(mem[x])
  ELSE Same(x)

\* Machine and rows, while the server is up, while it boots, and while it is down.
Agreed ==
  /\ proc = "up" => \A x \in Exchanges : Agree(x)
  /\ proc # "up" => \A x \in Exchanges : mem[x].state = "absent"
  /\ proc = "boot" => \A x \in Exchanges : row[x].state \in InFlight => x \in toRecover

\* The lanes that record their attempt before they write.
TwoPhased == {"workbench", "approve", "retry"}

\* The states of a row that has been delivered.
Past == {"delivered", "running", "needs_input", "terminal_idle", "agent_complete",
         "agent_failed", "interrupted", "cancelled"}

\* What the row of each exchange knows of its attempts and its delivery.
Recorded(x) ==
  /\ row[x].state = "absent" => row[x].attempt = 0
  /\ row[x].state # "absent" => paneOf[x] # None
  /\ lane[x] \in TwoPhased \/ failedLast[x] => row[x].attempt > 0
  /\ row[x].state = "delivered" => x \in landed
  /\ x \in landed => row[x].state \in Past

\* A retry repeats an attempt; a follow-up is made of an exchange that exists.
Repeats ==
  /\ turn.lane = "retry" => row[turn.e].attempt > IF turn.at > 2 THEN 1 ELSE 0
  /\ turn.lane = "followup" => row[turn.of].state # "absent"

Busy == InFlight \ {"staged"}

Retried(p) == \E e \in Exchanges : paneOf[e] = p /\ row[e].attempt > 1

\* A retry has taken the pane and not counted its attempt yet.
Retaking(p) == turn.lane = "retry" /\ turn.at = 2 /\ paneOf[turn.e] = p

\* The busy exchange of a pane is the one its signals go to.
OnePerPane ==
  \A x \in Exchanges : mem[x].state \in Busy =>
    /\ \/ paneActive[paneOf[x]] = x
       \/ Retried(paneOf[x])
       \/ Retaking(paneOf[x])
    /\ \A y \in Exchanges : mem[y].state \in Busy /\ paneOf[y] = paneOf[x] =>
         x = y \/ Retried(paneOf[x])

Told == Agreed /\ (\A x \in Exchanges : Recorded(x)) /\ Repeats

-----------------------------------------------------------------------------
(* The moves of a row.                                                     *)

\* What the law allows a row to do in a step.
Lawful(r, s) ==
  \/ s = r
  \/ r.state = "absent" /\ s = create
  \/ isLegalTransition(r.state, s.state) /\ s.state # "delivered" /\ s.attempt = r.attempt
  \/ r.state = "staged" /\ s.state = "staged" /\ s.attempt = r.attempt + 1
  \/ r.state = "staged" /\ s.state = "delivered" /\ r.attempt > 0 /\ s.attempt = r.attempt

\* Every result the machine stores is lawful.
LEMMA LawfulResults ==
  ASSUME NEW s \in Good
  PROVE  /\ \A to : transitionOk(s, to) /\ to # "delivered" =>
              /\ Lawful(s, transition(s, to)) /\ transition(s, to) \in Good
              /\ transition(s, to).state = to /\ s.state # "absent" /\ to # "absent"
         /\ s.state = "staged" =>
              /\ Lawful(s, markDeliveryAttempted(s)) /\ markDeliveryAttempted(s) \in Good
              /\ markDeliveryAttempted(s).state = "staged"
              /\ markDeliveryAttempted(s).attempt = s.attempt + 1
         /\ markDeliveryFailedOk(s) =>
              /\ Lawful(s, markDeliveryFailed(s)) /\ markDeliveryFailed(s) \in Good
              /\ markDeliveryFailed(s).state = "draft" /\ s.state # "absent"
         /\ s.state = "staged" =>
              /\ markDelivered(s) \in Good /\ markDelivered(s).state = "delivered"
              /\ markDelivered(s).attempt = s.attempt
              /\ s.attempt > 0 => Lawful(s, markDelivered(s))
<1>0. s \in Snapshot
  BY DEF Good
<1>1. ASSUME NEW to, transitionOk(s, to), to # "delivered"
      PROVE  /\ Lawful(s, transition(s, to)) /\ transition(s, to) \in Good
             /\ transition(s, to).state = to /\ s.state # "absent" /\ to # "absent"
  <2>1. to \in EXCHANGE_STATES /\ s.state # "absent" /\ to # "absent"
    BY <1>1, Legals DEF transitionOk
  <2>2. transition(s, to) \in Good /\ transition(s, to).state = to
    BY <2>1, GoodResults
  <2>3. transition(s, to).attempt = s.attempt
    BY <1>0, <2>1, Results
  <2>. QED  BY <1>1, <2>1, <2>2, <2>3 DEF Lawful, transitionOk
<1>2. ASSUME s.state = "staged"
      PROVE  /\ Lawful(s, markDeliveryAttempted(s)) /\ markDeliveryAttempted(s) \in Good
             /\ markDeliveryAttempted(s).state = "staged"
             /\ markDeliveryAttempted(s).attempt = s.attempt + 1
  <2>1. markDeliveryAttempted(s) \in Good /\ markDeliveryAttempted(s).state = "staged"
    BY <1>2, GoodResults
  <2>2. markDeliveryAttempted(s).attempt = s.attempt + 1
    BY <1>0 DEF markDeliveryAttempted, Snapshot
  <2>. QED  BY <1>2, <2>1, <2>2 DEF Lawful
<1>3. ASSUME markDeliveryFailedOk(s)
      PROVE  /\ Lawful(s, markDeliveryFailed(s)) /\ markDeliveryFailed(s) \in Good
             /\ markDeliveryFailed(s).state = "draft" /\ s.state # "absent"
  <2>1. isLegalTransition(s.state, "draft") /\ s.state # "absent"
    BY <1>3, Legals DEF markDeliveryFailedOk, transitionOk
  <2>2. markDeliveryFailed(s) \in Good /\ markDeliveryFailed(s).state = "draft"
    BY <2>1, GoodResults
  <2>3. markDeliveryFailed(s).attempt = s.attempt
    BY <1>0, Results
  <2>. QED  BY <2>1, <2>2, <2>3 DEF Lawful
<1>4. ASSUME s.state = "staged"
      PROVE  /\ markDelivered(s) \in Good /\ markDelivered(s).state = "delivered"
             /\ markDelivered(s).attempt = s.attempt
             /\ s.attempt > 0 => Lawful(s, markDelivered(s))
  <2>1. "delivered" \in EXCHANGE_STATES
    BY DEF EXCHANGE_STATES
  <2>2. markDelivered(s) \in Good /\ markDelivered(s).state = "delivered"
    BY <1>4, <2>1, GoodResults DEF markDelivered
  <2>3. markDelivered(s).attempt = s.attempt
    BY <1>0, <2>1, Results DEF markDelivered
  <2>. QED  BY <1>4, <2>2, <2>3 DEF Lawful
<1>. QED  BY <1>1, <1>2, <1>3, <1>4

LEMMA LawfulRequest ==
  ASSUME NEW s \in Good, NEW a \in ApprovalIds, requestApprovalOk(s)
  PROVE  /\ Lawful(s, requestApproval(s, a)) /\ requestApproval(s, a) \in Good
         /\ requestApproval(s, a).state = "awaiting_approval" /\ s.state # "absent"
<1>1. isLegalTransition(s.state, "awaiting_approval") /\ s.state # "absent"
  BY Legals DEF requestApprovalOk, transitionOk
<1>2. requestApproval(s, a) \in Good /\ requestApproval(s, a).state = "awaiting_approval"
  BY <1>1, GoodResults
<1>3. requestApproval(s, a).attempt = s.attempt
  BY Results DEF Good
<1>. QED  BY <1>1, <1>2, <1>3 DEF Lawful

-----------------------------------------------------------------------------
(* Machine and row move together.                                          *)

Ahead(x) == Behind(x) \/ Untold(x)

\* A row appears with its pane.
LawfulRows ==
  \A x \in Exchanges :
    /\ Lawful(row[x], row'[x])
    /\ row[x].state = "absent" /\ row'[x].state # "absent" => paneOf'[x] # None

LandedKept == landed' = landed \cup {x \in Exchanges : row'[x].state = "delivered"}

\* The machine and the row of e both become s.
Both(e, s) ==
  /\ mem' = [mem EXCEPT ![e] = s]
  /\ RowsBecome([row EXCEPT ![e] = s])

\* What one accepted call does: the row follows the machine.
Follows ==
  \/ UNCHANGED <<mem, rows>>
  \/ \E e \in Exchanges, s \in Good :
       /\ Both(e, s) /\ ~Ahead(e)
       /\ mem[e].state # "absent" /\ mem[e] = row[e]
       /\ s.state \notin {"absent", "delivered"} /\ Lawful(mem[e], s)

\* No new failure is logged but of an attempt.
FailuresTried == \A x \in Exchanges : failedLast'[x] => failedLast[x] \/ row'[x].attempt > 0

LEMMA PersistBoth ==
  ASSUME ~StoreFaults, Types, NEW e \in Exchanges, NEW from, row[e].state = from, NEW s, NEW event,
         Persist(e, from, s, event)
  PROVE  /\ RowsBecome([row EXCEPT ![e] = s])
         /\ event # "delivery_failed" => FailuresTried
<1>1. RowsBecome([row EXCEPT ![e] = s])
  BY DEF Persist, Persisted
<1>2. event # "delivery_failed" => FailuresTried
  BY DEF Persist, FailuresTried, Types
<1>. QED  BY <1>1, <1>2

LEMMA MirrorFollows ==
  ASSUME ~StoreFaults, Types, NEW e \in Exchanges, Same(e), ~Ahead(e), NEW s \in Good, NEW event,
         mem[e].state # "absent", Lawful(mem[e], s), s.state \notin {"absent", "delivered"},
         Mirror(e, s, event)
  PROVE  /\ Follows
         /\ event # "delivery_failed" => FailuresTried
<1>1. mem[e] = row[e]
  BY DEF Same
<1>2. Persist(e, mem[e].state, s, event) /\ mem' = [mem EXCEPT ![e] = s]
  BY DEF Mirror
<1>3. Both(e, s) /\ (event # "delivery_failed" => FailuresTried)
  BY <1>1, <1>2, PersistBoth DEF Both
<1>. QED  BY <1>1, <1>3 DEF Follows

LEMMA CallFollows ==
  ASSUME ~StoreFaults, Types, NEW e \in Exchanges, Same(e), ~Ahead(e), NEW ok, NEW s, NEW event,
         ok => /\ s \in Good /\ mem[e].state # "absent" /\ Lawful(mem[e], s)
               /\ s.state \notin {"absent", "delivered"},
         Call(e, ok, s, event)
  PROVE  /\ Follows
         /\ event # "delivery_failed" => FailuresTried
<1>1. CASE ok /\ Mirror(e, s, event)
  BY <1>1, MirrorFollows
<1>2. CASE UNCHANGED <<mem, rows, failedLast>>
  BY <1>2 DEF Follows, FailuresTried
<1>. QED  BY <1>1, <1>2 DEF Call

\* A signal or a hop.
LEMMA MoveFollows ==
  ASSUME ~StoreFaults, Types, NEW e \in Exchanges, Same(e), ~Ahead(e), NEW to, NEW event,
         transitionOk(mem[e], to), to # "delivered", event # "delivery_failed",
         Mirror(e, transition(mem[e], to), event)
  PROVE  Follows /\ FailuresTried
<1>1. mem[e] \in Good
  BY DEF Types
<1>. QED  BY <1>1, LawfulResults, MirrorFollows

\* When the row follows, they agree as before.
LEMMA FollowsAgree ==
  ASSUME Told, Types, Follows, proc = "up", proc' = "up",
         \A x \in Exchanges : (Behind(x)' <=> Behind(x)) /\ (Untold(x)' <=> Untold(x))
  PROVE  Agreed' /\ LawfulRows /\ LandedKept
<1>0. \A x \in Exchanges : Agree(x)
  BY DEF Told, Agreed
<1>1. CASE UNCHANGED <<mem, rows>>
  <2>1. \A x \in Exchanges : Agree(x)'
    BY <1>0, <1>1 DEF Agree, Same, rows
  <2>2. LandedKept
    BY <1>1 DEF LandedKept, rows, Told, Recorded, Types
  <2>. QED  BY <1>1, <2>1, <2>2 DEF Agreed, LawfulRows, Lawful, rows
<1>2. ASSUME NEW e \in Exchanges, NEW s \in Good, Both(e, s), ~Ahead(e),
             mem[e].state # "absent", mem[e] = row[e], s.state \notin {"absent", "delivered"},
             Lawful(mem[e], s)
      PROVE  Agreed' /\ LawfulRows /\ LandedKept
  <2>1. /\ mem'[e] = s /\ row'[e] = s
        /\ \A x \in Exchanges : x # e => mem'[x] = mem[x] /\ row'[x] = row[x]
    BY <1>2 DEF Both, RowsBecome, Types
  <2>2. Agree(e)'
    BY <1>2, <2>1 DEF Agree, Same, Ahead
  <2>3. \A x \in Exchanges : x # e => Agree(x)'
    BY <1>0, <2>1 DEF Agree, Same
  <2>4. LandedKept
    BY <1>2 DEF Both, RowsBecome, LandedKept
  <2>5. LawfulRows
    BY <1>2, <2>1 DEF LawfulRows, Lawful
  <2>. QED  BY <2>2, <2>3, <2>4, <2>5 DEF Agreed
<1>. QED  BY <1>1, <1>2 DEF Follows

\* When both are given the same snapshot, they agree on it.
LEMMA BothAgree ==
  ASSUME Told, Types, NEW e \in Exchanges, NEW s \in Good, Both(e, s), s.state # "absent",
         Lawful(row[e], s), row[e].state # "absent" \/ paneOf'[e] # None,
         proc = "up", proc' = "up",
         \A x \in Exchanges : (x # e => ~Ahead(x)) /\ ~Ahead(x)'
  PROVE  Agreed' /\ LawfulRows /\ LandedKept
<1>1. /\ mem'[e] = s /\ row'[e] = s
      /\ \A x \in Exchanges : x # e => mem'[x] = mem[x] /\ row'[x] = row[x]
  BY DEF Both, RowsBecome, Types
<1>2. Agree(e)'
  BY <1>1 DEF Agree, Same, Ahead
<1>3. ASSUME NEW x \in Exchanges, x # e
      PROVE  Agree(x)'
  <2>1. Same(x)
    BY <1>3 DEF Told, Agreed, Agree, Ahead
  <2>. QED  BY <1>1, <1>3, <2>1 DEF Agree, Same, Ahead
<1>4. LandedKept
  BY DEF Both, RowsBecome, LandedKept
<1>5. LawfulRows
  BY <1>1 DEF LawfulRows, Lawful
<1>. QED  BY <1>2, <1>3, <1>4, <1>5 DEF Agreed

\* When only a row is written, it is the machine's or one the machine need not follow.
LEMMA RowAgree ==
  ASSUME Told, Types, NEW e \in Exchanges, NEW s \in Good, UNCHANGED mem,
         RowsBecome([row EXCEPT ![e] = s]), Lawful(row[e], s),
         row[e].state # "absent" \/ paneOf'[e] # None, proc = "up", proc' = "up",
         \A x \in Exchanges : x # e => ~Ahead(x) /\ ~Ahead(x)',
         row'[e] = s => Agree(e)'
  PROVE  Agreed' /\ LawfulRows /\ LandedKept
<1>1. row'[e] = s /\ \A x \in Exchanges : x # e => row'[x] = row[x]
  BY DEF RowsBecome, Types
<1>2. Agree(e)'
  BY <1>1
<1>3. ASSUME NEW x \in Exchanges, x # e
      PROVE  Agree(x)'
  <2>1. Same(x)
    BY <1>3 DEF Told, Agreed, Agree, Ahead
  <2>. QED  BY <1>1, <1>3, <2>1 DEF Agree, Same, Ahead
<1>4. LandedKept
  BY DEF RowsBecome, LandedKept
<1>5. LawfulRows
  BY <1>1 DEF LawfulRows, Lawful
<1>. QED  BY <1>2, <1>3, <1>4, <1>5 DEF Agreed

-----------------------------------------------------------------------------
(* Every step keeps machine and rows together, moves the rows by the law,  *)
(* and logs failures of attempts only.                                     *)

Faithful == Agreed' /\ LawfulRows /\ LandedKept /\ FailuresTried

\* The tasks during which, or after which, the row lags or leads.
Lagging == {"reattempt", "kick", "write", "redelivered", "complete", "record"}

LEMMA NotAhead ==
  ASSUME IInv, NEW task, Doing(task), task \notin Lagging,
         Advance \/ turn' = Rest \/ UNCHANGED turn
  PROVE  proc = "up" /\ \A x \in Exchanges : ~Ahead(x) /\ ~Ahead(x)'
<1>1. /\ turn \in Turns /\ Placed(turn.lane, turn.at, task) /\ turn.at \in 1..Len(Lane[turn.lane])
      /\ Len(Lane[turn.lane]) \in Nat
  BY Places DEF IInv
<1>2. ~(turn.lane \in {"voice", "workbench"} /\ turn.at \in {5, 6})
  BY <1>1 DEF Placed, Lagging
<1>3. ~(turn.lane = "approve" /\ turn.at \in {8, 9})
  BY <1>1 DEF Placed, Lagging
<1>4. turn.lane = "retry" => turn.at = 1
  <2>1. SUFFICES ASSUME turn.lane = "retry"
                 PROVE  turn.at = 1
    OBVIOUS
  <2>2. turn.at \in 1..5
    BY <1>1, <2>1, LaneEnds
  <2>3. turn.at \notin {2, 3, 4, 5}
    BY <1>1, <2>1 DEF Placed, Lagging
  <2>. QED  BY <2>2, <2>3
<1>5. \A x \in Exchanges : ~Ahead(x)
  BY <1>2, <1>3, <1>4 DEF Ahead, Behind, Untold
<1>6. \A x \in Exchanges : ~Ahead(x)'
  <2>1. CASE turn' = Rest
    BY <2>1 DEF Ahead, Behind, Untold, Rest
  <2>2. CASE UNCHANGED turn
    BY <1>5, <2>2 DEF Ahead, Behind, Untold
  <2>3. CASE Advance /\ turn' # Rest
    <3>1. turn'.lane = turn.lane /\ turn'.at = turn.at + 1 /\ turn.at \in Nat
      BY <1>1, <2>3, Onward DEF IInv, Turns
    <3>. QED  BY <1>2, <1>3, <1>4, <3>1 DEF Ahead, Behind, Untold
  <2>. QED  BY <2>1, <2>2, <2>3
<1>. QED  BY <1>5, <1>6 DEF Doing

LEMMA RestNotAhead ==
  ASSUME turn = Rest
  PROVE  \A x \in Exchanges : ~Ahead(x)
  BY DEF Ahead, Behind, Untold, Rest

LEMMA StartNotAhead ==
  ASSUME NEW l, NEW e, NEW o, turn' = [lane |-> l, e |-> e, of |-> o, at |-> 1]
  PROVE  \A x \in Exchanges : ~Ahead(x)'
  BY DEF Ahead, Behind, Untold

\* An exchange that is neither ahead nor behind.
LEMMA InStep ==
  ASSUME Told, proc = "up", NEW x \in Exchanges, ~Ahead(x)
  PROVE  Same(x)
  BY DEF Told, Agreed, Agree, Ahead

\* The rows stay, and so does what lags.
LEMMA StillFaithful ==
  ASSUME Told, Types, UNCHANGED <<mem, rows, failedLast>>, proc = "up", proc' = "up",
         \A x \in Exchanges : (Behind(x)' <=> Behind(x)) /\ (Untold(x)' <=> Untold(x))
  PROVE  Faithful
  BY FollowsAgree DEF Follows, Faithful, FailuresTried

LEMMA MintFaithful ==
  ASSUME ~StoreFaults, Told, IInv, NEW e \in Exchanges, NEW p \in Panes, Mint(e, p),
         NEW l, Start(l, e)
  PROVE  Faithful
<1>0. paneOf'[e] # None
  BY SpineAssumption DEF IInv, Types, Mint
<1>1. /\ Types /\ proc = "up" /\ proc' = "up" /\ turn = Rest /\ row[e].state = "absent"
      /\ mem' = [mem EXCEPT ![e] = create]
      /\ Persist(e, "absent", create, "exchange_created")
  BY DEF IInv, Mint, Idle, boot
<1>2. RowsBecome([row EXCEPT ![e] = create]) /\ FailuresTried
  BY <1>1, PersistBoth
<1>3. create \in Good /\ create.state = "draft" /\ Lawful(row[e], create)
  BY <1>1, GoodResults DEF Lawful
<1>4. \A x \in Exchanges : ~Ahead(x) /\ ~Ahead(x)'
  BY <1>1, RestNotAhead, StartNotAhead DEF Start
<1>5. Both(e, create)
  BY <1>1, <1>2 DEF Both
<1>. QED  BY <1>0, <1>1, <1>2, <1>3, <1>4, <1>5, BothAgree DEF Faithful

LEMMA StartFaithful ==
  ASSUME Told, IInv, Idle, UNCHANGED <<mem, rows, failedLast, proc>>,
         NEW l, NEW e, NEW o, turn' = [lane |-> l, e |-> e, of |-> o, at |-> 1]
  PROVE  Faithful
<1>1. \A x \in Exchanges : ~Ahead(x) /\ ~Ahead(x)'
  BY RestNotAhead, StartNotAhead DEF Idle
<1>. QED  BY <1>1, StillFaithful DEF Ahead, Idle, IInv

\* A call of a handler that has not delivered.
LEMMA CallFaithful ==
  ASSUME ~StoreFaults, Told, IInv, NEW task, Doing(task), task \notin Lagging, Advance,
         UNCHANGED proc, NEW ok, NEW s, NEW event,
         ok => /\ s \in Good /\ mem[turn.e].state # "absent" /\ Lawful(mem[turn.e], s)
               /\ s.state \notin {"absent", "delivered"},
         Call(turn.e, ok, s, event), event # "delivery_failed"
  PROVE  Faithful
<1>1. Types /\ turn.e \in Exchanges
  BY Handled DEF IInv
<1>2. proc = "up" /\ \A x \in Exchanges : ~Ahead(x) /\ ~Ahead(x)'
  BY NotAhead
<1>3. Same(turn.e)
  BY <1>1, <1>2, InStep
<1>4. Follows /\ FailuresTried
  BY <1>1, <1>2, <1>3, CallFollows
<1>. QED  BY <1>1, <1>2, <1>4, FollowsAgree DEF Faithful, Ahead

LEMMA CallTasksFaithful ==
  ASSUME ~StoreFaults, Told, IInv, Request \/ Confirm \/ Cancel \/ Stage \/ Attempt
  PROVE  Faithful
<1>. DEFINE s == mem[turn.e]
<1>1. CASE Request
  <2>1. s \in Good /\ turn.e \in ApprovalIds
    BY <1>1, Handled, SpineAssumption DEF Request
  <2>2. requestApprovalOk(s) =>
          /\ requestApproval(s, turn.e) \in Good /\ s.state # "absent"
          /\ Lawful(s, requestApproval(s, turn.e))
          /\ requestApproval(s, turn.e).state \notin {"absent", "delivered"}
    BY <2>1, LawfulRequest
  <2>. QED  BY <1>1, <2>2, CallFaithful DEF Request, Lagging, besidesMirror, boot
<1>2. CASE Confirm
  <2>1. s \in Good
    BY <1>2, Handled DEF Confirm
  <2>2. confirmApprovalOk(s, turn.e, s.approvalVersion) => transitionOk(s, "staged")
    BY Sources DEF confirmApprovalOk, transitionOk
  <2>3. confirmApprovalOk(s, turn.e, s.approvalVersion) =>
          /\ confirmApproval(s) \in Good /\ s.state # "absent" /\ Lawful(s, confirmApproval(s))
          /\ confirmApproval(s).state \notin {"absent", "delivered"}
    BY <2>1, <2>2, LawfulResults DEF confirmApproval
  <2>. QED  BY <1>2, <2>3, CallFaithful DEF Confirm, Lagging, besidesMirror, boot
<1>3. CASE Cancel
  <2>1. s \in Good
    BY <1>3, Handled DEF Cancel
  <2>2. transitionOk(s, "cancelled") =>
          /\ transition(s, "cancelled") \in Good /\ s.state # "absent"
          /\ Lawful(s, transition(s, "cancelled"))
          /\ transition(s, "cancelled").state \notin {"absent", "delivered"}
    BY <2>1, LawfulResults
  <2>. QED  BY <1>3, <2>2, CallFaithful DEF Cancel, Lagging, besidesMirror, boot
<1>4. CASE Stage
  <2>1. s \in Good
    BY <1>4, Handled DEF Stage
  <2>2. stageAutoExecuteOk(s) =>
          /\ stageAutoExecute(s) \in Good /\ s.state # "absent" /\ Lawful(s, stageAutoExecute(s))
          /\ stageAutoExecute(s).state \notin {"absent", "delivered"}
    BY <2>1, LawfulResults DEF stageAutoExecuteOk, stageAutoExecute
  <2>. QED  BY <1>4, <2>2, CallFaithful DEF Stage, Lagging, besidesMirror, boot
<1>5. CASE Attempt
  <2>1. s \in Good
    BY <1>5, Handled DEF Attempt
  <2>2. markDeliveryAttemptedOk(s) =>
          /\ markDeliveryAttempted(s) \in Good /\ s.state # "absent"
          /\ Lawful(s, markDeliveryAttempted(s))
          /\ markDeliveryAttempted(s).state \notin {"absent", "delivered"}
    BY <2>1, LawfulResults DEF markDeliveryAttemptedOk
  <2>. QED  BY <1>5, <2>2, CallFaithful DEF Attempt, Lagging, besidesMirror, boot
<1>. QED  BY <1>1, <1>2, <1>3, <1>4, <1>5

LEMMA HopFaithful ==
  ASSUME ~StoreFaults, Told, IInv, SettleReport
  PROVE  Faithful
<1>1. ASSUME NEW task \in {"idled", "finish", "resumed", "ask"}, NEW needed, NEW to, NEW event,
             to # "delivered", event # "delivery_failed", Hop(task, needed, to, event)
      PROVE  Faithful
  <2>1. Types /\ turn.e \in Exchanges /\ UNCHANGED proc
    BY <1>1, Handled DEF Hop, IInv, besidesMirror, boot
  <2>2. proc = "up" /\ \A x \in Exchanges : ~Ahead(x) /\ ~Ahead(x)'
    BY <1>1, NotAhead DEF Hop, Lagging
  <2>3. Same(turn.e)
    BY <2>1, <2>2, InStep
  <2>4. Follows /\ FailuresTried
    <3>1. CASE UNCHANGED <<mem, rows, failedLast>>
      BY <3>1 DEF Follows, FailuresTried
    <3>2. CASE /\ transitionOk(mem[turn.e], to)
               /\ Mirror(turn.e, transition(mem[turn.e], to), event)
      BY <1>1, <2>1, <2>2, <2>3, <3>2, MoveFollows
    <3>. QED  BY <1>1, <3>1, <3>2 DEF Hop
  <2>. QED  BY <2>1, <2>2, <2>4, FollowsAgree DEF Faithful, Ahead
<1>. QED  BY <1>1 DEF SettleReport

\* The pane resumes its exchange, unless that lags, which is none to resume.
LEMMA ResumesFollows ==
  ASSUME ~StoreFaults, Told, IInv, proc = "up", NEW p \in Panes, Resumes(p),
         \A x \in Exchanges : Ahead(x) => mem[x].state = "staged"
  PROVE  Follows /\ FailuresTried
<1>0. Types
  BY DEF IInv
<1>1. CASE UNCHANGED <<mem, rows, failedLast>>
  BY <1>1 DEF Follows, FailuresTried
<1>2. CASE /\ paneActive[p] # None /\ transitionOk(mem[paneActive[p]], "running")
           /\ Mirror(paneActive[p], transition(mem[paneActive[p]], "running"), "terminal_running")
  <2>1. paneActive[p] \in Exchanges
    BY <1>0, <1>2 DEF Types
  <2>2. ~Ahead(paneActive[p])
    BY <1>2, <2>1, Sources DEF transitionOk
  <2>. QED  BY <1>0, <1>2, <2>1, <2>2, InStep, MoveFollows
<1>. QED  BY <1>1, <1>2 DEF Resumes

LEMMA PaneFaithful ==
  ASSUME ~StoreFaults, Told, IInv, NEW p \in Panes,
         \/ \E kind \in DOMAIN SignalTarget : PaneSignal(p, kind)
         \/ \E outcome \in {"failed", "complete", "needsInput"} : Report(p, outcome)
         \/ LegacyReport(p) \/ ManualCommand(p) \/ WriteAround(p) \/ PaneStarts(p) \/ PaneExits(p)
  PROVE  Faithful
<1>0. Types /\ proc = "up" /\ turn = Rest /\ UNCHANGED proc /\ \A x \in Exchanges : ~Ahead(x)
  BY RestNotAhead
  DEF IInv, PaneSignal, Report, LegacyReport, ManualCommand, WriteAround, PaneStarts, PaneExits, Idle,
      besidesMirror, boot
<1>1. ASSUME UNCHANGED turn, Follows, FailuresTried
      PROVE  Faithful
  BY <1>0, <1>1, FollowsAgree DEF Faithful, Behind, Untold
<1>2. ASSUME paneActive[p] # None, NEW to, NEW event, to # "delivered", event # "delivery_failed",
             transitionOk(mem[paneActive[p]], to), UNCHANGED turn,
             Mirror(paneActive[p], transition(mem[paneActive[p]], to), event)
      PROVE  Faithful
  <2>1. paneActive[p] \in Exchanges
    BY <1>0, <1>2 DEF Types
  <2>2. Same(paneActive[p])
    BY <1>0, <2>1, InStep
  <2>. QED  BY <1>0, <1>1, <1>2, <2>1, <2>2, MoveFollows
<1>3. ASSUME NEW kind \in DOMAIN SignalTarget, PaneSignal(p, kind)
      PROVE  Faithful
  <2>1. SignalTarget[kind] # "delivered" /\ kind # "delivery_failed"
    BY DEF SignalTarget
  <2>. QED  BY <1>2, <1>3, <2>1 DEF PaneSignal
<1>4. ASSUME NEW outcome \in {"failed", "complete", "needsInput"}, Report(p, outcome)
      PROVE  Faithful
  <2>1. CASE UNCHANGED turn
    BY <1>0, <1>2, <1>4, <2>1, StillFaithful DEF Report, Behind, Untold
  <2>2. CASE Start(outcome, paneActive[p]) /\ UNCHANGED <<mem, rows, failedLast>>
    BY <1>0, <1>4, <2>2, StartFaithful DEF Report, Start
  <2>. QED  BY <1>4, <2>1, <2>2 DEF Report
<1>5. CASE LegacyReport(p)
  BY <1>0, <1>5, StartFaithful DEF LegacyReport, Start, live, durable
<1>6. CASE ManualCommand(p) \/ WriteAround(p)
  BY <1>0, <1>1, <1>6, ResumesFollows DEF ManualCommand, WriteAround
<1>7. CASE PaneStarts(p) \/ PaneExits(p)
  BY <1>0, <1>1, <1>7 DEF PaneStarts, PaneExits, durable, rows, Follows, FailuresTried
<1>. QED  BY <1>3, <1>4, <1>5, <1>6, <1>7

\* A task that delivers is followed by another one.
LEMMA GoesOn ==
  ASSUME IInv, NEW task \in {"kick", "write", "complete"}, Doing(task), Advance
  PROVE  turn'.lane = turn.lane /\ turn'.e = turn.e /\ turn'.at = turn.at + 1
<1>1. Types /\ Placed(turn.lane, turn.at, task)
  BY Places DEF IInv
<1>2. turn.at # Len(Lane[turn.lane])
  <2>1. CASE turn.lane = "voice"
    <3>1. turn.at \in {1, 2, 5} /\ Len(Lane[turn.lane]) = 6
      BY <1>1, <2>1, LaneEnds DEF Placed
    <3>. QED  BY <3>1
  <2>2. CASE turn.lane = "workbench"
    <3>1. turn.at \in {3, 4, 5} /\ Len(Lane[turn.lane]) = 6
      BY <1>1, <2>2, LaneEnds DEF Placed
    <3>. QED  BY <3>1
  <2>3. CASE turn.lane = "approve"
    <3>1. turn.at \in {6, 7, 8} /\ Len(Lane[turn.lane]) = 9
      BY <1>1, <2>3, LaneEnds DEF Placed
    <3>. QED  BY <3>1
  <2>4. CASE turn.lane = "retry"
    <3>1. turn.at \in {3, 4} /\ Len(Lane[turn.lane]) = 5
      BY <1>1, <2>4, LaneEnds DEF Placed
    <3>. QED  BY <3>1
  <2>. QED  BY <1>1, <2>1, <2>2, <2>3, <2>4 DEF Placed
<1>. QED  BY <1>1, <1>2, Onward DEF Advance, Rest

LEMMA KickFaithful ==
  ASSUME ~StoreFaults, Told, IInv, Stations, Kick
  PROVE  Faithful
<1>1. /\ Doing("kick") /\ Advance /\ Types /\ turn.e \in Exchanges /\ proc = "up" /\ UNCHANGED proc
      /\ Resumes(paneOf[turn.e])
  BY Handled DEF Kick, IInv, besidesMirror, boot, Doing
<1>2. \/ turn.lane = "voice" /\ turn.at = 1
      \/ turn.lane = "workbench" /\ turn.at = 3
      \/ turn.lane = "approve" /\ turn.at = 6
      \/ turn.lane = "retry" /\ turn.at = 3
  BY <1>1, Places DEF Placed
<1>3. turn'.lane = turn.lane /\ turn'.e = turn.e /\ turn'.at = turn.at + 1
  BY <1>1, GoesOn
<1>4. \A x \in Exchanges : (Behind(x)' <=> Behind(x)) /\ (Untold(x)' <=> Untold(x))
  BY <1>2, <1>3 DEF Behind, Untold
<1>5. \A x \in Exchanges : Ahead(x) => mem[x].state = "staged"
  BY <1>2 DEF Ahead, Behind, Untold, Stations
<1>6. paneOf[turn.e] \in Panes
  BY <1>2, OnPane DEF Writing
<1>. QED  BY <1>1, <1>4, <1>5, <1>6, ResumesFollows, FollowsAgree DEF Faithful

LEMMA WriteFaithful ==
  ASSUME Told, IInv, Write
  PROVE  Faithful
<1>1. /\ Doing("write") /\ Advance /\ Types /\ proc = "up"
      /\ UNCHANGED <<mem, rows, failedLast, proc>>
  BY DEF Write, IInv, live, durable, boot, Doing
<1>2. \/ turn.lane = "voice" /\ turn.at = 2
      \/ turn.lane = "workbench" /\ turn.at = 4
      \/ turn.lane = "approve" /\ turn.at = 7
      \/ turn.lane = "retry" /\ turn.at = 4
  BY <1>1, Places DEF Placed
<1>3. turn'.lane = turn.lane /\ turn'.e = turn.e /\ turn'.at = turn.at + 1
  BY <1>1, GoesOn
<1>4. \A x \in Exchanges : (Behind(x)' <=> Behind(x)) /\ (Untold(x)' <=> Untold(x))
  BY <1>2, <1>3 DEF Behind, Untold
<1>. QED  BY <1>1, <1>4, StillFaithful

\* The write throws: what is re-armed is known to have been attempted.
LEMMA WriteThrowsFaithful ==
  ASSUME ~StoreFaults, Told, IInv, Stations, WriteThrows
  PROVE  Faithful
<1>. DEFINE e == turn.e
<1>1. /\ Doing("write") /\ turn' = Rest /\ Types /\ e \in Exchanges /\ proc = "up"
      /\ UNCHANGED proc /\ mem[e] \in Good /\ row[e] \in Good
  BY Handled DEF WriteThrows, IInv, boot, Doing
<1>2. \/ turn.lane = "voice" /\ turn.at = 2
      \/ turn.lane = "workbench" /\ turn.at = 4
      \/ turn.lane = "approve" /\ turn.at = 7
      \/ turn.lane = "retry" /\ turn.at = 4
  BY <1>1, Places DEF Placed
<1>3. \A x \in Exchanges : ~Ahead(x)'
  BY <1>1 DEF Ahead, Behind, Untold, Rest
<1>4. turn.lane # "retry" => \A x \in Exchanges : ~Ahead(x)
  BY <1>2 DEF Ahead, Behind, Untold
<1>5. CASE turn.lane = "workbench"
  <2>1. Same(e) /\ ~Ahead(e)
    BY <1>1, <1>4, <1>5, InStep
  <2>2. Call(e, markDeliveryFailedOk(mem[e]), markDeliveryFailed(mem[e]), "delivery_failed")
    BY <1>5 DEF WriteThrows
  <2>3. markDeliveryFailedOk(mem[e]) =>
          /\ markDeliveryFailed(mem[e]) \in Good /\ mem[e].state # "absent"
          /\ Lawful(mem[e], markDeliveryFailed(mem[e]))
          /\ markDeliveryFailed(mem[e]).state \notin {"absent", "delivered"}
    BY <1>1, LawfulResults
  <2>4. Follows
    BY <1>1, <2>1, <2>2, <2>3, CallFollows
  <2>5. Agreed' /\ LawfulRows /\ LandedKept
    BY <1>1, <1>3, <1>4, <1>5, <2>4, FollowsAgree DEF Ahead
  <2>6. FailuresTried
    <3>1. row[e] = mem[e] /\ mem[e].attempt > 0 /\ row[e].attempt \in Nat
      BY <1>1, <1>2, <1>5, <2>1 DEF Same, Stations, Good, Snapshot
    <3>2. row'[e].attempt > 0
      <4>1. row'[e] = row[e] \/ row'[e] = markDeliveryFailed(mem[e])
        BY <1>1, <2>2 DEF Call, Mirror, Persist, Persisted, RowsBecome, rows, Types
      <4>2. markDeliveryFailed(mem[e]).attempt = mem[e].attempt
        BY <1>1, Results DEF Good
      <4>. QED  BY <3>1, <4>1, <4>2
    <3>3. \A x \in Exchanges : x # e => failedLast'[x] = failedLast[x]
      BY <1>1, <2>2 DEF Call, Mirror, Persist, Types
    <3>. QED  BY <3>2, <3>3 DEF FailuresTried
  <2>. QED  BY <2>5, <2>6 DEF Faithful
<1>6. CASE turn.lane = "retry"
  <2>. DEFINE s == markDeliveryFailed(row[e])
  <2>1. Transit(e, s, "delivery_failed") /\ mem' = Adopted(e, s)
    BY <1>6 DEF WriteThrows
  <2>2. row[e].state = "staged" /\ row[e].attempt > 0 /\ row[e].attempt \in Nat
    <3>1. row[e].attempt > 1 /\ row[e].attempt \in Nat
      BY <1>1, <1>2, <1>6 DEF Told, Repeats, Good, Snapshot
    <3>. QED  BY <1>2, <1>6, <3>1 DEF Stations
  <2>3. s \in Good /\ s.state = "draft" /\ Lawful(row[e], s)
    BY <1>1, <2>2, LawfulResults, Sources DEF markDeliveryFailedOk, transitionOk
  <2>4. s.attempt = row[e].attempt
    BY <1>1, Results DEF Good
  <2>5. Both(e, s)
    BY <2>1 DEF Both, Transit, Adopted
  <2>6. \A x \in Exchanges : x # e => ~Ahead(x)
    BY DEF Ahead, Behind, Untold
  <2>7. Agreed' /\ LawfulRows /\ LandedKept
    BY <1>1, <1>3, <2>2, <2>3, <2>5, <2>6, BothAgree
  <2>8. FailuresTried
    BY <1>1, <2>1, <2>2, <2>4 DEF FailuresTried, Transit, RowsBecome, Types
  <2>. QED  BY <2>7, <2>8 DEF Faithful
<1>7. CASE turn.lane \notin {"workbench", "retry"}
  <2>1. UNCHANGED <<mem, rows, failedLast>>
    BY <1>7 DEF WriteThrows
  <2>. QED  BY <1>1, <1>3, <1>4, <1>7, <2>1, StillFaithful DEF Ahead
<1>. QED  BY <1>5, <1>6, <1>7

\* The machine delivers before its row does; what was active is interrupted in both.
LEMMA CompleteFaithful ==
  ASSUME ~StoreFaults, Told, IInv, Stations, Complete
  PROVE  Faithful
<1>. DEFINE e == turn.e
            p == paneOf[e]
            prior == Superseded(e, p)
<1>1. /\ Doing("complete") /\ Types /\ e \in Exchanges /\ proc = "up" /\ UNCHANGED proc
      /\ mem[e] \in Good /\ row[e] \in Good
  BY Handled DEF Complete, IInv, boot, Doing
<1>2. \/ turn.lane = "voice" /\ turn.at = 5
      \/ turn.lane = "workbench" /\ turn.at = 5
      \/ turn.lane = "approve" /\ turn.at = 8
  BY <1>1, Places DEF Placed
<1>3. \A x \in Exchanges : ~Ahead(x)
  BY <1>2 DEF Ahead, Behind, Untold
<1>4. CASE turn' = Rest /\ UNCHANGED <<mem, rows, failedLast>>
  <2>1. \A x \in Exchanges : ~Ahead(x)'
    BY <1>4 DEF Ahead, Behind, Untold, Rest
  <2>. QED  BY <1>1, <1>3, <1>4, <2>1, StillFaithful DEF Ahead
<1>5. CASE /\ Advance /\ markDeliveredOk(mem[e])
           /\ mem' = [x \in Exchanges |->
                 IF x = e THEN markDelivered(mem[e])
                 ELSE IF x \in prior THEN transition(mem[x], "interrupted") ELSE mem[x]]
           /\ \/ prior = {} /\ UNCHANGED <<rows, failedLast>>
              \/ \E x \in prior :
                   Persist(x, mem[x].state, transition(mem[x], "interrupted"), "exchange_recovered")
  <2>1. turn'.lane = turn.lane /\ turn'.e = e /\ turn'.at = turn.at + 1
    BY <1>1, <1>5, GoesOn
  <2>2. \A x \in Exchanges : ~Untold(x)' /\ (Behind(x)' <=> x = e)
    BY <1>2, <2>1 DEF Behind, Untold
  <2>3. mem[e] = row[e] /\ row[e].state = "staged" /\ row[e].attempt > 0
    <3>1. Same(e)
      BY <1>1, <1>3, InStep
    <3>2. mem[e].attempt \in Nat
      BY <1>1 DEF Good, Snapshot
    <3>. QED  BY <1>5, <3>1, <3>2 DEF Same, markDeliveredOk
  <2>4. ASSUME NEW x \in prior
        PROVE  /\ x \in Exchanges /\ x # e /\ mem[x] = row[x] /\ prior = {x}
               /\ row[x].state # "absent"
               /\ Lawful(row[x], transition(mem[x], "interrupted"))
               /\ transition(mem[x], "interrupted").state = "interrupted"
    <3>1. x \in Exchanges /\ x # e /\ transitionOk(mem[x], "interrupted") /\ prior = {x}
      BY <1>1, <2>4, OnPane, <1>2 DEF Superseded, Types, Writing
    <3>2. Same(x) /\ mem[x] \in Good
      BY <1>1, <1>3, <3>1, InStep DEF Types
    <3>3. mem[x].state # "absent"
      BY <3>1, Legals DEF transitionOk
    <3>. QED  BY <3>1, <3>2, <3>3, LawfulResults DEF Same
  <2>. HIDE DEF e, p, prior
  <2>5. mem'[e] = markDelivered(mem[e])
    BY <1>1, <1>5
  <2>6. CASE prior = {} /\ UNCHANGED <<rows, failedLast>>
    <3>1. \A x \in Exchanges : x # e => mem'[x] = mem[x] /\ row'[x] = row[x]
      BY <1>5, <2>6 DEF rows
    <3>2. \A x \in Exchanges : Agree(x)'
      <4>1. TAKE x \in Exchanges
      <4>2. CASE x = e
        BY <2>2, <2>3, <2>5, <2>6, <4>2 DEF Agree, rows
      <4>3. CASE x # e
        <5>1. Same(x)
          BY <1>1, <1>3, InStep
        <5>. QED  BY <2>2, <3>1, <4>3, <5>1 DEF Agree, Same
      <4>. QED  BY <4>2, <4>3
    <3>3. LawfulRows /\ LandedKept /\ FailuresTried
      BY <2>6 DEF LawfulRows, Lawful, LandedKept, FailuresTried, rows, Told, Recorded, Types, IInv
    <3>. QED  BY <1>1, <3>2, <3>3 DEF Faithful, Agreed
  <2>7. ASSUME NEW y \in prior,
               Persist(y, mem[y].state, transition(mem[y], "interrupted"), "exchange_recovered")
        PROVE  Faithful
    <3>0. y \in Exchanges /\ y # e /\ mem[y] = row[y] /\ prior = {y}
      BY <2>4
    <3>1. RowsBecome([row EXCEPT ![y] = transition(mem[y], "interrupted")]) /\ FailuresTried
      <4>1. row[y].state = mem[y].state
        BY <3>0
      <4>2. RowsBecome([row EXCEPT ![y] = transition(mem[y], "interrupted")])
        BY <2>7, <4>1 DEF Persist, Persisted
      <4>3. FailuresTried
        BY <1>1, <2>7, <3>0 DEF Persist, FailuresTried, Types
      <4>. QED  BY <4>2, <4>3
    <3>2. /\ mem'[y] = transition(mem[y], "interrupted") /\ row'[y] = mem'[y]
          /\ \A x \in Exchanges : x # e /\ x # y => mem'[x] = mem[x]
          /\ \A x \in Exchanges : x # y => row'[x] = row[x]
      BY <1>1, <1>5, <3>0, <3>1 DEF RowsBecome, Types
    <3>3. \A x \in Exchanges : Agree(x)'
      <4>1. TAKE x \in Exchanges
      <4>2. CASE x = e
        BY <1>1, <2>2, <2>3, <2>5, <3>0, <3>2, <4>2 DEF Agree
      <4>3. CASE x = y
        BY <2>2, <2>4, <3>0, <3>2, <4>3 DEF Agree, Same
      <4>4. CASE x # e /\ x # y
        <5>1. Same(x)
          BY <1>1, <1>3, InStep
        <5>. QED  BY <2>2, <3>2, <4>4, <5>1 DEF Agree, Same
      <4>. QED  BY <4>2, <4>3, <4>4
    <3>4. LawfulRows
      BY <2>4, <3>0, <3>2 DEF LawfulRows, Lawful
    <3>5. LandedKept
      BY <3>1 DEF RowsBecome, LandedKept
    <3>. QED  BY <1>1, <3>1, <3>3, <3>4, <3>5 DEF Faithful, Agreed
  <2>. QED  BY <1>5, <2>6, <2>7
<1>. QED  BY <1>4, <1>5 DEF Complete

\* The last task of each lane that writes ends its handler.
LEMMA Ends ==
  ASSUME IInv, NEW task \in {"record", "redelivered"}, Doing(task), Advance
  PROVE  turn' = Rest
<1>1. Types /\ Placed(turn.lane, turn.at, task)
  BY Places DEF IInv
<1>2. turn.at = Len(Lane[turn.lane])
  <2>1. CASE turn.lane = "voice"
    <3>1. turn.at = 6 /\ Len(Lane[turn.lane]) = 6
      BY <1>1, <2>1, LaneEnds DEF Placed
    <3>. QED  BY <3>1
  <2>2. CASE turn.lane = "workbench"
    <3>1. turn.at = 6 /\ Len(Lane[turn.lane]) = 6
      BY <1>1, <2>2, LaneEnds DEF Placed
    <3>. QED  BY <3>1
  <2>3. CASE turn.lane = "approve"
    <3>1. turn.at = 9 /\ Len(Lane[turn.lane]) = 9
      BY <1>1, <2>3, LaneEnds DEF Placed
    <3>. QED  BY <3>1
  <2>4. CASE turn.lane = "retry"
    <3>1. turn.at = 5 /\ Len(Lane[turn.lane]) = 5
      BY <1>1, <2>4, LaneEnds DEF Placed
    <3>. QED  BY <3>1
  <2>. QED  BY <1>1, <2>1, <2>2, <2>3, <2>4 DEF Placed
<1>. QED  BY <1>2 DEF Advance

\* The row of the delivery catches up.
LEMMA RecordFaithful ==
  ASSUME ~StoreFaults, Told, IInv, Record
  PROVE  Faithful
<1>0. PICK e \in Exchanges : e = turn.e
  BY Handled DEF Record, IInv
<1>1. /\ Doing("record") /\ turn' = Rest /\ Types /\ e \in Exchanges /\ proc = "up" /\ proc' = "up"
      /\ row[e] \in Good /\ mem[e] \in Good /\ UNCHANGED mem
      /\ Persist(e, "staged", mem[e], "delivery_succeeded")
  BY <1>0, Handled, Ends DEF Record, IInv, live, boot, Doing
<1>2. Behind(e)
  BY <1>0, <1>1, Places DEF Placed, Behind
<1>3. row[e].state = "staged" /\ row[e].attempt > 0 /\ mem[e] = markDelivered(row[e])
  BY <1>1, <1>2 DEF Told, Agreed, Agree
<1>4. Lawful(row[e], mem[e]) /\ mem[e].state = "delivered"
  BY <1>1, <1>3, LawfulResults
<1>5. RowsBecome([row EXCEPT ![e] = mem[e]]) /\ FailuresTried
  <2>1. RowsBecome([row EXCEPT ![e] = mem[e]])
    BY <1>1, <1>3 DEF Persist, Persisted
  <2>2. FailuresTried
    BY <1>1 DEF Persist, FailuresTried, Types
  <2>. QED  BY <2>1, <2>2
<1>6. \A x \in Exchanges : (x # e => ~Ahead(x)) /\ ~Ahead(x)'
  BY <1>0, <1>1 DEF Ahead, Behind, Untold, Rest
<1>7. row'[e] = mem[e] => Agree(e)'
  BY <1>1, <1>4, <1>6 DEF Agree, Same, Ahead
<1>. QED  BY <1>1, <1>3, <1>4, <1>5, <1>6, <1>7, RowAgree DEF Faithful

LEMMA RestageFaithful ==
  ASSUME Told, IInv, Stations, Restage
  PROVE  Faithful
<1>. DEFINE e == turn.e
            s == stageAutoExecute(row[e])
<1>1. /\ Doing("restage") /\ Advance /\ Types /\ e \in Exchanges /\ proc = "up" /\ proc' = "up"
      /\ row[e] \in Good /\ Both(e, s) /\ UNCHANGED failedLast
  BY Handled DEF Restage, IInv, boot, Doing, Both, Adopted
<1>2. turn.lane = "retry" /\ turn.at = 1 /\ row[e].state = "draft"
  BY <1>1, Places DEF Placed, Stations
<1>3. s \in Good /\ s.state = "staged" /\ Lawful(row[e], s)
  BY <1>1, <1>2, LawfulResults, Sources DEF stageAutoExecute, transitionOk
<1>4. \A x \in Exchanges : (x # e => ~Ahead(x)) /\ ~Ahead(x)'
  <2>1. turn' = Rest \/ (turn'.lane = "retry" /\ turn'.at = 2)
    BY <1>1, <1>2, Onward
  <2>. QED  BY <1>2, <2>1 DEF Ahead, Behind, Untold, Rest
<1>5. FailuresTried
  BY <1>1 DEF FailuresTried
<1>. QED  BY <1>1, <1>2, <1>3, <1>4, <1>5, BothAgree DEF Faithful

\* The row counts the attempt of the retry, and the machine is not told.
LEMMA ReattemptFaithful ==
  ASSUME Told, IInv, Stations, Reattempt
  PROVE  Faithful
<1>0. PICK e \in Exchanges : e = turn.e
  BY Handled DEF Reattempt, IInv
<1>. DEFINE s == markDeliveryAttempted(row[e])
<1>1. /\ Doing("reattempt") /\ Advance /\ Types /\ e \in Exchanges /\ proc = "up" /\ proc' = "up"
      /\ row[e] \in Good /\ UNCHANGED mem
      /\ RowsBecome([row EXCEPT ![e] = s])
      /\ failedLast' = [failedLast EXCEPT ![e] = "retry_initiated" = "delivery_failed"]
  BY <1>0, Handled DEF Reattempt, IInv, boot, Doing, Transit, live
<1>2. turn.lane = "retry" /\ turn.at = 2
  BY <1>1, Places DEF Placed
<1>3. row[e].state = "staged" /\ mem[e].state = "staged"
  BY <1>0, <1>2 DEF Stations
<1>4. row[e] = mem[e]
  <2>1. ~Ahead(e)
    BY <1>0, <1>2 DEF Ahead, Behind, Untold
  <2>. QED  BY <1>1, <1>3, <2>1, InStep DEF Same
<1>5. s \in Good /\ Lawful(row[e], s)
  BY <1>1, <1>3, LawfulResults
<1>6. turn'.lane = "retry" /\ turn'.e = e /\ turn'.at = 3
  <2>1. Len(Lane[turn.lane]) = 5
    BY <1>2, LaneEnds
  <2>2. turn.at # Len(Lane[turn.lane])
    BY <1>2, <2>1
  <2>. QED  BY <1>0, <1>1, <1>2, <2>2, Onward DEF Advance, Rest
<1>7. \A x \in Exchanges : x # e => ~Ahead(x) /\ ~Ahead(x)'
  BY <1>0, <1>6 DEF Ahead, Behind, Untold
<1>8. row'[e] = s => Agree(e)'
  BY <1>1, <1>4, <1>6 DEF Agree, Behind, Untold
<1>9. FailuresTried
  BY <1>1 DEF FailuresTried, Types
<1>. QED  BY <1>1, <1>3, <1>5, <1>7, <1>8, <1>9, RowAgree DEF Faithful

LEMMA RedeliveredFaithful ==
  ASSUME Told, IInv, Stations, Redelivered
  PROVE  Faithful
<1>. DEFINE e == turn.e
            s == markDelivered(row[e])
<1>1. /\ Doing("redelivered") /\ turn' = Rest /\ Types /\ e \in Exchanges
      /\ proc = "up" /\ proc' = "up" /\ row[e] \in Good /\ Both(e, s)
      /\ failedLast' = [failedLast EXCEPT ![e] = "delivery_succeeded" = "delivery_failed"]
  BY Handled, Ends DEF Redelivered, IInv, boot, Doing, Transit, Adopted, Both
<1>2. turn.lane = "retry" /\ turn.at = 5
  BY <1>1, Places DEF Placed
<1>3. row[e].state = "staged" /\ row[e].attempt > 0
  <2>1. row[e].attempt > 1 /\ row[e].attempt \in Nat
    BY <1>1, <1>2 DEF Told, Repeats, Good, Snapshot
  <2>. QED  BY <1>2, <2>1 DEF Stations
<1>4. s \in Good /\ s.state = "delivered" /\ Lawful(row[e], s)
  BY <1>1, <1>3, LawfulResults
<1>5. \A x \in Exchanges : (x # e => ~Ahead(x)) /\ ~Ahead(x)'
  BY <1>1 DEF Ahead, Behind, Untold, Rest
<1>6. FailuresTried
  BY <1>1 DEF FailuresTried, Types
<1>. QED  BY <1>1, <1>3, <1>4, <1>5, <1>6, BothAgree DEF Faithful

\* A follow-up is a row that no machine knows, and none in flight.
LEMMA InsertFaithful ==
  ASSUME Told, IInv, Stations, Insert
  PROVE  Faithful
<1>0. PICK e \in Exchanges : e = turn.e
  BY Handled DEF Insert, IInv
<1>1. /\ Doing("insert") /\ Advance /\ Types /\ e \in Exchanges /\ proc = "up" /\ proc' = "up"
      /\ UNCHANGED <<mem, failedLast>> /\ RowsBecome([row EXCEPT ![e] = create])
  BY <1>0, Handled DEF Insert, IInv, boot, Doing, live
<1>2. row[e].state = "absent" /\ mem[e].state = "absent" /\ paneOf'[e] # None
  <2>1. turn.lane = "followup" /\ turn.at = 1
    BY <1>1, Places DEF Placed
  <2>2. paneOf[turn.of] # None
    BY <1>1, <2>1 DEF Told, Repeats, Recorded, Types
  <2>. QED  BY <1>0, <1>1, <2>1, <2>2 DEF Insert, Types, Stations
<1>3. create \in Good /\ create.state \notin InFlight /\ Lawful(row[e], create)
  BY <1>2, GoodResults DEF Lawful, InFlight
<1>4. \A x \in Exchanges : ~Ahead(x) /\ ~Ahead(x)'
  BY <1>1, NotAhead DEF Lagging
<1>5. row'[e] = create => Agree(e)'
  BY <1>1, <1>2, <1>3, <1>4 DEF Agree, Same, Ahead
<1>6. FailuresTried
  BY <1>1 DEF FailuresTried
<1>. QED  BY <1>1, <1>2, <1>3, <1>4, <1>5, <1>6, RowAgree DEF Faithful

LEMMA TasksFaithful ==
  ASSUME ~StoreFaults, Told, IInv, Stations, Tasks
  PROVE  Faithful
<1>1. CASE Hold \/ Claim \/ Drop \/ DrainOne \/ Link
  <2>1. PICK task \in {"hold", "claim", "drop", "drain", "link"} :
          /\ Doing(task) /\ (Advance \/ UNCHANGED turn)
          /\ UNCHANGED <<mem, rows, failedLast, proc>>
    BY <1>1 DEF Hold, Claim, Drop, DrainOne, Link, live, boot
  <2>2. proc = "up" /\ \A x \in Exchanges : ~Ahead(x) /\ ~Ahead(x)'
    BY <2>1, NotAhead DEF Lagging
  <2>. QED  BY <2>1, <2>2, StillFaithful DEF Ahead, IInv
<1>. QED
  BY <1>1, CallTasksFaithful, HopFaithful, KickFaithful, WriteFaithful, WriteThrowsFaithful,
     CompleteFaithful, RecordFaithful, RestageFaithful, ReattemptFaithful,
     RedeliveredFaithful, InsertFaithful DEF Tasks

LEMMA CancelDurableFaithful ==
  ASSUME Told, IInv, NEW e \in Exchanges, CancelDurable(e)
  PROVE  Faithful
<1>. DEFINE s == transition(row[e], "cancelled")
<1>1. /\ Types /\ row[e] \in Good /\ Both(e, s) /\ proc = "up" /\ proc' = "up"
      /\ turn = Rest /\ UNCHANGED turn /\ row[e].state \in CANCELLABLE_STATES
      /\ failedLast' = [failedLast EXCEPT ![e] = "exchange_cancelled" = "delivery_failed"]
  BY DEF CancelDurable, IInv, Types, boot, Idle, Transit, Adopted, Both
<1>2. s \in Good /\ s.state = "cancelled" /\ Lawful(row[e], s) /\ row[e].state # "absent"
  BY <1>1, LawfulResults, Sources DEF transitionOk
<1>3. \A x \in Exchanges : ~Ahead(x) /\ ~Ahead(x)'
  BY <1>1 DEF Ahead, Behind, Untold, Rest
<1>4. FailuresTried
  BY <1>1 DEF FailuresTried, Types
<1>. QED  BY <1>1, <1>2, <1>3, <1>4, BothAgree DEF Faithful

LEMMA OperatorFaithful ==
  ASSUME Told, IInv, Operator
  PROVE  Faithful
<1>1. PICK e \in Exchanges, f \in Exchanges :
        \/ Approve(e) \/ Reject(e) \/ Drain(e) \/ Retry(e) \/ FollowUp(e, f)
        \/ CancelDurable(e)
  BY DEF Operator
<1>2. CASE CancelDurable(e)
  BY <1>2, CancelDurableFaithful
<1>3. CASE Approve(e) \/ Reject(e) \/ Drain(e) \/ Retry(e) \/ FollowUp(e, f)
  <2>1. Idle /\ UNCHANGED <<mem, rows, failedLast, proc>>
    BY <1>3 DEF Approve, Reject, Drain, Retry, FollowUp, FollowUpUnchecked, live, durable, boot
  <2>2. \E l, g, o : turn' = [lane |-> l, e |-> g, of |-> o, at |-> 1]
    BY <1>3 DEF Approve, Reject, Drain, Retry, FollowUp, FollowUpUnchecked, Start
  <2>. QED  BY <2>1, <2>2, StartFaithful
<1>. QED  BY <1>1, <1>2, <1>3

\* While the server is down or boots, the machine knows nothing.
LEMMA StillLawful ==
  ASSUME Told, Types, UNCHANGED <<rows, failedLast>>
  PROVE  LawfulRows /\ LandedKept /\ FailuresTried
  BY DEF LawfulRows, Lawful, LandedKept, FailuresTried, rows, Told, Recorded, Types

LEMMA RecoverFaithful ==
  ASSUME Told, IInv, NEW e \in Exchanges, RecoverRow(e)
  PROVE  Faithful
<1>1. /\ Types /\ proc = "boot" /\ UNCHANGED <<proc, mem>> /\ row[e] \in Good
      /\ toRecover' = toRecover \ {e}
  BY DEF RecoverRow, IInv, Types, live
<1>2. /\ \A x \in Exchanges : mem[x].state = "absent"
      /\ \A x \in Exchanges : row[x].state \in InFlight => x \in toRecover
  BY <1>1 DEF Told, Agreed
<1>3. CASE Kept(e) /\ UNCHANGED <<rows, failedLast>>
  <2>1. row[e].state \notin InFlight
    BY <1>3 DEF Kept, recoveryDisposition, InFlight
  <2>. QED  BY <1>1, <1>2, <1>3, <2>1, StillLawful DEF Faithful, Agreed, rows
<1>4. ASSUME NEW s \in Good, s.state \notin InFlight, s.state # "delivered", Lawful(row[e], s),
             Transit(e, s, "exchange_recovered"), row[e].state # "absent"
      PROVE  Faithful
  <2>1. row'[e] = s /\ \A x \in Exchanges : x # e => row'[x] = row[x]
    BY <1>1, <1>4 DEF Transit, RowsBecome, Types
  <2>2. Agreed'
    BY <1>1, <1>2, <1>4, <2>1 DEF Agreed
  <2>3. LawfulRows
    BY <1>4, <2>1 DEF LawfulRows, Lawful
  <2>4. LandedKept /\ FailuresTried
    BY <1>1, <1>4 DEF LandedKept, FailuresTried, Transit, RowsBecome, Types
  <2>. QED  BY <2>2, <2>3, <2>4 DEF Faithful
<1>5. CASE /\ row[e].state = "awaiting_approval"
           /\ Transit(e, Unbound(transition(row[e], "draft")), "exchange_recovered")
  <2>. DEFINE s == Unbound(transition(row[e], "draft"))
  <2>1. s \in Good /\ s.state = "draft" /\ Lawful(row[e], s)
    BY <1>1, <1>5, LawfulResults, Sources
    DEF markDeliveryFailedOk, markDeliveryFailed, transitionOk
  <2>2. s.state \notin InFlight /\ s.state # "delivered"
    BY <2>1 DEF InFlight
  <2>. QED  BY <1>4, <1>5, <2>1, <2>2
<1>6. CASE /\ row[e].state \in InFlight
           /\ Transit(e, transition(row[e], "interrupted"), "exchange_recovered")
  <2>. DEFINE s == transition(row[e], "interrupted")
  <2>1. /\ s \in Good /\ s.state = "interrupted" /\ Lawful(row[e], s)
        /\ row[e].state # "absent"
    BY <1>1, <1>6, LawfulResults, Sources DEF transitionOk
  <2>2. s.state \notin InFlight /\ s.state # "delivered"
    BY <2>1 DEF InFlight
  <2>. QED  BY <1>4, <1>6, <2>1, <2>2
<1>. QED  BY <1>3, <1>5, <1>6 DEF RecoverRow, Kept, recoveryDisposition

LEMMA RecoveryFaithful ==
  ASSUME Told, IInv, Crash \/ Recovery
  PROVE  Faithful
<1>0. Types
  BY DEF IInv
<1>1. CASE Crash
  <2>1. UNCHANGED <<rows, failedLast>> /\ proc' = "down" /\ \A x \in Exchanges : mem'[x] = Absent
    BY <1>1 DEF Crash, durable
  <2>. QED  BY <1>0, <2>1, StillLawful DEF Faithful, Agreed, Absent
<1>2. CASE Boot
  <2>1. /\ UNCHANGED <<rows, failedLast, mem>> /\ proc = "down" /\ proc' = "boot"
        /\ \A x \in Exchanges : row[x].state \in InFlight => x \in toRecover'
    BY <1>2 DEF Boot, durable, live
  <2>. QED  BY <1>0, <2>1, StillLawful DEF Faithful, Agreed, Told, rows
<1>3. CASE BootDone
  <2>1. /\ UNCHANGED <<rows, failedLast, mem, turn>> /\ proc = "boot" /\ proc' = "up"
        /\ toRecover = {} /\ turn = Rest
    BY <1>3 DEF BootDone, durable, IInv, TurnOK
  <2>2. \A x \in Exchanges : mem[x].state = "absent" /\ row[x].state \notin InFlight
    BY <2>1 DEF Told, Agreed
  <2>3. \A x \in Exchanges : Agree(x)'
    BY <2>1, <2>2 DEF Agree, Same, Behind, Untold, Rest, rows
  <2>. QED  BY <1>0, <2>1, <2>3, StillLawful DEF Faithful, Agreed
<1>. QED  BY <1>1, <1>2, <1>3, RecoverFaithful DEF Recovery

LEMMA StepFaithful ==
  ASSUME ~StoreFaults, Told, IInv, Stations, [Next]_vars
  PROVE  Faithful
<1>1. CASE Mints
  BY <1>1, MintFaithful DEF Mints, DispatchAuto, DispatchHeld, DispatchRefused, WorkbenchSend
<1>2. CASE Pane
  BY <1>2, PaneFaithful DEF Pane
<1>3. CASE UNCHANGED vars
  <2>1. UNCHANGED <<proc, toRecover, turn, mem, rows, failedLast>> /\ Types
    BY <1>3 DEF vars, boot, live, durable, IInv
  <2>2. Agreed'
    <3>1. \A x \in Exchanges : Agree(x)' <=> Agree(x)
      BY <2>1 DEF Agree, Same, Behind, Untold, rows
    <3>. QED  BY <2>1, <3>1 DEF Told, Agreed, rows
  <2>. QED  BY <2>1, <2>2, StillLawful DEF Faithful
<1>. QED
  BY <1>1, <1>2, <1>3, TasksFaithful, OperatorFaithful, RecoveryFaithful DEF Next

-----------------------------------------------------------------------------
(* What a row remembers.                                                   *)

\* The moves of the law, for what the rows are asked.
LEMMA LawfulKeeps ==
  ASSUME NEW r \in Good, NEW s \in Good, Lawful(r, s), r.state = "absent" => r.attempt = 0
  PROVE  /\ s.attempt >= r.attempt
         /\ r.state # "absent" => s.state # "absent"
         /\ s.state = "absent" => s.attempt = 0
         /\ r.state \in Past => s.state \in Past
<1>0. r.attempt \in Nat /\ s.attempt \in Nat /\ create.attempt = 0 /\ create.state = "draft"
  BY DEF Good, Snapshot, create
<1>1. CASE s = r
  BY <1>0, <1>1
<1>2. CASE r.state = "absent" /\ s = create
  BY <1>0, <1>2 DEF Past
<1>3. CASE isLegalTransition(r.state, s.state) /\ s.state # "delivered" /\ s.attempt = r.attempt
  <2>1. r.state # "absent" /\ s.state # "absent"
    BY <1>3, Legals
  <2>2. r.state \in Past => s.state \in Past
    BY <1>3 DEF isLegalTransition, LEGAL_TRANSITIONS, InFlight, CANCELLABLE_STATES,
                EXCHANGE_STATES, TERMINAL_STATES, Past
  <2>. QED  BY <1>0, <1>3, <2>1, <2>2
<1>4. CASE r.state = "staged" /\ s.state = "staged" /\ s.attempt = r.attempt + 1
  BY <1>0, <1>4
<1>5. CASE r.state = "staged" /\ s.state = "delivered" /\ r.attempt > 0 /\ s.attempt = r.attempt
  BY <1>0, <1>5 DEF Past
<1>. QED  BY <1>1, <1>2, <1>3, <1>4, <1>5 DEF Lawful

\* An exchange keeps the pane it was made for.
PanesKept == \A x \in Exchanges : paneOf[x] # None => paneOf'[x] = paneOf[x]

LEMMA PanesKeep ==
  ASSUME IInv, [Next]_vars
  PROVE  PanesKept
<1>1. CASE Mints
  BY <1>1 DEF Mints, DispatchAuto, DispatchHeld, DispatchRefused, WorkbenchSend, Mint, PanesKept,
              IInv, Types
<1>2. CASE Tasks
  <2>1. CASE Insert
    <3>1. Types /\ paneOf[turn.e] = None /\ turn.e \in Exchanges
      BY <2>1, Handled, Places DEF Insert, Placed, IInv, TurnOK
    <3>. QED  BY <2>1, <3>1 DEF Insert, Types, PanesKept
  <2>2. CASE Hold \/ Request \/ Claim \/ Drop \/ DrainOne \/ Confirm \/ Cancel \/ Stage \/ Attempt
             \/ Kick \/ SettleReport
    BY <2>2 DEF Hold, Request, Claim, Drop, DrainOne, Confirm, Cancel, Stage, Attempt, Kick,
                SettleReport, Hop, besidesMirror, PanesKept
  <2>3. CASE Write \/ WriteThrows \/ Complete \/ Record \/ Restage \/ Reattempt \/ Redelivered \/ Link
    BY <2>3 DEF Write, WriteThrows, Complete, Record, Restage, Reattempt, Redelivered, Link,
                durable, PanesKept
  <2>. QED  BY <1>2, <2>1, <2>2, <2>3 DEF Tasks
<1>3. CASE Operator
  BY <1>3 DEF Operator, Approve, Reject, Drain, Retry, FollowUp, FollowUpUnchecked, CancelDurable,
              durable, PanesKept
<1>4. CASE Pane
  BY <1>4 DEF Pane, PaneSignal, Report, LegacyReport, ManualCommand, WriteAround, PaneStarts, PaneExits,
              besidesMirror, durable, PanesKept
<1>5. CASE Crash \/ Recovery \/ UNCHANGED vars
  BY <1>5 DEF Crash, Recovery, Boot, RecoverRow, BootDone, vars, durable, PanesKept
<1>. QED  BY <1>1, <1>2, <1>3, <1>4, <1>5 DEF Next

\* A lane that records its attempt has recorded it when it writes.
LanesTried ==
  \A x \in Exchanges : lane'[x] \in TwoPhased => lane[x] \in TwoPhased \/ row[x].attempt > 0

LEMMA WriteTried ==
  ASSUME Told, IInv, Stations, Write
  PROVE  LanesTried
<1>1. /\ Doing("write") /\ Types /\ turn.e \in Exchanges /\ proc = "up"
      /\ mem[turn.e] \in Good /\ row[turn.e] \in Good
  BY Handled DEF Write, IInv, Doing
<1>2. \/ turn.lane = "voice"
      \/ turn.lane = "workbench" /\ turn.at = 4
      \/ turn.lane = "approve" /\ turn.at = 7
      \/ turn.lane = "retry" /\ turn.at = 4
  BY <1>1, Places DEF Placed
<1>3. turn.lane = "workbench" \/ (turn.lane = "approve" /\ mem[turn.e].state = "staged") =>
        row[turn.e].attempt > 0
  <2>1. SUFFICES ASSUME turn.lane = "workbench" \/ (turn.lane = "approve" /\ mem[turn.e].state = "staged")
                 PROVE  row[turn.e].attempt > 0
    OBVIOUS
  <2>2. ~Ahead(turn.e)
    BY <1>2, <2>1 DEF Ahead, Behind, Untold
  <2>3. mem[turn.e].state = "staged" /\ mem[turn.e].attempt > 0
    BY <1>2, <2>1 DEF Stations
  <2>. QED  BY <1>1, <2>2, <2>3, InStep DEF Same
<1>4. turn.lane = "retry" => row[turn.e].attempt > 0
  <2>1. row[turn.e].attempt \in Nat
    BY <1>1 DEF Good, Snapshot
  <2>. QED  BY <1>2, <2>1 DEF Told, Repeats
<1>5. /\ \A x \in Exchanges : x # turn.e => lane'[x] = lane[x]
      /\ \/ lane'[turn.e] = lane[turn.e]
         \/ lane'[turn.e] = IF turn.lane = "approve" /\ mem[turn.e].state # "staged"
                            THEN "uncovered" ELSE turn.lane
  BY DEF Write, Uncovers
<1>6. lane'[turn.e] \in TwoPhased => lane[turn.e] \in TwoPhased \/ row[turn.e].attempt > 0
  BY <1>2, <1>3, <1>4, <1>5 DEF TwoPhased
<1>. QED  BY <1>5, <1>6 DEF LanesTried

LEMMA LanesAreTried ==
  ASSUME Told, IInv, Stations, [Next]_vars
  PROVE  LanesTried
<1>1. CASE Write
  BY <1>1, WriteTried
<1>2. CASE Mints \/ Operator
  BY <1>2 DEF Mints, DispatchAuto, DispatchHeld, DispatchRefused, WorkbenchSend, Mint,
              Operator, Approve, Reject, Drain, Retry, FollowUp, FollowUpUnchecked, CancelDurable,
              history, LanesTried
<1>3. CASE Hold \/ Request \/ Claim \/ Drop \/ DrainOne \/ Confirm \/ Cancel \/ Stage \/ Attempt
           \/ Kick \/ SettleReport
  BY <1>3 DEF Hold, Request, Claim, Drop, DrainOne, Confirm, Cancel, Stage, Attempt, Kick,
              SettleReport, Hop, besidesMirror, history, LanesTried
<1>4. CASE WriteThrows \/ Complete \/ Record \/ Restage \/ Reattempt \/ Redelivered \/ Insert \/ Link
  BY <1>4 DEF WriteThrows, Complete, Record, Restage, Reattempt, Redelivered, Insert, Link,
              history, LanesTried
<1>5. CASE Pane
  BY <1>5 DEF Pane, PaneSignal, Report, LegacyReport, ManualCommand, WriteAround, PaneStarts, PaneExits,
              besidesMirror, history, LanesTried
<1>6. CASE Crash \/ Recovery \/ UNCHANGED vars
  BY <1>6 DEF Crash, Recovery, Boot, RecoverRow, BootDone, vars, history, LanesTried
<1>. QED  BY <1>1, <1>2, <1>3, <1>4, <1>5, <1>6 DEF Next, Tasks

LEMMA RecordedStep ==
  ASSUME Told, IInv, IInv', Faithful, PanesKept, LanesTried
  PROVE  \A x \in Exchanges : Recorded(x)'
<1>1. TAKE x \in Exchanges
<1>2. row[x] \in Good /\ row'[x] \in Good
  BY DEF IInv, Types
<1>3. Recorded(x) /\ Lawful(row[x], row'[x])
  BY DEF Told, Faithful, LawfulRows
<1>4. /\ row'[x].attempt >= row[x].attempt
      /\ row[x].state # "absent" => row'[x].state # "absent"
      /\ row'[x].state = "absent" => row'[x].attempt = 0
      /\ row[x].state \in Past => row'[x].state \in Past
  BY <1>2, <1>3, LawfulKeeps DEF Recorded
<1>5. row'[x].state # "absent" => paneOf'[x] # None
  BY <1>3 DEF Faithful, LawfulRows, PanesKept, Recorded
<1>6. lane'[x] \in TwoPhased \/ failedLast'[x] => row'[x].attempt > 0
  <2>1. row[x].attempt > 0 => row'[x].attempt > 0
    BY <1>2, <1>4 DEF Good, Snapshot
  <2>. QED  BY <1>3, <2>1 DEF LanesTried, Faithful, FailuresTried, Recorded
<1>7. row'[x].state = "delivered" => x \in landed'
  BY DEF Faithful, LandedKept
<1>8. x \in landed' => row'[x].state \in Past
  BY <1>3, <1>4 DEF Faithful, LandedKept, Recorded, Past
<1>. QED  BY <1>4, <1>5, <1>6, <1>7, <1>8 DEF Recorded

\* How the running handler changes in a step.
LEMMA TurnSteps ==
  ASSUME [Next]_vars
  PROVE  \/ turn' = Rest
         \/ UNCHANGED turn
         \/ \E l, e : turn' = [lane |-> l, e |-> e, of |-> None, at |-> 1] /\ l # "followup"
                      /\ (l = "retry" => Retry(e))
         \/ \E e, f \in Exchanges : FollowUp(e, f)
         \/ \E task : Doing(task) /\ Advance /\ (task = "reattempt" => Reattempt)
<1>1. CASE Mints
  BY <1>1 DEF Mints, DispatchAuto, DispatchHeld, DispatchRefused, WorkbenchSend, Start
<1>2. CASE Operator
  BY <1>2 DEF Operator, Approve, Reject, Drain, Retry, Start, CancelDurable
<1>3. CASE Pane
  BY <1>3 DEF Pane, PaneSignal, Report, LegacyReport, ManualCommand, WriteAround, PaneStarts, PaneExits, Start
<1>4. CASE Crash \/ Recovery \/ UNCHANGED vars
  BY <1>4 DEF Crash, Recovery, Boot, RecoverRow, BootDone, vars
<1>5. CASE Tasks
  <2>1. CASE Reattempt
    BY <2>1 DEF Reattempt
  <2>2. CASE SettleReport
    BY <2>2 DEF SettleReport, Hop
  <2>3. CASE Hold \/ Request \/ Claim \/ Drop \/ DrainOne \/ Confirm \/ Cancel \/ Stage \/ Attempt
    BY <2>3 DEF Hold, Request, Claim, Drop, DrainOne, Confirm, Cancel, Stage, Attempt
  <2>4. CASE Kick \/ Write \/ WriteThrows \/ Complete \/ Record \/ Restage \/ Redelivered \/ Insert \/ Link
    BY <2>4 DEF Kick, Write, WriteThrows, Complete, Record, Restage, Redelivered, Insert, Link
  <2>. QED  BY <1>5, <2>1, <2>2, <2>3, <2>4 DEF Tasks
<1>. QED  BY <1>1, <1>2, <1>3, <1>4, <1>5 DEF Next

LEMMA RepeatsStep ==
  ASSUME Told, IInv, IInv', Faithful, [Next]_vars
  PROVE  Repeats'
<1>0. \A x \in Exchanges :
        /\ row[x] \in Good /\ row'[x] \in Good
        /\ row[x].attempt \in Nat /\ row'[x].attempt \in Nat
        /\ row'[x].attempt >= row[x].attempt
        /\ row[x].state # "absent" => row'[x].state # "absent"
  <2>1. TAKE x \in Exchanges
  <2>2. row[x] \in Good /\ row'[x] \in Good /\ Recorded(x) /\ Lawful(row[x], row'[x])
    BY DEF IInv, Types, Told, Faithful, LawfulRows
  <2>3. row[x].attempt \in Nat /\ row'[x].attempt \in Nat
    BY <2>2 DEF Good, Snapshot
  <2>. QED  BY <2>2, <2>3, LawfulKeeps DEF Recorded
<1>1. CASE turn' = Rest
  BY <1>1 DEF Rest, Repeats
<1>2. CASE UNCHANGED turn
  <2>1. turn = Rest \/ (turn.e \in Exchanges /\ (turn.lane = "followup" => turn.of \in Exchanges))
    BY DEF IInv, Types, Turns
  <2>2. turn = Rest => Repeats'
    BY <1>2 DEF Rest, Repeats
  <2>. QED  BY <1>0, <1>2, <2>1, <2>2 DEF Told, Repeats
<1>3. ASSUME NEW l, NEW e, turn' = [lane |-> l, e |-> e, of |-> None, at |-> 1], l # "followup",
             l = "retry" => Retry(e)
      PROVE  Repeats'
  <2>1. l = "retry" => row[e].attempt > 0 /\ e \in Exchanges
    <3>1. SUFFICES ASSUME l = "retry"
                   PROVE  row[e].attempt > 0 /\ e \in Exchanges
      OBVIOUS
    <3>2. e \in Exchanges
      BY <1>3, <3>1 DEF IInv, Types, Turns, Rest
    <3>. QED  BY <1>3, <3>1, <3>2 DEF Retry, RetryEligible, Told, Recorded
  <2>. QED  BY <1>0, <1>3, <2>1 DEF Repeats
<1>4. ASSUME NEW e \in Exchanges, NEW f \in Exchanges, FollowUp(e, f)
      PROVE  Repeats'
  BY <1>0, <1>4 DEF FollowUp, FollowUpUnchecked, Repeats
<1>5. ASSUME NEW task, Doing(task), Advance, task = "reattempt" => Reattempt, turn' # Rest
      PROVE  Repeats'
  <2>1. /\ turn \in Turns /\ turn.e \in Exchanges /\ turn.at \in Nat /\ turn.at # 0
        /\ Placed(turn.lane, turn.at, task) /\ Types
    BY <1>5, Places DEF IInv, Turns
  <2>2. turn'.lane = turn.lane /\ turn'.e = turn.e /\ turn'.of = turn.of /\ turn'.at = turn.at + 1
    BY <1>5, <2>1, Onward
  <2>3. turn.lane = "followup" => row'[turn.of].state # "absent"
    BY <1>0, <2>1 DEF Told, Repeats, Types
  <2>4. CASE turn.lane = "retry" /\ turn.at = 2
    <3>1. Reattempt
      BY <1>5, <2>1, <2>4 DEF Placed
    <3>2. row'[turn.e] = markDeliveryAttempted(row[turn.e])
      BY <2>1, <3>1 DEF Reattempt, Transit, RowsBecome, Types
    <3>3. row'[turn.e].attempt = row[turn.e].attempt + 1
      BY <1>0, <2>1, <3>2 DEF markDeliveryAttempted, Good, Snapshot
    <3>4. row[turn.e].attempt > 0
      BY <2>4 DEF Told, Repeats
    <3>. QED  BY <1>0, <2>1, <2>2, <2>4, <3>3, <3>4 DEF Repeats
  <2>5. CASE turn.lane = "retry" /\ turn.at # 2
    BY <1>0, <2>1, <2>2, <2>5 DEF Told, Repeats
  <2>6. CASE turn.lane # "retry"
    BY <2>2, <2>3, <2>6 DEF Repeats
  <2>. QED  BY <2>4, <2>5, <2>6
<1>. QED  BY <1>1, <1>2, <1>3, <1>4, <1>5, TurnSteps

LEMMA ToldStep ==
  ASSUME ~StoreFaults, Told, Inv, Inv', [Next]_vars
  PROVE  Told' /\ Faithful
<1>1. Faithful
  BY StepFaithful DEF Inv
<1>2. \A x \in Exchanges : Recorded(x)'
  BY <1>1, RecordedStep, PanesKeep, LanesAreTried DEF Inv
<1>3. Repeats'
  BY <1>1, RepeatsStep DEF Inv
<1>. QED  BY <1>1, <1>2, <1>3 DEF Told, Faithful

LEMMA InitTold ==
  ASSUME Init
  PROVE  Told
<1>1. \A x \in Exchanges : row[x] = Absent /\ mem[x] = Absent
  BY DEF Init
<1>2. \A x \in Exchanges : Agree(x)
  BY <1>1 DEF Init, Agree, Same, Behind, Untold, Rest, Absent, InFlight
<1>3. \A x \in Exchanges : Recorded(x)
  BY <1>1 DEF Init, Recorded, Absent, TwoPhased
<1>. QED  BY <1>2, <1>3 DEF Init, Told, Agreed, Repeats, Rest

\* Machine and rows keep what they are told, when the store loses nothing.
THEOREM ToldAlways ==
  ASSUME ~StoreFaults
  PROVE  Spec => [](Inv /\ Told)
<1>1. Init => Inv /\ Told
  BY InitInv, InitTold
<1>2. Inv /\ Told /\ [Next]_vars => Inv' /\ Told'
  <2>1. Inv /\ [Next]_vars => Inv'
    BY InvStep, StationStep DEF Inv
  <2>. QED  BY <2>1, ToldStep
<1>. QED  BY <1>1, <1>2, PTL DEF Spec

\* Between handlers machine and rows say the same, and no row in flight is without a
\* machine, over any number of crashes and retries of any number of exchanges.
THEOREM MirrorAgreement ==
  ASSUME ~StoreFaults
  PROVE  Spec => []MirrorAgrees
<1>1. Inv /\ Told => MirrorAgrees
  BY RestNotAhead, InStep DEF MirrorAgrees, Idle, Same
<1>. QED  BY <1>1, ToldAlways, PTL

\* Where a two-phase lane has written, the row shows the attempt.
THEOREM IntentIsRecorded ==
  ASSUME ~StoreFaults
  PROVE  Spec => []IntentBeforeWrite
<1>1. Inv /\ Told => IntentBeforeWrite
  BY DEF Told, Recorded, TwoPhased, IntentBeforeWrite
<1>. QED  BY <1>1, ToldAlways, PTL

-----------------------------------------------------------------------------
(* The rows implement the law of the exchange.                             *)

\* A lawful move of a row is a step of the law, delivered only once.
LEMMA LawStepOf ==
  ASSUME Told, Types, Types', Faithful, NEW x \in Exchanges
  PROVE  Law!LawStep(x)
<1>. DEFINE r == row[x]
            s == row'[x]
            f == [e \in Exchanges |-> row[e].state]
            g == [e \in Exchanges |-> row[e].attempt > 0]
            h == [e \in Exchanges |-> e \in landed]
<1>1. /\ f[x] = r.state /\ f'[x] = s.state
      /\ g[x] = (r.attempt > 0) /\ g'[x] = (s.attempt > 0)
      /\ h[x] = (x \in landed) /\ h'[x] = (x \in landed')
  OBVIOUS
<1>2. Lawful(r, s) /\ Recorded(x) /\ r.attempt \in Nat /\ s.attempt \in Nat
  BY DEF Told, Faithful, LawfulRows, Types, Good, Snapshot
<1>3. x \in landed' <=> x \in landed \/ s.state = "delivered"
  BY DEF Faithful, LandedKept
<1>. HIDE DEF r, s, f, g, h
<1>4. CASE s = r
  <2>1. (x \in landed') = (x \in landed) /\ (s.attempt > 0) = (r.attempt > 0)
    BY <1>2, <1>3, <1>4 DEF Recorded, r
  <2>2. Law!Stays(x)
    BY <1>1, <1>4, <2>1, Zenon DEF Law!Stays, f, g, h
  <2>. QED  BY <2>2 DEF Law!LawStep
<1>5. CASE r.state = "absent" /\ s = create
  <2>1. s.state = "draft" /\ ~(s.attempt > 0) /\ ~(r.attempt > 0)
    BY <1>2, <1>5 DEF create, Recorded, r
  <2>2. (x \in landed') = (x \in landed) /\ (s.attempt > 0) = (r.attempt > 0)
    BY <1>3, <2>1
  <2>3. Law!Appears(x)
    BY <1>1, <1>5, <2>1, <2>2, Zenon DEF Law!Appears, f, g, h
  <2>. QED  BY <2>3 DEF Law!LawStep
<1>6. CASE isLegalTransition(r.state, s.state) /\ s.state # "delivered" /\ s.attempt = r.attempt
  <2>1. (x \in landed') = (x \in landed) /\ (s.attempt > 0) = (r.attempt > 0)
    BY <1>3, <1>6
  <2>2. Law!isLegalTransition(r.state, s.state)
    BY <1>6
    DEF Law!isLegalTransition, isLegalTransition,
        Law!LEGAL_TRANSITIONS, LEGAL_TRANSITIONS, Law!InFlight, InFlight,
        Law!CANCELLABLE_STATES, CANCELLABLE_STATES,
        Law!EXCHANGE_STATES, EXCHANGE_STATES, Law!TERMINAL_STATES, TERMINAL_STATES
  <2>3. Law!Moves(x)
    BY <1>1, <1>6, <2>1, <2>2, Zenon DEF Law!Moves, f, g, h
  <2>. QED  BY <2>3 DEF Law!LawStep
<1>7. CASE r.state = "staged" /\ s.state = "staged" /\ s.attempt = r.attempt + 1
  <2>1. s.attempt > 0 /\ (x \in landed') = (x \in landed)
    BY <1>2, <1>3, <1>7
  <2>2. Law!Arms(x)
    BY <1>1, <1>7, <2>1, Zenon DEF Law!Arms, f, g, h
  <2>. QED  BY <2>2 DEF Law!LawStep
<1>8. CASE r.state = "staged" /\ s.state = "delivered" /\ r.attempt > 0 /\ s.attempt = r.attempt
  <2>1. s.attempt > 0 /\ x \in landed' /\ x \notin landed
    BY <1>2, <1>3, <1>8 DEF Recorded, Past, r
  <2>2. Law!Delivers(x)
    BY <1>1, <1>8, <2>1, Zenon DEF Law!Delivers, f, g, h
  <2>. QED  BY <2>2 DEF Law!LawStep
<1>. QED  BY <1>2, <1>4, <1>5, <1>6, <1>7, <1>8 DEF Lawful

\* The rows, which outlive every crash, implement the law of the exchange: legal moves
\* only, delivered at most once, after a recorded attempt.
THEOREM RowsImplementLaw ==
  ASSUME ~StoreFaults
  PROVE  Spec => RowsObeyLaw
<1>1. Init => Law!LawInit
  <2>. SUFFICES ASSUME Init
                PROVE  Law!LawInit
    OBVIOUS
  <2>1. ASSUME NEW e \in Exchanges
        PROVE  /\ row[e].state = "absent" /\ (row[e].attempt > 0) = FALSE
               /\ (e \in landed) = FALSE
    BY DEF Init, Absent
  <2>2. [e \in Exchanges |-> row[e].state] = [e \in Exchanges |-> "absent"]
    BY <2>1
  <2>3. [e \in Exchanges |-> row[e].attempt > 0] = [e \in Exchanges |-> FALSE]
    BY <2>1, Zenon
  <2>4. [e \in Exchanges |-> e \in landed] = [e \in Exchanges |-> FALSE]
    BY <2>1, Zenon
  <2>. QED  BY <2>2, <2>3, <2>4 DEF Law!LawInit
<1>2. (Inv /\ Told) /\ (Inv /\ Told)' /\ [Next]_vars => [Law!LawNext]_(Law!lawVars)
  <2>. SUFFICES ASSUME Inv, Told, Inv', [Next]_vars
                PROVE  Law!LawNext
    OBVIOUS
  <2>1. Faithful
    BY ToldStep
  <2>2. \A e \in Exchanges : Law!LawStep(e)
    BY <2>1, LawStepOf DEF Inv, IInv
  <2>. QED  BY <2>2 DEF Law!LawNext
<1>. QED  BY <1>1, <1>2, ToldAlways, PTL DEF Spec, RowsObeyLaw, Law!LawSpec

-----------------------------------------------------------------------------
(* A pane works for one exchange at a time.                                *)

LEMMA RowCancelled ==
  ASSUME Types, NEW e \in Exchanges
  PROVE  transition(row[e], "cancelled").state = "cancelled"
<1>1. row[e] \in Snapshot
  BY DEF Types, Good
<1>. QED  BY <1>1 DEF transition, Snapshot

\* Nothing takes the pane, and nothing becomes busy.
Quiet ==
  /\ UNCHANGED paneActive
  /\ \A x \in Exchanges : mem'[x].state \in Busy => mem[x].state \in Busy

LEMMA QuietMove ==
  ASSUME Types, NEW e \in Exchanges, NEW s, mem' = [mem EXCEPT ![e] = s] \/ UNCHANGED mem,
         UNCHANGED paneActive, s.state \in Busy => mem[e].state \in Busy
  PROVE  Quiet
  BY DEF Quiet, Types

LEMMA QuietCall ==
  ASSUME Types, NEW e \in Exchanges, NEW ok, NEW s, NEW event, Call(e, ok, s, event),
         UNCHANGED paneActive, ok => (s.state \in Busy => mem[e].state \in Busy)
  PROVE  Quiet
<1>1. CASE ok /\ mem' = [mem EXCEPT ![e] = s]
  BY <1>1, QuietMove
<1>2. CASE UNCHANGED mem
  BY <1>2 DEF Quiet
<1>. QED  BY <1>1, <1>2 DEF Call, Mirror

\* The moves of an exchange at work start from one at work, but for the delivery.
LEMMA QuietTransition ==
  ASSUME Types, NEW e \in Exchanges, NEW to, to # "delivered",
         \/ UNCHANGED mem
         \/ /\ transitionOk(mem[e], to)
            /\ mem' = [mem EXCEPT ![e] = transition(mem[e], to)],
         UNCHANGED paneActive
  PROVE  Quiet
<1>1. CASE UNCHANGED mem
  BY <1>1 DEF Quiet
<1>2. CASE /\ transitionOk(mem[e], to)
           /\ mem' = [mem EXCEPT ![e] = transition(mem[e], to)]
  <2>1. transition(mem[e], to).state = to
    BY <1>2, MachineMoves
  <2>2. to \in Busy => mem[e].state \in Busy
    BY <1>2, Sources DEF transitionOk, Busy, InFlight
  <2>. QED  BY <1>2, <2>1, <2>2, QuietMove
<1>. QED  BY <1>1, <1>2

LEMMA ResumesQuiet ==
  ASSUME Types, NEW p \in Panes, Resumes(p), UNCHANGED paneActive
  PROVE  Quiet
<1>1. CASE UNCHANGED mem
  BY <1>1 DEF Quiet
<1>2. CASE /\ paneActive[p] # None /\ transitionOk(mem[paneActive[p]], "running")
           /\ Mirror(paneActive[p], transition(mem[paneActive[p]], "running"), "terminal_running")
  <2>1. paneActive[p] \in Exchanges
    BY <1>2 DEF Types
  <2>. QED  BY <1>2, <2>1, QuietTransition DEF Mirror
<1>. QED  BY <1>1, <1>2 DEF Resumes

LEMMA CallTasksQuiet ==
  ASSUME IInv, Request \/ Confirm \/ Cancel \/ Stage \/ Attempt
  PROVE  Quiet
<1>0. Types /\ turn.e \in Exchanges /\ mem[turn.e] \in Good /\ UNCHANGED paneActive
  BY Handled DEF IInv, Request, Confirm, Cancel, Stage, Attempt, besidesMirror
<1>1. CASE Request
  <2>1. requestApprovalOk(mem[turn.e]) =>
          requestApproval(mem[turn.e], turn.e).state = "awaiting_approval"
    BY <1>0, SpineAssumption, LawfulRequest
  <2>. QED  BY <1>0, <1>1, <2>1, QuietCall DEF Request, Busy, InFlight
<1>2. CASE Confirm
  <2>1. confirmApproval(mem[turn.e]).state = "staged"
    <3>1. mem[turn.e] \in Snapshot
      BY <1>0 DEF Good
    <3>. QED  BY <3>1 DEF confirmApproval, transition, Snapshot
  <2>. QED  BY <1>0, <1>2, <2>1, QuietCall DEF Confirm, Busy
<1>3. CASE Cancel
  BY <1>0, <1>3, QuietTransition DEF Cancel, Call, Mirror
<1>4. CASE Stage
  BY <1>0, <1>4, QuietTransition DEF Stage, Call, Mirror, stageAutoExecuteOk, stageAutoExecute
<1>5. CASE Attempt
  <2>1. markDeliveryAttempted(mem[turn.e]).state = mem[turn.e].state
    BY <1>0, Results DEF Good
  <2>. QED  BY <1>0, <1>5, <2>1, QuietCall DEF Attempt
<1>. QED  BY <1>1, <1>2, <1>3, <1>4, <1>5

LEMMA WriteThrowsQuiet ==
  ASSUME IInv, WriteThrows
  PROVE  Quiet
<1>0. Types /\ turn.e \in Exchanges /\ mem[turn.e] \in Good /\ row[turn.e] \in Good
  BY Handled DEF IInv, WriteThrows
<1>1. CASE turn.lane = "workbench"
  <2>1. markDeliveryFailedOk(mem[turn.e]) => markDeliveryFailed(mem[turn.e]).state = "draft"
    BY <1>0, LawfulResults
  <2>2. /\ UNCHANGED paneActive
        /\ Call(turn.e, markDeliveryFailedOk(mem[turn.e]), markDeliveryFailed(mem[turn.e]),
                "delivery_failed")
    BY <1>1 DEF WriteThrows
  <2>. QED  BY <1>0, <2>1, <2>2, QuietCall DEF Busy, InFlight
<1>2. CASE turn.lane = "retry"
  <2>1. markDeliveryFailed(row[turn.e]).state = "draft"
    BY <1>0, Results DEF Good
  <2>2. /\ UNCHANGED paneActive
        /\ mem' = [mem EXCEPT ![turn.e] = markDeliveryFailed(row[turn.e])]
    BY <1>2, <2>1 DEF WriteThrows, Adopted, Bound, InFlight
  <2>. QED  BY <1>0, <2>1, <2>2, QuietMove DEF Busy, InFlight
<1>3. CASE turn.lane \notin {"workbench", "retry"}
  BY <1>3 DEF WriteThrows, Quiet
<1>. QED  BY <1>1, <1>2, <1>3

LEMMA PaneQuiet ==
  ASSUME IInv, NEW p \in Panes,
         \/ \E kind \in DOMAIN SignalTarget : PaneSignal(p, kind)
         \/ \E outcome \in {"failed", "complete", "needsInput"} : Report(p, outcome)
         \/ LegacyReport(p) \/ ManualCommand(p) \/ WriteAround(p) \/ PaneStarts(p) \/ PaneExits(p)
  PROVE  Quiet
<1>0. Types
  BY DEF IInv
<1>1. UNCHANGED paneActive
  BY DEF PaneSignal, Report, LegacyReport, ManualCommand, WriteAround, PaneStarts, PaneExits,
         besidesMirror, live
<1>2. ASSUME NEW to, to # "delivered", paneActive[p] # None, transitionOk(mem[paneActive[p]], to),
             mem' = [mem EXCEPT ![paneActive[p]] = transition(mem[paneActive[p]], to)]
      PROVE  Quiet
  <2>1. paneActive[p] \in Exchanges
    BY <1>0, <1>2 DEF Types
  <2>. QED  BY <1>0, <1>1, <1>2, <2>1, QuietTransition
<1>3. ASSUME NEW kind \in DOMAIN SignalTarget, PaneSignal(p, kind)
      PROVE  Quiet
  <2>1. SignalTarget[kind] # "delivered"
    BY DEF SignalTarget
  <2>. QED  BY <1>2, <1>3, <2>1 DEF PaneSignal, Mirror
<1>4. ASSUME NEW outcome, Report(p, outcome)
      PROVE  Quiet
  BY <1>1, <1>2, <1>4 DEF Report, Mirror, Quiet
<1>5. CASE ManualCommand(p) \/ WriteAround(p)
  BY <1>0, <1>1, <1>5, ResumesQuiet DEF ManualCommand, WriteAround
<1>6. CASE LegacyReport(p) \/ PaneStarts(p) \/ PaneExits(p)
  BY <1>6 DEF LegacyReport, PaneStarts, PaneExits, live, Quiet
<1>. QED  BY <1>3, <1>4, <1>5, <1>6

\* What takes a pane, or makes an exchange busy.
LEMMA QuietSteps ==
  ASSUME Inv, [Next]_vars
  PROVE  Quiet \/ Complete \/ Restage \/ Redelivered \/ Crash
<1>0. Types
  BY DEF Inv, IInv
<1>1. CASE Mints
  <2>1. PICK e \in Exchanges : mem' = [mem EXCEPT ![e] = create] /\ UNCHANGED paneActive
    BY <1>1 DEF Mints, DispatchAuto, DispatchHeld, DispatchRefused, WorkbenchSend, Mint
  <2>2. create.state \notin Busy
    BY DEF create, Busy, InFlight
  <2>. QED  BY <1>0, <2>1, <2>2, QuietMove
<1>2. CASE Tasks
  <2>1. CASE Hold \/ Claim \/ Drop \/ DrainOne \/ Write \/ Record \/ Reattempt \/ Insert \/ Link
    BY <2>1 DEF Hold, Claim, Drop, DrainOne, Write, Record, Reattempt, Insert, Link, live, Quiet
  <2>2. CASE Kick
    <3>1. paneOf[turn.e] \in Panes
      <4>1. turn.lane \in Writing
        BY <2>2, Places DEF Kick, Placed, Writing, Inv, IInv
      <4>. QED  BY <4>1, OnPane DEF Inv
    <3>. QED  BY <1>0, <2>2, <3>1, ResumesQuiet DEF Kick, besidesMirror
  <2>3. CASE SettleReport
    <3>1. ASSUME NEW task, NEW needed, NEW to, NEW event, to # "delivered",
                 Hop(task, needed, to, event)
          PROVE  Quiet
      <4>1. turn.e \in Exchanges
        BY <3>1, Handled DEF Hop, Inv
      <4>. QED  BY <1>0, <3>1, <4>1, QuietTransition DEF Hop, Mirror, besidesMirror
    <3>. QED  BY <2>3, <3>1 DEF SettleReport
  <2>. QED
    BY <1>2, <2>1, <2>2, <2>3, CallTasksQuiet, WriteThrowsQuiet DEF Tasks, Inv
<1>3. CASE Operator
  <2>1. PICK e \in Exchanges, f \in Exchanges :
          \/ Approve(e) \/ Reject(e) \/ Drain(e) \/ Retry(e) \/ FollowUp(e, f)
          \/ CancelDurable(e)
    BY <1>3 DEF Operator
  <2>2. CASE CancelDurable(e)
    <3>1. transition(row[e], "cancelled").state = "cancelled"
      BY <1>0, RowCancelled
    <3>2. /\ UNCHANGED paneActive
          /\ mem' = [mem EXCEPT ![e] = transition(row[e], "cancelled")]
      BY <2>2, <3>1 DEF CancelDurable, Adopted, Bound, InFlight
    <3>. QED  BY <1>0, <3>1, <3>2, QuietMove DEF Busy, InFlight
  <2>. QED
    BY <2>1, <2>2 DEF Approve, Reject, Drain, Retry, FollowUp, FollowUpUnchecked, live, Quiet
<1>4. CASE Pane
  BY <1>4, PaneQuiet DEF Pane, Inv
<1>5. CASE Recovery \/ UNCHANGED vars
  BY <1>5 DEF Recovery, Boot, RecoverRow, BootDone, vars, live, Quiet
<1>. QED  BY <1>1, <1>2, <1>3, <1>4, <1>5 DEF Next

-----------------------------------------------------------------------------

\* What is busy was made for a pane, and stays with it.
LEMMA BusyOnPane ==
  ASSUME Told, Types, NEW x \in Exchanges, mem[x].state \in Busy
  PROVE  proc = "up" /\ paneOf[x] \in Panes /\ row[x].state # "absent"
<1>1. proc = "up"
  BY DEF Told, Agreed, Types, Busy, InFlight
<1>2. row[x].state # "absent"
  <2>1. CASE Behind(x)
    BY <1>1, <2>1 DEF Told, Agreed, Agree
  <2>2. CASE ~Behind(x) /\ Untold(x)
    <3>1. row[x] = markDeliveryAttempted(mem[x]) /\ mem[x] \in Good
      BY <1>1, <2>2 DEF Told, Agreed, Agree, Types
    <3>. QED  BY <3>1, Results DEF Good, Busy, InFlight
  <2>3. CASE ~Behind(x) /\ ~Untold(x)
    BY <1>1, <2>3 DEF Told, Agreed, Agree, Same, Busy, InFlight
  <2>. QED  BY <2>1, <2>2, <2>3
<1>. QED  BY <1>1, <1>2 DEF Told, Recorded, Types

LEMMA RetriedStays ==
  ASSUME Told, Types, Types', Faithful, PanesKept
  PROVE  \A p \in Panes : Retried(p) => Retried(p)'
<1>1. SUFFICES ASSUME NEW p \in Panes, NEW e \in Exchanges, paneOf[e] = p, row[e].attempt > 1
               PROVE  Retried(p)'
  BY DEF Retried
<1>2. /\ row[e] \in Good /\ row'[e] \in Good /\ Recorded(e) /\ Lawful(row[e], row'[e])
      /\ row[e].attempt \in Nat /\ row'[e].attempt \in Nat
  BY DEF Types, Told, Faithful, LawfulRows, Good, Snapshot
<1>3. row'[e].attempt > 1
  <2>1. row'[e].attempt >= row[e].attempt
    BY <1>2, LawfulKeeps DEF Recorded
  <2>. QED  BY <1>1, <1>2, <2>1
<1>4. paneOf'[e] = p
  BY <1>1, SpineAssumption DEF PanesKept
<1>. QED  BY <1>3, <1>4 DEF Retried

\* The pane of x stays with x, or was or is retried on.
Holding(x) ==
  \/ paneActive[paneOf[x]] = x
  \/ Retried(paneOf[x])
  \/ Retaking(paneOf[x])

Alone(x, y) == x = y \/ Retried(paneOf[x])

LEMMA OnePerPaneParts ==
  OnePerPane <=>
    \A x \in Exchanges : mem[x].state \in Busy =>
      /\ Holding(x)
      /\ \A y \in Exchanges : mem[y].state \in Busy /\ paneOf[y] = paneOf[x] => Alone(x, y)
  BY DEF OnePerPane, Holding, Alone

\* When nothing becomes busy, the pane's exchanges stay apart if their pane stays theirs.
LEMMA QuietPerPane ==
  ASSUME OnePerPane, Told, Types, Types', Faithful, PanesKept,
         \A x \in Exchanges : mem'[x].state \in Busy => mem[x].state \in Busy,
         \A x \in Exchanges : mem[x].state \in Busy /\ Holding(x) => Holding(x)'
  PROVE  OnePerPane'
<1>1. SUFFICES ASSUME NEW x \in Exchanges, mem'[x].state \in Busy
               PROVE  /\ Holding(x)'
                      /\ \A y \in Exchanges :
                           mem'[y].state \in Busy /\ paneOf'[y] = paneOf'[x] => Alone(x, y)'
  BY DEF OnePerPane, Holding, Alone
<1>2. mem[x].state \in Busy /\ Holding(x)
  BY <1>1, OnePerPaneParts
<1>3. paneOf[x] \in Panes /\ paneOf'[x] = paneOf[x]
  BY <1>2, BusyOnPane, SpineAssumption DEF PanesKept
<1>4. ASSUME NEW y \in Exchanges, mem'[y].state \in Busy, paneOf'[y] = paneOf'[x]
      PROVE  Alone(x, y)'
  <2>1. mem[y].state \in Busy
    BY <1>4
  <2>2. paneOf'[y] = paneOf[y]
    BY <2>1, BusyOnPane, SpineAssumption DEF PanesKept
  <2>3. Alone(x, y)
    BY <1>2, <1>3, <1>4, <2>1, <2>2, OnePerPaneParts
  <2>4. Retried(paneOf[x]) => Retried(paneOf[x])'
    <3>1. PICK p \in Panes : p = paneOf[x] /\ p = paneOf'[x]
      BY <1>3
    <3>2. Retried(p) => Retried(p)'
      BY RetriedStays
    <3>. QED  BY <3>1, <3>2 DEF Retried
  <2>. QED  BY <2>3, <2>4 DEF Alone
<1>. QED  BY <1>2, <1>4

\* A retry that has taken the pane counts its attempt next.
LEMMA RetakingStep ==
  ASSUME Inv, [Next]_vars, turn.lane = "retry", turn.at = 2
  PROVE  Reattempt \/ Crash \/ UNCHANGED turn
<1>0. turn # Rest /\ proc = "up" /\ Types
  BY DEF Inv, IInv, TurnOK, Rest
<1>1. ASSUME NEW task, Doing(task), task # "reattempt"
      PROVE  FALSE
  BY <1>0, <1>1, Places DEF Placed
<1>2. CASE Tasks
  <2>1. CASE Reattempt
    BY <2>1
  <2>2. CASE SettleReport
    BY <1>1, <2>2 DEF SettleReport, Hop
  <2>3. CASE Hold \/ Request \/ Claim \/ Drop \/ DrainOne \/ Confirm \/ Cancel \/ Stage \/ Attempt
    BY <1>1, <2>3 DEF Hold, Request, Claim, Drop, DrainOne, Confirm, Cancel, Stage, Attempt
  <2>4. CASE Kick \/ Write \/ WriteThrows \/ Complete \/ Record \/ Restage \/ Redelivered \/ Insert \/ Link
    BY <1>1, <2>4 DEF Kick, Write, WriteThrows, Complete, Record, Restage, Redelivered, Insert, Link
  <2>. QED  BY <1>2, <2>1, <2>2, <2>3, <2>4 DEF Tasks
<1>3. CASE Mints \/ Operator \/ Pane
  BY <1>0, <1>3 DEF Mints, DispatchAuto, DispatchHeld, DispatchRefused, WorkbenchSend, Mint,
     Operator, Approve, Reject, Drain, Retry, FollowUp, FollowUpUnchecked, CancelDurable,
     Pane, PaneSignal, Report, LegacyReport, ManualCommand, WriteAround, PaneStarts, PaneExits, Idle
<1>4. CASE Recovery \/ UNCHANGED vars
  BY <1>4 DEF Recovery, Boot, RecoverRow, BootDone, vars
<1>. QED  BY <1>2, <1>3, <1>4 DEF Next

LEMMA QuietHolds ==
  ASSUME Told, Told', Inv, Inv', Faithful, PanesKept, [Next]_vars, ~Crash, UNCHANGED paneActive
  PROVE  \A x \in Exchanges : mem[x].state \in Busy /\ Holding(x) => Holding(x)'
<1>0. Types /\ Types'
  BY DEF Inv, IInv
<1>1. SUFFICES ASSUME NEW x \in Exchanges, mem[x].state \in Busy, Holding(x)
               PROVE  Holding(x)'
  OBVIOUS
<1>2. PICK p \in Panes : p = paneOf[x] /\ p = paneOf'[x]
  BY <1>0, <1>1, BusyOnPane, SpineAssumption DEF PanesKept
<1>3. CASE paneActive[p] = x
  BY <1>2, <1>3 DEF Holding
<1>4. CASE Retried(p)
  <2>1. Retried(p)'
    BY <1>0, <1>4, RetriedStays
  <2>. QED  BY <1>2, <2>1 DEF Holding, Retried
<1>5. CASE Retaking(p)
  <2>1. turn.lane = "retry" /\ turn.at = 2 /\ paneOf[turn.e] = p /\ turn.e \in Exchanges
    BY <1>0, <1>5, SpineAssumption DEF Retaking, Types, Turns, Rest
  <2>2. paneOf'[turn.e] = p
    BY <2>1, SpineAssumption DEF PanesKept
  <2>3. CASE UNCHANGED turn
    BY <1>2, <2>1, <2>2, <2>3 DEF Holding, Retaking
  <2>4. CASE Reattempt
    <3>1. turn'.lane = "retry" /\ turn'.e = turn.e /\ turn'.at = 3
      <4>1. Len(Lane[turn.lane]) = 5
        BY <2>1, LaneEnds
      <4>2. turn.at # Len(Lane[turn.lane])
        BY <2>1, <4>1
      <4>. QED  BY <1>0, <2>1, <2>4, <4>2, Onward DEF Reattempt, Advance, Rest
    <3>2. row'[turn.e].attempt > 1
      BY <3>1 DEF Told, Repeats
    <3>3. Retried(p)'
      BY <2>1, <2>2, <3>2 DEF Retried
    <3>. QED  BY <1>2, <3>3 DEF Holding, Retried
  <2>. QED  BY <2>1, <2>3, <2>4, RetakingStep
<1>. QED  BY <1>1, <1>2, <1>3, <1>4, <1>5 DEF Holding

\* A retry takes the pane of whatever was busy on it.
LEMMA RestageHolds ==
  ASSUME Told, Told', Inv, Inv', Faithful, PanesKept, Restage
  PROVE  /\ \A x \in Exchanges : mem'[x].state \in Busy => mem[x].state \in Busy
         /\ \A x \in Exchanges : mem[x].state \in Busy /\ Holding(x) => Holding(x)'
<1>0. /\ Types /\ Types' /\ Doing("restage") /\ Advance
  BY DEF Inv, IInv, Restage
<1>1. PICK e \in Exchanges : e = turn.e
  BY Handled DEF Restage, Inv
<1>2. turn.lane = "retry" /\ turn.at = 1 /\ row[e].state = "draft" /\ row[e] \in Good
  BY <1>0, <1>1, Places DEF Placed, Inv, Stations, Types
<1>3. stageAutoExecute(row[e]).state = "staged"
  <2>1. "staged" \in EXCHANGE_STATES
    BY DEF EXCHANGE_STATES
  <2>. QED  BY <1>2, <2>1, GoodResults DEF stageAutoExecute
<1>4. /\ mem' = [mem EXCEPT ![e] = stageAutoExecute(row[e])]
      /\ paneActive' = [paneActive EXCEPT ![paneOf[e]] = e]
  BY <1>1, <1>3 DEF Restage, Adopted, Bound, InFlight
<1>5. \A x \in Exchanges : mem'[x].state \in Busy => mem[x].state \in Busy
  BY <1>0, <1>3, <1>4 DEF Types, Busy
<1>6. turn'.lane = "retry" /\ turn'.at = 2 /\ turn'.e = e
  <2>1. Len(Lane[turn.lane]) = 5
    BY <1>2, LaneEnds
  <2>2. turn.at # Len(Lane[turn.lane])
    BY <1>2, <2>1
  <2>. QED  BY <1>0, <1>1, <1>2, <2>2, Onward DEF Advance, Rest
<1>7. paneOf'[e] = paneOf[e] /\ paneOf[e] \in Panes
  BY <1>1, <1>2, OnPane, SpineAssumption DEF Inv, Writing, PanesKept
<1>8. ASSUME NEW x \in Exchanges, mem[x].state \in Busy, Holding(x)
      PROVE  Holding(x)'
  <2>1. PICK p \in Panes : p = paneOf[x] /\ p = paneOf'[x]
    BY <1>0, <1>8, BusyOnPane, SpineAssumption DEF PanesKept
  <2>2. CASE p = paneOf[e]
    BY <1>6, <1>7, <2>1, <2>2 DEF Holding, Retaking
  <2>3. CASE p # paneOf[e] /\ paneActive[p] = x
    BY <1>0, <1>4, <2>1, <2>3 DEF Holding, Types
  <2>4. CASE Retried(p)
    <3>1. Retried(p)'
      BY <1>0, <2>4, RetriedStays
    <3>. QED  BY <2>1, <3>1 DEF Holding, Retried
  <2>. QED  BY <1>2, <1>8, <2>1, <2>2, <2>3, <2>4 DEF Holding, Retaking
<1>. QED  BY <1>5, <1>8

\* On a pane where a retry was attempted nothing is asked; elsewhere all stays.
LEMMA RedeliveredPerPane ==
  ASSUME OnePerPane, Told, Told', Inv, Inv', Faithful, PanesKept, Redelivered
  PROVE  OnePerPane'
<1>0. Types /\ Types' /\ Doing("redelivered")
  BY DEF Inv, IInv, Redelivered
<1>1. PICK e \in Exchanges : e = turn.e
  BY Handled DEF Redelivered, Inv
<1>2. turn.lane = "retry" /\ turn.at = 5
  BY <1>0, Places DEF Placed
<1>3. PICK p \in Panes : p = paneOf[e] /\ p = paneOf'[e]
  BY <1>1, <1>2, OnPane, SpineAssumption DEF Inv, Writing, PanesKept
<1>4. Retried(p)'
  <2>1. row[e].attempt > 1
    <3>1. row[turn.e].attempt > IF turn.at > 2 THEN 1 ELSE 0
      BY <1>2 DEF Told, Repeats
    <3>. QED  BY <1>1, <1>2, <3>1
  <2>2. Retried(p)
    BY <1>3, <2>1 DEF Retried
  <2>. QED  BY <1>0, <2>2, RetriedStays
<1>5. /\ \A x \in Exchanges : x # e => mem'[x] = mem[x]
      /\ \A q \in Panes : q # p => paneActive'[q] = paneActive[q]
  BY <1>0, <1>1, <1>3 DEF Redelivered, Adopted, Bound, Types
<1>6. ASSUME NEW x \in Exchanges, mem'[x].state \in Busy
      PROVE  /\ Holding(x)'
             /\ \A y \in Exchanges :
                  mem'[y].state \in Busy /\ paneOf'[y] = paneOf'[x] => Alone(x, y)'
  <2>1. PICK q \in Panes : q = paneOf'[x]
    <3>1. CASE x = e
      BY <1>3, <3>1
    <3>2. CASE x # e
      <4>1. mem[x].state \in Busy
        BY <1>5, <1>6, <3>2
      <4>2. paneOf[x] \in Panes
        BY <1>0, <4>1, BusyOnPane
      <4>. QED  BY <4>2, SpineAssumption DEF PanesKept
    <3>. QED  BY <3>1, <3>2
  <2>2. CASE q = p
    BY <1>4, <2>1, <2>2 DEF Holding, Alone, Retried
  <2>3. CASE q # p
    <3>1. x # e /\ mem[x].state \in Busy
      BY <1>3, <1>5, <1>6, <2>1, <2>3
    <3>2. paneOf[x] = q /\ Holding(x)
      BY <1>0, <2>1, <3>1, BusyOnPane, OnePerPaneParts, SpineAssumption DEF PanesKept
    <3>3. Holding(x)'
      <4>1. CASE paneActive[q] = x
        BY <1>5, <2>1, <2>3, <4>1 DEF Holding
      <4>2. CASE Retried(q)
        <5>1. Retried(q)'
          BY <1>0, <4>2, RetriedStays
        <5>. QED  BY <2>1, <5>1 DEF Holding, Retried
      <4>. QED  BY <1>2, <3>2, <4>1, <4>2 DEF Holding, Retaking
    <3>4. ASSUME NEW y \in Exchanges, mem'[y].state \in Busy, paneOf'[y] = paneOf'[x]
          PROVE  Alone(x, y)'
      <4>1. y # e /\ mem[y].state \in Busy
        BY <1>3, <1>5, <2>1, <2>3, <3>4
      <4>2. paneOf[y] = q
        BY <1>0, <2>1, <3>4, <4>1, BusyOnPane, SpineAssumption DEF PanesKept
      <4>3. x = y \/ Retried(q)
        BY <3>1, <3>2, <4>1, <4>2, OnePerPaneParts DEF Alone
      <4>4. Retried(q) => Retried(q)'
        BY <1>0, RetriedStays
      <4>. QED  BY <2>1, <4>3, <4>4 DEF Alone, Retried
    <3>. QED  BY <3>3, <3>4
  <2>. QED  BY <2>2, <2>3
<1>. QED  BY <1>6 DEF OnePerPane, Holding, Alone

\* A delivery interrupts what its pane was doing.
LEMMA CompletePerPane ==
  ASSUME OnePerPane, Told, Told', Inv, Inv', Faithful, PanesKept, Complete, [Next]_vars
  PROVE  OnePerPane'
<1>0. Types /\ Types' /\ Doing("complete") /\ UNCHANGED paneOf
  BY DEF Inv, IInv, Complete
<1>1. PICK e \in Exchanges : e = turn.e
  BY Handled DEF Complete, Inv
<1>2. turn.lane # "retry" /\ turn.lane \in Writing
  BY <1>0, Places DEF Placed, Writing
<1>3. PICK p \in Panes : p = paneOf[e]
  BY <1>1, <1>2, OnPane DEF Inv
<1>4. CASE UNCHANGED <<mem, paneActive>>
  <2>1. \A x \in Exchanges : mem[x].state \in Busy /\ Holding(x) => Holding(x)'
    <3>1. ~Crash
      BY <1>0 DEF Crash, Complete, boot, Doing
    <3>. QED  BY <1>4, <3>1, QuietHolds
  <2>. QED  BY <1>0, <1>4, <2>1, QuietPerPane
<1>5. CASE /\ paneActive' = [paneActive EXCEPT ![p] = e]
           /\ mem' = [x \in Exchanges |->
                 IF x = e THEN markDelivered(mem[e])
                 ELSE IF x \in Superseded(e, p) THEN transition(mem[x], "interrupted") ELSE mem[x]]
  <2>1. ASSUME NEW y \in Exchanges, y # e, mem'[y].state \in Busy
        PROVE  mem'[y] = mem[y] /\ y \notin Superseded(e, p)
    <3>1. y \in Superseded(e, p) => mem'[y].state = "interrupted"
      <4>1. SUFFICES ASSUME y \in Superseded(e, p)
                     PROVE  mem'[y].state = "interrupted"
        OBVIOUS
      <4>2. transitionOk(mem[y], "interrupted")
        BY <4>1 DEF Superseded
      <4>3. mem'[y] = transition(mem[y], "interrupted")
        BY <1>5, <2>1, <4>1
      <4>. QED  BY <1>0, <4>2, <4>3, MachineMoves
    <3>. QED  BY <1>5, <2>1, <3>1 DEF Busy, InFlight
  <2>2. ASSUME NEW y \in Exchanges, y # e, mem'[y].state \in Busy, paneOf[y] = p
        PROVE  Retried(p)'
    <3>1. mem[y].state \in Busy /\ y \notin Superseded(e, p)
      BY <2>1, <2>2
    <3>2. paneActive[p] # y
      <4>1. transitionOk(mem[y], "interrupted")
        BY <3>1, Sources DEF transitionOk, Busy
      <4>2. y # None
        BY SpineAssumption
      <4>. QED  BY <2>2, <3>1, <4>1, <4>2 DEF Superseded
    <3>3. Retried(p)
      BY <1>2, <2>2, <3>1, <3>2, OnePerPaneParts DEF Holding, Retaking
    <3>. QED  BY <1>0, <3>3, RetriedStays
  <2>3. ASSUME NEW x \in Exchanges, mem'[x].state \in Busy
        PROVE  /\ Holding(x)'
               /\ \A y \in Exchanges :
                    mem'[y].state \in Busy /\ paneOf'[y] = paneOf'[x] => Alone(x, y)'
    <3>1. PICK q \in Panes : q = paneOf'[x] /\ q = paneOf[x]
      <4>1. CASE x = e
        BY <1>0, <1>3, <4>1
      <4>2. CASE x # e
        <5>1. mem[x].state \in Busy
          BY <2>1, <2>3, <4>2
        <5>2. paneOf[x] \in Panes
          BY <1>0, <5>1, BusyOnPane
        <5>. QED  BY <1>0, <5>2
      <4>. QED  BY <4>1, <4>2
    <3>2. CASE x = e
      <4>1. Holding(x)'
        BY <1>0, <1>3, <1>5, <3>2 DEF Holding, Types
      <4>2. ASSUME NEW y \in Exchanges, mem'[y].state \in Busy, paneOf'[y] = paneOf'[x]
            PROVE  Alone(x, y)'
        <5>1. y = e \/ Retried(p)'
          BY <1>0, <1>3, <2>2, <3>2, <4>2
        <5>. QED  BY <1>0, <1>3, <3>2, <5>1 DEF Alone, Retried
      <4>. QED  BY <4>1, <4>2
    <3>3. CASE x # e /\ q = p
      <4>1. Retried(p)'
        BY <2>2, <2>3, <3>1, <3>3
      <4>. QED  BY <3>1, <3>3, <4>1 DEF Holding, Alone, Retried
    <3>4. CASE x # e /\ q # p
      <4>1. mem[x].state \in Busy
        BY <2>1, <2>3, <3>4
      <4>2. Holding(x)'
        <5>1. CASE paneActive[q] = x
          BY <1>0, <1>5, <3>1, <3>4, <5>1 DEF Holding, Types
        <5>2. CASE Retried(q)
          <6>1. Retried(q)'
            BY <1>0, <5>2, RetriedStays
          <6>. QED  BY <3>1, <6>1 DEF Holding, Retried
        <5>. QED  BY <1>2, <3>1, <4>1, <5>1, <5>2, OnePerPaneParts DEF Holding, Retaking
      <4>3. ASSUME NEW y \in Exchanges, mem'[y].state \in Busy, paneOf'[y] = paneOf'[x]
            PROVE  Alone(x, y)'
        <5>1. y # e /\ paneOf[y] = q
          BY <1>0, <1>3, <3>1, <3>4, <4>3
        <5>2. mem[y].state \in Busy
          BY <2>1, <4>3, <5>1
        <5>3. x = y \/ Retried(q)
          BY <3>1, <4>1, <5>1, <5>2, OnePerPaneParts DEF Alone
        <5>4. Retried(q) => Retried(q)'
          BY <1>0, RetriedStays
        <5>. QED  BY <3>1, <5>3, <5>4 DEF Alone, Retried
      <4>. QED  BY <4>2, <4>3
    <3>. QED  BY <3>2, <3>3, <3>4
  <2>. QED  BY <2>3 DEF OnePerPane, Holding, Alone
<1>. QED  BY <1>1, <1>3, <1>4, <1>5 DEF Complete

LEMMA OnePerPaneStep ==
  ASSUME ~StoreFaults, OnePerPane, Told, Inv, Inv', [Next]_vars
  PROVE  OnePerPane'
<1>0. Told' /\ Faithful /\ PanesKept /\ Types /\ Types'
  BY ToldStep, PanesKeep DEF Inv, IInv
<1>1. CASE Complete
  BY <1>0, <1>1, CompletePerPane
<1>2. CASE Redelivered
  BY <1>0, <1>2, RedeliveredPerPane
<1>3. CASE Restage
  <2>1. /\ \A x \in Exchanges : mem'[x].state \in Busy => mem[x].state \in Busy
        /\ \A x \in Exchanges : mem[x].state \in Busy /\ Holding(x) => Holding(x)'
    BY <1>0, <1>3, RestageHolds
  <2>. QED  BY <1>0, <2>1, QuietPerPane
<1>4. CASE Crash
  BY <1>4 DEF Crash, Absent, OnePerPane, Busy, InFlight
<1>5. CASE Quiet /\ ~Crash
  BY <1>0, <1>5, QuietHolds, QuietPerPane DEF Quiet
<1>. QED  BY <1>1, <1>2, <1>3, <1>4, <1>5, QuietSteps

\* A pane works for one exchange at a time, unless a retry was attempted on it.
THEOREM OneAtATime ==
  ASSUME ~StoreFaults
  PROVE  Spec => []OneInFlightPerPane
<1>1. Init => OnePerPane
  BY DEF Init, OnePerPane, Absent, Busy, InFlight
<1>2. OnePerPane /\ (Inv /\ Told) /\ (Inv /\ Told)' /\ [Next]_vars => OnePerPane'
  BY OnePerPaneStep
<1>3. OnePerPane => OneInFlightPerPane
  <2>. SUFFICES ASSUME OnePerPane, NEW p \in Panes,
                       ~\E e \in Exchanges : paneOf[e] = p /\ row[e].attempt > 1
                PROVE  Cardinality(Outstanding(p)) <= 1
    BY DEF OneInFlightPerPane
  <2>1. \A x, y \in Outstanding(p) : x = y
    BY DEF Outstanding, OnePerPane, Busy, Retried
  <2>2. CASE Outstanding(p) = {}
    BY <2>2, FS_EmptySet
  <2>3. ASSUME NEW x \in Outstanding(p)
        PROVE  Cardinality(Outstanding(p)) <= 1
    <3>1. Outstanding(p) = {x}
      BY <2>1, <2>3
    <3>2. Cardinality({x}) = 1
      BY FS_Singleton
    <3>. QED  BY <3>1, <3>2
  <2>. QED  BY <2>2, <2>3
<1>. QED  BY <1>1, <1>2, <1>3, ToldAlways, PTL DEF Spec

-----------------------------------------------------------------------------
(* One open follow-up, whatever the store loses.                           *)

\* A follow-up that has not been sent: no machine moves it, nothing makes it retried.
Parked(f) ==
  /\ row[f].state \in {"draft", "cancelled"}
  /\ mem[f].state \in {"absent", "cancelled"}
  /\ ~failedLast[f]

Linked(f) ==
  /\ row[f].state = "absent" => followUpOf[f] = None
  /\ followUpOf[f] # None => Parked(f)

OpensOne ==
  /\ \A e \in Exchanges : \A f, g \in OpenFollowUps(e) : f = g
  /\ turn.lane = "retry" => followUpOf[turn.e] = None
  /\ turn.lane = "followup" =>
       followUpOf[turn.e] = None /\ OpenFollowUps(turn.of) = {} /\ ~failedLast[turn.e]

FollowsUp == (\A f \in Exchanges : Linked(f)) /\ OpensOne

\* A snapshot that is parked accepts no move.
LEMMA ParkedRefuses ==
  ASSUME NEW s, s.state \in {"absent", "cancelled"}
  PROVE  /\ \A to : to # "cancelled" => ~transitionOk(s, to)
         /\ ~transitionOk(s, "cancelled")
  BY DEF transitionOk, isLegalTransition, LEGAL_TRANSITIONS, InFlight, CANCELLABLE_STATES,
         EXCHANGE_STATES, TERMINAL_STATES

\* What happens to another exchange leaves it parked.
LEMMA ParkedByPersist ==
  ASSUME Types, NEW x \in Exchanges, Parked(x), NEW e \in Exchanges, e # x, NEW from, NEW s,
         NEW event, Persist(e, from, s, event), mem'[x].state \in {"absent", "cancelled"}
  PROVE  Parked(x)'
<1>1. row'[x] = row[x] /\ failedLast'[x] = failedLast[x]
  BY DEF Persist, Persisted, RowsBecome, Types
<1>. QED  BY <1>1 DEF Parked

LEMMA ParkedByMirror ==
  ASSUME Types, NEW x \in Exchanges, Parked(x), NEW e \in Exchanges, e # x, NEW s, NEW event,
         Mirror(e, s, event)
  PROVE  Parked(x)'
<1>1. mem'[x] = mem[x] /\ Persist(e, mem[e].state, s, event)
  BY DEF Mirror, Types
<1>. QED  BY <1>1, ParkedByPersist DEF Parked

LEMMA ParkedByTransit ==
  ASSUME Types, NEW x \in Exchanges, Parked(x), NEW e \in Exchanges, e # x, NEW s, NEW event,
         Transit(e, s, event), mem' = Adopted(e, s) \/ UNCHANGED mem
  PROVE  Parked(x)'
<1>1. row'[x] = row[x] /\ failedLast'[x] = failedLast[x] /\ mem'[x] = mem[x]
  BY DEF Transit, RowsBecome, Adopted, Types
<1>. QED  BY <1>1 DEF Parked

LEMMA ParkedByCall ==
  ASSUME Types, NEW x \in Exchanges, Parked(x), NEW e \in Exchanges, NEW ok, ok => e # x, NEW s,
         NEW event, Call(e, ok, s, event)
  PROVE  Parked(x)'
<1>1. CASE ok /\ Mirror(e, s, event)
  BY <1>1, ParkedByMirror
<1>2. CASE UNCHANGED <<mem, rows, failedLast>>
  BY <1>2 DEF Parked, rows
<1>. QED  BY <1>1, <1>2 DEF Call

\* An accepted move is one of another exchange.
LEMMA ParkedByMove ==
  ASSUME Types, NEW x \in Exchanges, Parked(x), NEW e \in Exchanges, NEW to, NEW event,
         \/ UNCHANGED <<mem, rows, failedLast>>
         \/ transitionOk(mem[e], to) /\ Mirror(e, transition(mem[e], to), event)
  PROVE  Parked(x)'
<1>1. CASE UNCHANGED <<mem, rows, failedLast>>
  BY <1>1 DEF Parked, rows
<1>2. CASE transitionOk(mem[e], to) /\ Mirror(e, transition(mem[e], to), event)
  <2>1. e # x
    BY <1>2, ParkedRefuses DEF Parked
  <2>. QED  BY <1>2, <2>1, ParkedByMirror
<1>. QED  BY <1>1, <1>2

LEMMA ParkedByTasks ==
  ASSUME Inv, NEW x \in Exchanges, Parked(x), turn.lane = "retry" => turn.e # x, Tasks
  PROVE  Parked(x)'
<1>0. Types /\ Stations
  BY DEF Inv, IInv
<1>1. ASSUME NEW task, Doing(task)
      PROVE  turn.e \in Exchanges /\ Placed(turn.lane, turn.at, task)
  BY <1>0, <1>1, Handled, Places DEF Inv
<1>2. CASE Hold \/ Claim \/ Drop \/ DrainOne \/ Write \/ Link
  BY <1>2 DEF Hold, Claim, Drop, DrainOne, Write, Link, live, durable, rows, Parked
<1>3. CASE Request \/ Confirm \/ Cancel \/ Stage \/ Attempt
  <2>1. /\ ~requestApprovalOk(mem[x]) /\ ~transitionOk(mem[x], "cancelled")
        /\ ~stageAutoExecuteOk(mem[x]) /\ ~markDeliveryAttemptedOk(mem[x])
        /\ \A a, v : ~confirmApprovalOk(mem[x], a, v)
    BY ParkedRefuses
    DEF Parked, requestApprovalOk, stageAutoExecuteOk, markDeliveryAttemptedOk, confirmApprovalOk
  <2>2. CASE Request
    BY <1>0, <1>1, <2>1, <2>2, ParkedByCall DEF Request
  <2>3. CASE Confirm
    BY <1>0, <1>1, <2>1, <2>3, ParkedByCall DEF Confirm
  <2>4. CASE Cancel
    BY <1>0, <1>1, <2>1, <2>4, ParkedByCall DEF Cancel
  <2>5. CASE Stage
    BY <1>0, <1>1, <2>1, <2>5, ParkedByCall DEF Stage
  <2>6. CASE Attempt
    BY <1>0, <1>1, <2>1, <2>6, ParkedByCall DEF Attempt
  <2>. QED  BY <1>3, <2>2, <2>3, <2>4, <2>5, <2>6
<1>4. CASE Kick
  <2>. DEFINE prior == paneActive[paneOf[turn.e]]
  <2>1. paneOf[turn.e] \in Panes
    <3>1. turn.lane \in Writing
      BY <1>1, <1>4 DEF Kick, Placed, Writing
    <3>. QED  BY <3>1, OnPane DEF Inv
  <2>2. prior # None => prior \in Exchanges
    BY <1>0, <2>1 DEF Types
  <2>3. \/ UNCHANGED <<mem, rows, failedLast>>
        \/ /\ prior # None /\ transitionOk(mem[prior], "running")
           /\ Mirror(prior, transition(mem[prior], "running"), "terminal_running")
    BY <1>4 DEF Kick, Resumes
  <2>4. CASE UNCHANGED <<mem, rows, failedLast>>
    BY <2>4 DEF Parked, rows
  <2>. QED  BY <1>0, <2>2, <2>3, <2>4, ParkedByMove
<1>5. CASE WriteThrows
  <2>1. turn.e \in Exchanges
    BY <1>1, <1>5 DEF WriteThrows
  <2>2. CASE turn.lane = "workbench"
    <3>1. ~markDeliveryFailedOk(mem[x])
      BY ParkedRefuses DEF Parked, markDeliveryFailedOk
    <3>2. Call(turn.e, markDeliveryFailedOk(mem[turn.e]), markDeliveryFailed(mem[turn.e]),
               "delivery_failed")
      BY <1>5, <2>2 DEF WriteThrows
    <3>. QED  BY <1>0, <2>1, <3>1, <3>2, ParkedByCall
  <2>3. CASE turn.lane = "retry"
    <3>1. /\ Transit(turn.e, markDeliveryFailed(row[turn.e]), "delivery_failed")
          /\ mem' = Adopted(turn.e, markDeliveryFailed(row[turn.e]))
      BY <1>5, <2>3 DEF WriteThrows
    <3>. QED  BY <1>0, <2>1, <2>3, <3>1, ParkedByTransit
  <2>4. CASE turn.lane \notin {"workbench", "retry"}
    BY <1>5, <2>4 DEF WriteThrows, Parked, rows
  <2>. QED  BY <2>2, <2>3, <2>4
<1>6. CASE Complete
  <2>. DEFINE e == turn.e
              p == paneOf[e]
              prior == Superseded(e, p)
  <2>1. e \in Exchanges /\ p \in Panes
    <3>1. turn.lane \in Writing
      BY <1>1, <1>6 DEF Complete, Placed, Writing
    <3>. QED  BY <3>1, OnPane DEF Inv
  <2>2. CASE UNCHANGED <<mem, rows, failedLast>>
    BY <2>2 DEF Parked, rows
  <2>3. CASE /\ markDeliveredOk(mem[e])
             /\ mem' = [y \in Exchanges |->
                   IF y = e THEN markDelivered(mem[e])
                   ELSE IF y \in prior THEN transition(mem[y], "interrupted") ELSE mem[y]]
             /\ \/ prior = {} /\ UNCHANGED <<rows, failedLast>>
                \/ \E y \in prior :
                     Persist(y, mem[y].state, transition(mem[y], "interrupted"), "exchange_recovered")
    <3>1. e # x /\ x \notin prior
      BY <2>3, ParkedRefuses DEF Parked, markDeliveredOk, Superseded
    <3>2. mem'[x] = mem[x]
      BY <2>3, <3>1
    <3>3. prior \subseteq Exchanges
      BY <1>0, <2>1 DEF Superseded, Types
    <3>4. CASE UNCHANGED <<rows, failedLast>>
      BY <3>2, <3>4 DEF Parked, rows
    <3>5. ASSUME NEW y \in prior,
                 Persist(y, mem[y].state, transition(mem[y], "interrupted"), "exchange_recovered")
          PROVE  Parked(x)'
      <4>1. y \in Exchanges /\ y # x
        BY <3>1, <3>3, <3>5
      <4>2. row'[x] = row[x] /\ failedLast'[x] = failedLast[x]
        BY <1>0, <3>5, <4>1 DEF Persist, Persisted, RowsBecome, Types
      <4>. QED  BY <3>2, <4>2 DEF Parked
    <3>. QED  BY <2>3, <3>4, <3>5
  <2>. QED  BY <1>6, <2>2, <2>3 DEF Complete
<1>7. CASE Record
  <2>1. /\ turn.e \in Exchanges /\ Placed(turn.lane, turn.at, "record")
        /\ Persist(turn.e, "staged", mem[turn.e], "delivery_succeeded") /\ UNCHANGED mem
    BY <1>1, <1>7 DEF Record, live
  <2>2. mem[turn.e].state = "delivered"
    BY <1>0, <2>1 DEF Placed, Stations
  <2>3. turn.e # x
    BY <2>2 DEF Parked
  <2>. QED  BY <1>0, <2>1, <2>3, ParkedByPersist DEF Parked
<1>8. CASE SettleReport
  <2>1. ASSUME NEW task, NEW needed, NEW to, NEW event, Hop(task, needed, to, event)
        PROVE  Parked(x)'
    <3>1. turn.e \in Exchanges
      BY <1>1, <2>1 DEF Hop
    <3>2. \/ UNCHANGED <<mem, rows, failedLast>>
          \/ transitionOk(mem[turn.e], to) /\ Mirror(turn.e, transition(mem[turn.e], to), event)
      BY <2>1 DEF Hop
    <3>. QED  BY <1>0, <3>1, <3>2, ParkedByMove
  <2>. QED  BY <1>8, <2>1 DEF SettleReport
<1>9. CASE Restage \/ Reattempt \/ Redelivered
  <2>1. turn.e \in Exchanges /\ turn.e # x
    BY <1>1, <1>9 DEF Restage, Reattempt, Redelivered, Placed
  <2>2. CASE Restage
    <3>1. row'[x] = row[x] /\ failedLast'[x] = failedLast[x] /\ mem'[x] = mem[x]
      BY <1>0, <2>1, <2>2 DEF Restage, RowsBecome, Adopted, Types
    <3>. QED  BY <3>1 DEF Parked
  <2>3. CASE Reattempt
    BY <1>0, <2>1, <2>3, ParkedByTransit DEF Reattempt, live
  <2>4. CASE Redelivered
    BY <1>0, <2>1, <2>4, ParkedByTransit DEF Redelivered
  <2>. QED  BY <1>9, <2>2, <2>3, <2>4
<1>10. CASE Insert
  <2>1. turn.e \in Exchanges /\ row[turn.e].state = "absent"
    BY <1>0, <1>1, <1>10 DEF Insert, Placed, Stations
  <2>2. turn.e # x
    BY <2>1 DEF Parked
  <2>3. row'[x] = row[x] /\ failedLast'[x] = failedLast[x] /\ mem'[x] = mem[x]
    BY <1>0, <1>10, <2>1, <2>2 DEF Insert, RowsBecome, live, Types
  <2>. QED  BY <2>3 DEF Parked
<1>. QED
  BY <1>2, <1>3, <1>4, <1>5, <1>6, <1>7, <1>8, <1>9, <1>10 DEF Tasks

LEMMA ParkedStays ==
  ASSUME Inv, NEW x \in Exchanges, Parked(x), turn.lane = "retry" => turn.e # x, [Next]_vars
  PROVE  Parked(x)'
<1>0. Types
  BY DEF Inv, IInv
<1>1. CASE Mints
  <2>1. PICK e \in Exchanges :
          /\ row[e].state = "absent" /\ mem' = [mem EXCEPT ![e] = create]
          /\ Persist(e, "absent", create, "exchange_created")
    BY <1>1 DEF Mints, DispatchAuto, DispatchHeld, DispatchRefused, WorkbenchSend, Mint
  <2>2. e # x
    BY <2>1 DEF Parked
  <2>3. mem'[x] = mem[x]
    BY <1>0, <2>1, <2>2 DEF Types
  <2>. QED  BY <1>0, <2>1, <2>2, <2>3, ParkedByPersist DEF Parked
<1>2. CASE Tasks
  BY <1>2, ParkedByTasks
<1>3. CASE Operator
  <2>1. PICK e \in Exchanges, f \in Exchanges :
          \/ Approve(e) \/ Reject(e) \/ Drain(e) \/ Retry(e) \/ FollowUp(e, f)
          \/ CancelDurable(e)
    BY <1>3 DEF Operator
  <2>2. CASE CancelDurable(e)
    <3>1. /\ Transit(e, transition(row[e], "cancelled"), "exchange_cancelled")
          /\ mem' = Adopted(e, transition(row[e], "cancelled"))
      BY <2>2 DEF CancelDurable
    <3>2. CASE e # x
      BY <1>0, <3>1, <3>2, ParkedByTransit
    <3>3. CASE e = x
      <4>1. transition(row[e], "cancelled").state = "cancelled"
        BY <1>0, RowCancelled
      <4>. QED  BY <1>0, <3>1, <3>3, <4>1 DEF Transit, RowsBecome, Adopted, Types, Parked
    <3>. QED  BY <3>2, <3>3
  <2>. QED
    BY <2>1, <2>2
    DEF Approve, Reject, Drain, Retry, FollowUp, FollowUpUnchecked, live, durable, rows, Parked
<1>4. CASE Pane
  <2>1. PICK p \in Panes :
          \/ \E kind \in DOMAIN SignalTarget : PaneSignal(p, kind)
          \/ \E outcome \in {"failed", "complete", "needsInput"} : Report(p, outcome)
          \/ LegacyReport(p) \/ ManualCommand(p) \/ WriteAround(p) \/ PaneStarts(p) \/ PaneExits(p)
    BY <1>4 DEF Pane
  <2>2. ASSUME paneActive[p] # None, NEW to, NEW event, transitionOk(mem[paneActive[p]], to),
               Mirror(paneActive[p], transition(mem[paneActive[p]], to), event)
        PROVE  Parked(x)'
    <3>1. paneActive[p] \in Exchanges
      BY <1>0, <2>2 DEF Types
    <3>. QED  BY <1>0, <2>2, <3>1, ParkedByMove
  <2>3. UNCHANGED <<mem, rows, failedLast>> => Parked(x)'
    BY DEF Parked, rows
  <2>4. CASE \E kind \in DOMAIN SignalTarget : PaneSignal(p, kind)
    BY <2>2, <2>4 DEF PaneSignal
  <2>5. CASE \E outcome \in {"failed", "complete", "needsInput"} : Report(p, outcome)
    BY <2>2, <2>3, <2>5 DEF Report
  <2>6. CASE LegacyReport(p) \/ PaneStarts(p) \/ PaneExits(p)
    BY <2>3, <2>6 DEF LegacyReport, PaneStarts, PaneExits, durable, live
  <2>7. CASE ManualCommand(p) \/ WriteAround(p)
    BY <2>2, <2>3, <2>7 DEF ManualCommand, WriteAround, Resumes
  <2>. QED  BY <2>1, <2>4, <2>5, <2>6, <2>7
<1>5. CASE Crash
  BY <1>5 DEF Crash, durable, rows, Parked, Absent
<1>6. ASSUME NEW e \in Exchanges, RecoverRow(e)
      PROVE  Parked(x)'
  <2>1. UNCHANGED mem
    BY <1>6 DEF RecoverRow, live
  <2>2. CASE UNCHANGED <<rows, failedLast>>
    BY <2>1, <2>2 DEF Parked, rows
  <2>3. ASSUME ~Kept(e), NEW s, Transit(e, s, "exchange_recovered")
        PROVE  Parked(x)'
    <3>1. e # x
      BY <2>3 DEF Kept, recoveryDisposition, InFlight, Parked
    <3>. QED  BY <1>0, <2>1, <2>3, <3>1, ParkedByTransit
  <2>. QED  BY <1>6, <2>2, <2>3 DEF RecoverRow
<1>7. CASE Boot \/ BootDone \/ UNCHANGED vars
  BY <1>7 DEF Boot, BootDone, vars, live, durable, rows, Parked
<1>. QED  BY <1>1, <1>2, <1>3, <1>4, <1>5, <1>6, <1>7 DEF Next, Recovery

\* A link is only made by the handler of a follow-up, and a row does not come back.
LEMMA LinksMade ==
  ASSUME [Next]_vars
  PROVE  Link \/ UNCHANGED followUpOf
<1>1. CASE Mints \/ Operator
  BY <1>1 DEF Mints, DispatchAuto, DispatchHeld, DispatchRefused, WorkbenchSend, Mint,
              Operator, Approve, Reject, Drain, Retry, FollowUp, FollowUpUnchecked, CancelDurable,
              durable
<1>2. CASE Hold \/ Request \/ Claim \/ Drop \/ DrainOne \/ Confirm \/ Cancel \/ Stage \/ Attempt
           \/ Kick \/ SettleReport
  BY <1>2 DEF Hold, Request, Claim, Drop, DrainOne, Confirm, Cancel, Stage, Attempt, Kick,
              SettleReport, Hop, besidesMirror
<1>3. CASE Write \/ WriteThrows \/ Complete \/ Record \/ Restage \/ Reattempt \/ Redelivered \/ Insert
  BY <1>3 DEF Write, WriteThrows, Complete, Record, Restage, Reattempt, Redelivered, Insert, durable
<1>4. CASE Pane
  BY <1>4 DEF Pane, PaneSignal, Report, LegacyReport, ManualCommand, WriteAround, PaneStarts, PaneExits,
              besidesMirror, durable
<1>5. CASE Crash \/ Recovery \/ UNCHANGED vars
  BY <1>5 DEF Crash, Recovery, Boot, RecoverRow, BootDone, vars, durable
<1>. QED  BY <1>1, <1>2, <1>3, <1>4, <1>5 DEF Next, Tasks

LEMMA RowsGone ==
  ASSUME Inv, [Next]_vars, NEW x \in Exchanges
  PROVE  /\ row'[x].state = "absent" => row[x].state = "absent"
         /\ row[x].state = "cancelled" => row'[x].state = "cancelled"
<1>1. Moved(row[x].state, row'[x].state)
  BY StepLegal DEF LegalRows
<1>. QED  BY <1>1 DEF Moved, isLegalTransition, LEGAL_TRANSITIONS, InFlight, CANCELLABLE_STATES,
                     EXCHANGE_STATES, TERMINAL_STATES

\* Nothing interrupts the handler of a follow-up but a crash.
LEMMA FollowupStep ==
  ASSUME Inv, [Next]_vars, turn.lane = "followup"
  PROVE  Insert \/ Link \/ Crash \/ UNCHANGED vars
<1>0. turn # Rest /\ proc = "up" /\ Types
  BY DEF Inv, IInv, TurnOK, Rest
<1>1. ASSUME NEW task, Doing(task), task \notin {"insert", "link"}
      PROVE  FALSE
  <2>1. Placed("followup", turn.at, task) /\ turn.at \in 1..Len(Lane[turn.lane])
    BY <1>0, <1>1, Places
  <2>2. Len(Lane[turn.lane]) = 2
    BY LaneEnds
  <2>. QED  BY <1>1, <2>1, <2>2 DEF Placed
<1>2. CASE Tasks
  <2>1. CASE SettleReport
    BY <1>1, <2>1 DEF SettleReport, Hop
  <2>2. CASE Hold \/ Request \/ Claim \/ Drop \/ DrainOne \/ Confirm \/ Cancel \/ Stage \/ Attempt
    BY <1>1, <2>2 DEF Hold, Request, Claim, Drop, DrainOne, Confirm, Cancel, Stage, Attempt
  <2>3. CASE Kick \/ Write \/ WriteThrows \/ Complete \/ Record \/ Restage \/ Reattempt \/ Redelivered
    BY <1>1, <2>3 DEF Kick, Write, WriteThrows, Complete, Record, Restage, Reattempt, Redelivered
  <2>. QED  BY <1>2, <2>1, <2>2, <2>3 DEF Tasks
<1>3. CASE Mints \/ Operator \/ Pane
  BY <1>0, <1>3 DEF Mints, DispatchAuto, DispatchHeld, DispatchRefused, WorkbenchSend, Mint,
     Operator, Approve, Reject, Drain, Retry, FollowUp, FollowUpUnchecked, CancelDurable,
     Pane, PaneSignal, Report, LegacyReport, ManualCommand, WriteAround, PaneStarts, PaneExits, Idle
<1>4. CASE Recovery
  BY <1>0, <1>4 DEF Recovery, Boot, RecoverRow, BootDone
<1>. QED  BY <1>2, <1>3, <1>4 DEF Next

\* The task that links is the last one of its handler.
LEMMA Linking ==
  ASSUME Inv, Link
  PROVE  /\ turn.lane = "followup" /\ turn.at = 2 /\ turn.e \in Exchanges /\ turn.of \in Exchanges
         /\ turn' = Rest /\ UNCHANGED <<mem, row, failedLast>>
<1>1. /\ Types /\ Doing("link") /\ Advance
      /\ turn.lane = "followup" /\ turn.at = 2 /\ turn.e \in Exchanges
  BY Handled, Places DEF Inv, IInv, Link, Placed
<1>2. Len(Lane[turn.lane]) = 2
  BY <1>1, LaneEnds
<1>. QED  BY <1>1, <1>2 DEF Link, Advance, Types, live, rows

LEMMA LinkedStep ==
  ASSUME Inv, FollowsUp, [Next]_vars
  PROVE  \A f \in Exchanges : Linked(f)'
<1>1. TAKE f \in Exchanges
<1>2. Linked(f) /\ OpensOne /\ Types
  BY DEF FollowsUp, Inv, IInv
<1>3. CASE UNCHANGED followUpOf
  <2>1. row'[f].state = "absent" => row[f].state = "absent"
    BY RowsGone
  <2>2. followUpOf[f] # None => Parked(f)'
    BY <1>2, ParkedStays DEF Linked, OpensOne
  <2>. QED  BY <1>2, <1>3, <2>1, <2>2 DEF Linked, Parked
<1>4. CASE Link
  <2>1. /\ turn.lane = "followup" /\ turn.at = 2 /\ turn.e \in Exchanges
        /\ UNCHANGED <<mem, row, failedLast>>
    BY <1>4, Linking
  <2>2. followUpOf' = [followUpOf EXCEPT ![turn.e] = turn.of]
    BY <1>4 DEF Link
  <2>3. CASE f = turn.e
    <3>1. mem[f].state = "absent" /\ row[f].state = "draft" /\ ~failedLast[f]
      BY <1>2, <2>1, <2>3 DEF OpensOne, Inv, Stations
    <3>. QED  BY <2>1, <3>1 DEF Linked, Parked
  <2>4. CASE f # turn.e
    BY <1>2, <2>1, <2>2, <2>4 DEF Linked, Parked, Types
  <2>. QED  BY <2>3, <2>4
<1>. QED  BY <1>3, <1>4, LinksMade

\* Without a new link no follow-up opens.
LEMMA NoneOpens ==
  ASSUME Inv, FollowsUp, [Next]_vars, UNCHANGED followUpOf, NEW e \in Exchanges
  PROVE  OpenFollowUps(e)' \subseteq OpenFollowUps(e)
<1>1. SUFFICES ASSUME NEW f \in Exchanges, followUpOf[f] = e, row'[f].state = "draft"
               PROVE  row[f].state = "draft"
  BY DEF OpenFollowUps
<1>2. Parked(f)
  BY <1>1, SpineAssumption DEF FollowsUp, Linked
<1>. QED  BY <1>1, <1>2, RowsGone DEF Parked

LEMMA OpensStep ==
  ASSUME Inv, FollowsUp, [Next]_vars
  PROVE  OpensOne'
<1>0. Types /\ OpensOne /\ \A f \in Exchanges : Linked(f)
  BY DEF Inv, IInv, FollowsUp
<1>1. CASE Link
  <2>1. /\ turn.lane = "followup" /\ turn.e \in Exchanges /\ turn.of \in Exchanges
        /\ turn' = Rest /\ UNCHANGED row
    BY <1>1, Linking
  <2>2. followUpOf' = [followUpOf EXCEPT ![turn.e] = turn.of]
    BY <1>1 DEF Link
  <2>3. ASSUME NEW e \in Exchanges
        PROVE  \A f, g \in OpenFollowUps(e)' : f = g
    <3>1. CASE e = turn.of
      <4>1. OpenFollowUps(e)' \subseteq {turn.e}
        BY <1>0, <2>1, <2>2, <3>1 DEF OpenFollowUps, OpensOne, Types
      <4>. QED  BY <4>1
    <3>2. CASE e # turn.of
      <4>1. OpenFollowUps(e)' \subseteq OpenFollowUps(e)
        BY <1>0, <2>1, <2>2, <3>2 DEF OpenFollowUps, Types
      <4>. QED  BY <1>0, <4>1 DEF OpensOne
    <3>. QED  BY <3>1, <3>2
  <2>. QED  BY <2>1, <2>3 DEF OpensOne, Rest
<1>2. CASE UNCHANGED followUpOf /\ ~Link
  <2>1. ASSUME NEW e \in Exchanges
        PROVE  \A f, g \in OpenFollowUps(e)' : f = g
    BY <1>0, <1>2, NoneOpens DEF OpensOne
  <2>2. turn'.lane = "retry" => followUpOf'[turn'.e] = None
    <3>1. CASE turn' = Rest
      BY <3>1 DEF Rest
    <3>2. ASSUME NEW l, NEW e, turn' = [lane |-> l, e |-> e, of |-> None, at |-> 1],
                 l = "retry" => Retry(e)
          PROVE  turn'.lane = "retry" => followUpOf'[turn'.e] = None
      <4>1. l = "retry" => e \in Exchanges
        <5>1. Types'
          BY InvStep DEF Inv, IInv
        <5>. QED  BY <3>2, <5>1 DEF Types, Turns, Rest
      <4>. QED  BY <1>0, <1>2, <3>2, <4>1 DEF Retry, RetryEligible, Linked, Parked
    <3>3. ASSUME NEW e \in Exchanges, NEW f \in Exchanges, FollowUp(e, f)
          PROVE  turn'.lane # "retry"
      BY <3>3 DEF FollowUp, FollowUpUnchecked
    <3>4. ASSUME NEW task, Doing(task), Advance, turn' # Rest
          PROVE  turn'.lane = turn.lane /\ turn'.e = turn.e
      BY <1>0, <3>4, Onward
    <3>. QED  BY <1>0, <1>2, <3>1, <3>2, <3>3, <3>4, TurnSteps DEF OpensOne
  <2>3. ASSUME turn'.lane = "followup"
        PROVE  /\ followUpOf'[turn'.e] = None /\ ~failedLast'[turn'.e]
               /\ \E o \in Exchanges : o = turn'.of /\ OpenFollowUps(o)' = {}
    <3>1. CASE turn.lane = "followup"
      <4>1. turn'.e = turn.e /\ turn'.of = turn.of /\ UNCHANGED failedLast
        <5>1. CASE Insert
          BY <1>0, <2>3, <5>1, Onward DEF Insert, Rest
        <5>2. CASE Crash
          BY <2>3, <5>2 DEF Crash, Rest
        <5>3. CASE UNCHANGED vars
          BY <5>3 DEF vars, durable
        <5>. QED  BY <1>2, <3>1, <5>1, <5>2, <5>3, FollowupStep
      <4>2. PICK o \in Exchanges : o = turn.of /\ o = turn'.of
        BY <1>0, <3>1, <4>1 DEF Types
      <4>3. OpenFollowUps(o)' = {}
        BY <1>0, <1>2, <3>1, <4>2, NoneOpens DEF OpensOne
      <4>. QED  BY <1>0, <1>2, <3>1, <4>1, <4>2, <4>3 DEF OpensOne
    <3>2. ASSUME NEW e \in Exchanges, NEW f \in Exchanges, FollowUp(e, f)
          PROVE  /\ followUpOf'[turn'.e] = None /\ ~failedLast'[turn'.e]
                 /\ \E o \in Exchanges : o = turn'.of /\ OpenFollowUps(o)' = {}
      <4>1. /\ turn' = [lane |-> "followup", e |-> f, of |-> e, at |-> 1]
            /\ OpenFollowUps(e) = {} /\ row[f].state = "absent" /\ paneOf[f] = None
            /\ UNCHANGED <<row, failedLast>>
        BY <3>2 DEF FollowUp, FollowUpUnchecked, durable, rows
      <4>2. followUpOf[f] = None /\ ~failedLast[f]
        BY <1>0, <4>1 DEF Linked, Inv, IInv, Point, Fresh
      <4>3. OpenFollowUps(e)' = {} /\ turn'.of = e
        BY <1>2, <4>1 DEF OpenFollowUps
      <4>. QED  BY <1>2, <4>1, <4>2, <4>3
    <3>3. ASSUME NEW task, Doing(task), Advance, turn' # Rest
          PROVE  turn'.lane = turn.lane
      BY <1>0, <3>3, Onward
    <3>. QED  BY <2>3, <3>1, <3>2, <3>3, TurnSteps DEF Rest
  <2>4. turn'.lane = "followup" => (OpenFollowUps(turn.of) = {})'
    <3>1. SUFFICES ASSUME turn'.lane = "followup"
                   PROVE  (OpenFollowUps(turn.of) = {})'
      OBVIOUS
    <3>2. PICK o \in Exchanges : o = turn'.of /\ OpenFollowUps(o)' = {}
      BY <2>3, <3>1
    <3>. QED  BY <3>2 DEF OpenFollowUps
  <2>. QED  BY <2>1, <2>2, <2>3, <2>4 DEF OpensOne
<1>. QED  BY <1>1, <1>2, LinksMade

\* At most one unsent follow-up is linked to an exchange, whatever the store loses.
THEOREM OneFollowUp == Spec => []OneOpenFollowUp
<1>1. Init => FollowsUp
  BY DEF Init, FollowsUp, Linked, OpensOne, OpenFollowUps, Absent, Rest
<1>2. FollowsUp /\ Inv /\ [Next]_vars => FollowsUp'
  BY LinkedStep, OpensStep DEF FollowsUp
<1>3. FollowsUp => OneOpenFollowUp
  <2>. SUFFICES ASSUME FollowsUp, NEW e \in Exchanges
                PROVE  Cardinality(OpenFollowUps(e)) <= 1
    BY DEF OneOpenFollowUp
  <2>1. \A x, y \in OpenFollowUps(e) : x = y
    BY DEF FollowsUp, OpensOne
  <2>2. CASE OpenFollowUps(e) = {}
    BY <2>2, FS_EmptySet
  <2>3. ASSUME NEW x \in OpenFollowUps(e)
        PROVE  Cardinality(OpenFollowUps(e)) <= 1
    <3>1. OpenFollowUps(e) = {x}
      BY <2>1, <2>3
    <3>2. Cardinality({x}) = 1
      BY FS_Singleton
    <3>. QED  BY <3>1, <3>2
  <2>. QED  BY <2>2, <2>3
<1>. QED  BY <1>1, <1>2, <1>3, Invariance, PTL DEF Spec

-----------------------------------------------------------------------------
(* A done-line settles the exchange typed last, whatever the store loses.   *)

\* A lane has written on the pane and its delivery is still to be logged.
Finishing(p) ==
  /\ \/ turn.lane = "voice" /\ turn.at \in 3..5
     \/ turn.lane = "workbench" /\ turn.at = 5
     \/ turn.lane = "approve" /\ turn.at = 8
  /\ paneOf[turn.e] = p

\* The newest logged command of the pane was typed, and when it is the active exchange's
\* nothing was typed since, or last what the log never sees.
Logged(p) ==
  /\ lastCmd[p] # None => handed[lastCmd[p]] = 1
  /\ lastCmd[p] # None /\ paneActive[p] = lastCmd[p] =>
       lastHanded[p] \in {lastCmd[p], "around"} \/ Finishing(p)
  /\ Finishing(p) => lastHanded[p] = IF Uncovers THEN "around" ELSE turn.e

HistoryTyped == lastHanded \in [Panes -> Exchanges \cup {None, "manual", "around"}]

\* A retry has the pane, and is not what was logged there.
Retakes ==
  turn.lane = "retry" /\ turn.at > 1 =>
    paneActive[paneOf[turn.e]] = turn.e /\ lastCmd[paneOf[turn.e]] # turn.e

Traced ==
  /\ HistoryTyped /\ Retakes
  /\ \A p \in Panes : Logged(p)
  /\ ~misread

Reporting == {"idled", "finish", "resumed", "ask"}

\* No pane changes hands, nothing is typed and nothing logged.
Calm ==
  /\ UNCHANGED <<paneActive, lastCmd, history>>
  /\ \/ UNCHANGED turn /\ (turn = Rest \/ UNCHANGED mem)
     \/ turn = Rest /\ turn'.at = 1
     \/ \E task : /\ Doing(task) /\ task \notin {"write", "complete", "restage", "redelivered"}
                  /\ Advance \/ (turn' = Rest /\ task \in Reporting)

LEMMA CalmSteps ==
  ASSUME Inv, [Next]_vars
  PROVE  \/ Calm \/ Write \/ WriteThrows \/ Complete \/ Restage \/ Redelivered \/ Crash
         \/ \E p \in Panes : LegacyReport(p) \/ ManualCommand(p) \/ WriteAround(p)
<1>0. Types
  BY DEF Inv, IInv
<1>1. CASE Mints
  BY <1>1 DEF Mints, DispatchAuto, DispatchHeld, DispatchRefused, WorkbenchSend, Mint, Start, Idle,
              Calm
<1>2. CASE Operator
  <2>1. PICK e \in Exchanges, f \in Exchanges :
          \/ Approve(e) \/ Reject(e) \/ Drain(e) \/ Retry(e) \/ FollowUp(e, f)
          \/ CancelDurable(e)
    BY <1>2 DEF Operator
  <2>2. CASE CancelDurable(e)
    <3>1. transition(row[e], "cancelled").state = "cancelled"
      BY <1>0, RowCancelled
    <3>2. UNCHANGED paneActive
      BY <2>2, <3>1 DEF CancelDurable, Bound, InFlight
    <3>. QED  BY <2>2, <3>2 DEF CancelDurable, Idle, Calm
  <2>3. CASE Approve(e) \/ Reject(e) \/ Drain(e) \/ Retry(e) \/ FollowUp(e, f)
    <3>1. turn = Rest /\ turn'.at = 1 /\ UNCHANGED <<live, history>>
      BY <2>3 DEF Approve, Reject, Drain, Retry, FollowUp, FollowUpUnchecked, Idle, Start
    <3>. QED  BY <3>1 DEF Calm, live
  <2>. QED  BY <2>1, <2>2, <2>3
<1>3. CASE Tasks
  <2>1. CASE SettleReport
    <3>1. ASSUME NEW task \in Reporting, NEW needed, NEW to, NEW event,
                 Hop(task, needed, to, event)
          PROVE  Calm
      BY <3>1 DEF Hop, besidesMirror, Calm, Reporting
    <3>. QED  BY <2>1, <3>1 DEF SettleReport, Reporting
  <2>2. CASE DrainOne
    <3>1. /\ Doing("drain") /\ (Advance \/ UNCHANGED turn) /\ UNCHANGED <<mem, paneActive, lastCmd, history>>
      BY <2>2 DEF DrainOne
    <3>. QED  BY <3>1 DEF Calm
  <2>3. CASE Hold \/ Request \/ Claim \/ Drop \/ Confirm \/ Cancel \/ Stage \/ Attempt \/ Kick
    BY <2>3 DEF Hold, Request, Claim, Drop, Confirm, Cancel, Stage, Attempt, Kick, besidesMirror,
                live, Calm
  <2>4. CASE Record \/ Reattempt \/ Insert \/ Link
    BY <2>4 DEF Record, Reattempt, Insert, Link, live, Calm
  <2>. QED  BY <1>3, <2>1, <2>2, <2>3, <2>4 DEF Tasks
<1>4. CASE Pane
  <2>1. PICK p \in Panes :
          \/ \E kind \in DOMAIN SignalTarget : PaneSignal(p, kind)
          \/ \E outcome \in {"failed", "complete", "needsInput"} : Report(p, outcome)
          \/ LegacyReport(p) \/ ManualCommand(p) \/ WriteAround(p) \/ PaneStarts(p) \/ PaneExits(p)
    BY <1>4 DEF Pane
  <2>. QED
    BY <2>1 DEF PaneSignal, Report, PaneStarts, PaneExits, Idle, Start, besidesMirror, Calm
<1>5. CASE Recovery
  <2>1. UNCHANGED <<paneActive, lastCmd, history, turn, mem>>
    BY <1>5 DEF Recovery, Boot, RecoverRow, BootDone, live
  <2>. QED  BY <2>1 DEF Calm
<1>6. CASE UNCHANGED vars
  BY <1>6 DEF vars, live, Calm
<1>. QED  BY <1>1, <1>2, <1>3, <1>4, <1>5, <1>6 DEF Next

\* How the exchange at work on a pane goes on in a calm step.
LEMMA CalmTurn ==
  ASSUME Inv, [Next]_vars, Calm
  PROVE  /\ \A p \in Panes : /\ Finishing(p)' <=> Finishing(p)
                             /\ Finishing(p) => turn'.e = turn.e /\ turn'.lane = turn.lane
         /\ turn'.lane = "retry" /\ turn'.at > 1 =>
              /\ turn.lane = "retry" /\ turn.at > 1 /\ turn'.e = turn.e
              /\ paneOf'[turn'.e] = paneOf[turn.e] /\ paneOf[turn.e] \in Panes
         /\ turn'.lane = "approve" /\ turn'.at = 8 => turn'.e = turn.e /\ UNCHANGED <<turn, mem>>
<1>0. Types /\ PanesKept
  BY PanesKeep DEF Inv, IInv
<1>1. turn.lane \in Writing => paneOf[turn.e] \in Panes /\ paneOf'[turn.e] = paneOf[turn.e]
  BY <1>0, OnPane, SpineAssumption DEF Inv, PanesKept
<1>2. CASE UNCHANGED turn /\ (turn = Rest \/ UNCHANGED mem)
  BY <1>1, <1>2 DEF Finishing, Rest, Writing
<1>3. CASE turn = Rest /\ turn'.at = 1
  BY <1>3 DEF Finishing, Rest
<1>4. ASSUME NEW task, Doing(task), task \notin {"write", "complete", "restage", "redelivered"},
             Advance \/ (turn' = Rest /\ task \in Reporting)
      PROVE  /\ \A p \in Panes : /\ Finishing(p)' <=> Finishing(p)
                                 /\ Finishing(p) => turn'.e = turn.e /\ turn'.lane = turn.lane
             /\ ~(turn'.lane = "approve" /\ turn'.at = 8)
             /\ turn'.lane = "retry" /\ turn'.at > 1 =>
                  /\ turn.lane = "retry" /\ turn.at > 1 /\ turn'.e = turn.e
                  /\ paneOf'[turn'.e] = paneOf[turn.e] /\ paneOf[turn.e] \in Panes
  <2>1. /\ turn \in Turns /\ turn.at \in Nat /\ turn.at # 0
        /\ Placed(turn.lane, turn.at, task)
    BY <1>0, <1>4, Places DEF Turns
  <2>2. /\ ~(turn.lane = "voice" /\ turn.at \in {2, 5})
        /\ ~(turn.lane = "workbench" /\ turn.at \in {4, 5})
        /\ ~(turn.lane = "approve" /\ turn.at \in {7, 8})
        /\ ~(turn.lane = "retry" /\ turn.at = 1)
    BY <1>4, <2>1 DEF Placed
  <2>3. CASE turn' # Rest
    <3>1. /\ turn'.lane = turn.lane /\ turn'.e = turn.e /\ turn'.at = turn.at + 1
      BY <1>0, <1>4, <2>3, Onward
    <3>. QED  BY <1>1, <2>1, <2>2, <3>1 DEF Finishing, Writing
  <2>4. CASE turn' = Rest
    <3>1. ASSUME NEW p, Finishing(p)
          PROVE  FALSE
      <4>1. turn.lane = "voice" /\ turn.at \in {3, 4}
        BY <2>2, <3>1 DEF Finishing
      <4>2. Len(Lane[turn.lane]) = 6
        BY <4>1, LaneEnds
      <4>3. task \notin Reporting
        BY <2>1, <4>1 DEF Placed, Reporting
      <4>. QED  BY <1>4, <2>1, <2>4, <4>1, <4>2, <4>3 DEF Advance, Rest, Turns
    <3>. QED  BY <2>4, <3>1 DEF Finishing, Rest
  <2>. QED  BY <2>3, <2>4
<1>. QED  BY <1>2, <1>3, <1>4 DEF Calm

LEMMA CalmTraced ==
  ASSUME Inv, Traced, [Next]_vars, Calm
  PROVE  Traced'
<1>0. Types /\ UNCHANGED <<paneActive, lastCmd, handed, lastHanded, misread>>
  BY DEF Inv, IInv, Calm, history
<1>1. ASSUME NEW p \in Panes
      PROVE  Logged(p)'
  <2>1. /\ Finishing(p)' <=> Finishing(p)
        /\ Finishing(p) => turn'.e = turn.e /\ turn'.lane = turn.lane
    BY CalmTurn
  <2>2. Finishing(p) => (Uncovers' <=> Uncovers)
    BY <2>1, CalmTurn DEF Finishing, Uncovers
  <2>3. Logged(p)
    BY DEF Traced
  <2>. QED  BY <1>0, <2>1, <2>2, <2>3 DEF Logged
<1>2. Retakes'
  BY <1>0, CalmTurn DEF Traced, Retakes
<1>. QED  BY <1>0, <1>1, <1>2 DEF Traced, HistoryTyped

\* Where nothing is typed or logged and the handler is over.
LEMMA RestTraced ==
  ASSUME Types, Traced, turn' = Rest, UNCHANGED history,
         \A p \in Panes :
           /\ Finishing(p) => lastHanded[p] = "around"
           /\ lastCmd'[p] \in {None, lastCmd[p]}
           /\ lastCmd'[p] = None \/ paneActive'[p] = paneActive[p] \/ paneActive'[p] # lastCmd[p]
  PROVE  Traced'
<1>1. UNCHANGED <<handed, lastHanded, misread>>
  BY DEF history
<1>2. ASSUME NEW p \in Panes
      PROVE  Logged(p)'
  <2>1. ~Finishing(p)'
    BY DEF Finishing, Rest
  <2>2. Logged(p)
    BY DEF Traced
  <2>. QED  BY <1>1, <2>1, <2>2 DEF Logged
<1>3. Retakes'
  BY DEF Retakes, Rest
<1>. QED  BY <1>1, <1>2, <1>3 DEF Traced, HistoryTyped

LEMMA WriteTraced ==
  ASSUME Inv, Inv', Traced, Write
  PROVE  Traced'
<1>0. /\ Types /\ Doing("write") /\ Advance
      /\ UNCHANGED <<live, durable, misread, boot>>
      /\ UNCHANGED <<mem, paneActive, lastCmd, paneOf, misread>>
  BY DEF Inv, IInv, Write, live, durable
<1>1. PICK e \in Exchanges : e = turn.e
  BY <1>0, Handled DEF Inv
<1>2. /\ turn.lane \in Writing /\ turn.lane \in DOMAIN Lane
      /\ turn.at = WriteAt(turn.lane) /\ turn.at \in Nat
  BY <1>0, Places DEF Placed, Writing, WriteAt, Turns
<1>3. PICK p \in Panes : p = paneOf[e]
  BY <1>1, <1>2, OnPane DEF Inv
<1>4. handed[e] = 0
  BY <1>1, <1>2 DEF Inv, IInv, TurnOK
<1>5. /\ handed' = [handed EXCEPT ![e] = @ + 1]
      /\ lastHanded' = [lastHanded EXCEPT ![p] = IF Uncovers THEN "around" ELSE e]
  BY <1>1, <1>3 DEF Write
<1>6. HistoryTyped'
  BY <1>5 DEF Traced, HistoryTyped
<1>7. /\ handed'[e] = 1 /\ \A x \in Exchanges : x # e => handed'[x] = handed[x]
      /\ lastHanded'[p] = IF Uncovers THEN "around" ELSE e
      /\ \A q \in Panes : q # p => lastHanded'[q] = lastHanded[q]
  BY <1>0, <1>4, <1>5 DEF Types, Traced, HistoryTyped
<1>9. turn'.lane = turn.lane /\ turn'.e = e /\ turn'.at = turn.at + 1
  <2>1. turn.at # Len(Lane[turn.lane])
    <3>1. CASE turn.lane = "voice"
      BY <1>2, <3>1, LaneEnds DEF WriteAt
    <3>2. CASE turn.lane = "workbench"
      BY <1>2, <3>2, LaneEnds DEF WriteAt
    <3>3. CASE turn.lane = "approve"
      BY <1>2, <3>3, LaneEnds DEF WriteAt
    <3>4. CASE turn.lane = "retry"
      BY <1>2, <3>4, LaneEnds DEF WriteAt
    <3>. QED  BY <1>2, <3>1, <3>2, <3>3, <3>4 DEF Writing
  <2>. QED  BY <1>0, <1>1, <1>2, <2>1, Onward DEF Advance, Rest
<1>8. Uncovers' <=> Uncovers
  BY <1>0, <1>1, <1>9 DEF Uncovers
<1>10. /\ Finishing(p)' <=> turn.lane # "retry"
       /\ \A q \in Panes : q # p => ~Finishing(q)'
       /\ \A q \in Panes : ~Finishing(q)
  BY <1>0, <1>1, <1>2, <1>3, <1>9 DEF Finishing, Writing, WriteAt
<1>11. turn.lane = "retry" => paneActive[p] = e /\ lastCmd[p] # e
  BY <1>1, <1>2, <1>3 DEF Traced, Retakes, WriteAt
<1>12. ASSUME NEW q \in Panes
       PROVE  Logged(q)'
  <2>1. Logged(q) /\ lastCmd[q] \in Exchanges \cup {None}
    BY <1>0 DEF Traced, Types
  <2>2. lastCmd[q] # None => handed[lastCmd[q]] = 1 /\ lastCmd[q] # e /\ handed'[lastCmd[q]] = 1
    BY <1>4, <1>7, <2>1 DEF Logged
  <2>3. CASE q = p
    BY <1>0, <1>7, <1>8, <1>9, <1>10, <1>11, <2>1, <2>2, <2>3 DEF Logged
  <2>4. CASE q # p
    BY <1>0, <1>7, <1>10, <2>1, <2>2, <2>4 DEF Logged
  <2>. QED  BY <2>3, <2>4
<1>13. Retakes'
  BY <1>0, <1>3, <1>9, <1>11 DEF Retakes
<1>. QED  BY <1>0, <1>6, <1>12, <1>13 DEF Traced

LEMMA CompleteTraced ==
  ASSUME Inv, Traced, Complete
  PROVE  Traced'
<1>0. Types /\ Stations /\ Doing("complete") /\ UNCHANGED <<paneOf, history>>
  BY DEF Inv, IInv, Complete
<1>1. PICK e \in Exchanges : e = turn.e
  BY <1>0, Handled DEF Inv
<1>2. /\ \/ turn.lane = "voice" /\ turn.at = 5
         \/ turn.lane = "workbench" /\ turn.at = 5
         \/ turn.lane = "approve" /\ turn.at = 8
      /\ turn.at \in Nat
  BY <1>0, Places DEF Placed
<1>3. PICK p \in Panes : p = paneOf[e]
  BY <1>1, <1>2, OnPane DEF Inv, Writing
<1>4. Finishing(p) /\ \A q \in Panes : q # p => ~Finishing(q)
  BY <1>1, <1>2, <1>3 DEF Finishing
<1>5. handed[e] = 1 /\ lastHanded[p] = IF Uncovers THEN "around" ELSE e
  BY <1>1, <1>2, <1>4 DEF Inv, IInv, TurnOK, Writing, WriteAt, Traced, Logged
<1>6. CASE markDeliveredOk(mem[e])
  <2>1. /\ paneActive' = [paneActive EXCEPT ![p] = e] /\ lastCmd' = [lastCmd EXCEPT ![p] = e]
        /\ Advance
    BY <1>1, <1>3, <1>6 DEF Complete
  <2>6. lastHanded[p] = e
    BY <1>1, <1>5, <1>6 DEF markDeliveredOk, Uncovers
  <2>2. turn' # Rest => turn'.lane = turn.lane /\ turn'.at = turn.at + 1
    BY <1>0, <2>1, Onward
  <2>3. \A q : ~Finishing(q)'
    BY <1>2, <2>2 DEF Finishing, Rest
  <2>4. Retakes'
    BY <1>2, <2>2 DEF Retakes, Rest
  <2>5. ASSUME NEW q \in Panes
        PROVE  Logged(q)'
    <3>1. UNCHANGED <<handed, lastHanded>>
      BY <1>0 DEF history
    <3>2. CASE q = p
      BY <1>0, <1>5, <2>1, <2>3, <2>6, <3>1, <3>2 DEF Logged, Types
    <3>3. CASE q # p
      <4>1. Logged(q) /\ lastCmd'[q] = lastCmd[q] /\ paneActive'[q] = paneActive[q]
        BY <1>0, <2>1, <3>3 DEF Traced, Types
      <4>. QED  BY <1>4, <2>3, <3>1, <3>3, <4>1 DEF Logged
    <3>. QED  BY <3>2, <3>3
  <2>. QED  BY <1>0, <2>4, <2>5 DEF Traced, HistoryTyped, history
<1>7. CASE ~markDeliveredOk(mem[e])
  <2>1. turn' = Rest /\ UNCHANGED <<paneActive, lastCmd>>
    BY <1>1, <1>7 DEF Complete
  <2>2. lastHanded[p] = "around"
    <3>1. ~(mem[e].state = "staged" /\ mem[e].attempt > 0)
      <4>1. mem[e].attempt \in Nat
        BY <1>0 DEF Types, Good, Snapshot
      <4>. QED  BY <1>7, <4>1 DEF markDeliveredOk
    <3>2. turn.lane = "approve" /\ mem[e].state # "staged"
      BY <1>0, <1>1, <1>2, <3>1 DEF Stations
    <3>. QED  BY <1>1, <1>5, <3>2 DEF Uncovers
  <2>. QED  BY <1>0, <1>4, <2>1, <2>2, RestTraced
<1>. QED  BY <1>6, <1>7

LEMMA WriteThrowsTraced ==
  ASSUME Inv, Traced, WriteThrows
  PROVE  Traced'
<1>0. Types /\ Doing("write") /\ turn' = Rest /\ UNCHANGED <<lastCmd, history>>
      /\ turn.e \in Exchanges /\ row[turn.e] \in Good
  BY Handled DEF Inv, IInv, WriteThrows
<1>1. \A p \in Panes : ~Finishing(p)
  <2>1. turn.at \in Nat /\ Placed(turn.lane, turn.at, "write")
    BY <1>0, Places DEF Turns
  <2>. QED  BY <2>1 DEF Placed, Finishing
<1>2. UNCHANGED paneActive
  <2>1. CASE turn.lane = "retry"
    <3>1. markDeliveryFailed(row[turn.e]).state = "draft"
      BY <1>0, Results DEF Good
    <3>. QED  BY <2>1, <3>1 DEF WriteThrows, Bound, InFlight
  <2>2. CASE turn.lane # "retry"
    BY <2>2 DEF WriteThrows
  <2>. QED  BY <2>1, <2>2
<1>. QED  BY <1>0, <1>1, <1>2, RestTraced

LEMMA RestageTraced ==
  ASSUME Inv, Traced, Restage
  PROVE  Traced'
<1>0. Types /\ Doing("restage") /\ Advance /\ UNCHANGED <<lastCmd, paneOf, history>>
  BY DEF Inv, IInv, Restage
<1>1. PICK e \in Exchanges : e = turn.e
  BY <1>0, Handled DEF Inv
<1>2. turn.lane = "retry" /\ turn.at = 1 /\ row[e].state = "draft" /\ row[e] \in Good
  BY <1>0, <1>1, Places DEF Placed, Inv, Stations, Types
<1>3. PICK p \in Panes : p = paneOf[e]
  BY <1>1, <1>2, OnPane DEF Inv, Writing
<1>4. paneActive' = [paneActive EXCEPT ![p] = e]
  <2>1. stageAutoExecute(row[e]).state = "staged"
    <3>1. "staged" \in EXCHANGE_STATES
      BY DEF EXCHANGE_STATES
    <3>. QED  BY <1>2, <3>1, GoodResults DEF stageAutoExecute
  <2>. QED  BY <1>1, <1>3, <2>1 DEF Restage, Bound, InFlight
<1>5. handed[e] = 0
  BY <1>1, <1>2 DEF Inv, IInv, TurnOK, Writing, WriteAt
<1>6. lastCmd[p] # e
  BY <1>3, <1>5, SpineAssumption DEF Traced, Logged
<1>7. turn'.lane = "retry" /\ turn'.at = 2 /\ turn'.e = e
  <2>1. turn.at # Len(Lane[turn.lane])
    BY <1>2, LaneEnds
  <2>. QED  BY <1>0, <1>1, <1>2, <2>1, Onward DEF Advance, Rest
<1>8. \A q : ~Finishing(q) /\ ~Finishing(q)'
  BY <1>2, <1>7 DEF Finishing
<1>9. UNCHANGED <<handed, lastHanded, misread>>
  BY <1>0 DEF history
<1>10. ASSUME NEW q \in Panes
       PROVE  Logged(q)'
  <2>1. Logged(q)
    BY DEF Traced
  <2>2. paneActive'[q] = paneActive[q] \/ (paneActive'[q] = e /\ lastCmd[q] # e)
    BY <1>0, <1>4, <1>6 DEF Types
  <2>. QED  BY <1>0, <1>8, <1>9, <2>1, <2>2 DEF Logged
<1>11. Retakes'
  BY <1>0, <1>3, <1>4, <1>6, <1>7 DEF Retakes, Types
<1>. QED  BY <1>9, <1>10, <1>11 DEF Traced, HistoryTyped

LEMMA RedeliveredTraced ==
  ASSUME Inv, Traced, Redelivered
  PROVE  Traced'
<1>0. Types /\ Doing("redelivered") /\ Advance /\ UNCHANGED <<lastCmd, history>>
  BY DEF Inv, IInv, Redelivered
<1>1. turn.lane = "retry" /\ turn.at = 5 /\ turn.e \in Exchanges
  BY <1>0, Handled, Places DEF Placed, Inv
<1>2. turn' = Rest
  BY <1>0, <1>1, LaneEnds DEF Advance
<1>3. PICK p \in Panes : p = paneOf[turn.e]
  BY <1>1, OnPane DEF Inv, Writing
<1>4. paneActive[p] = turn.e /\ lastCmd[p] # turn.e
  BY <1>1, <1>3 DEF Traced, Retakes
<1>5. \A q \in Panes : paneActive'[q] = paneActive[q]
  BY <1>0, <1>3, <1>4 DEF Redelivered, Bound, Types
<1>6. \A q \in Panes : ~Finishing(q)
  BY <1>1 DEF Finishing
<1>. QED  BY <1>0, <1>2, <1>5, <1>6, RestTraced

LEMMA PaneTraced ==
  ASSUME Inv, Traced, NEW p \in Panes, LegacyReport(p) \/ ManualCommand(p) \/ WriteAround(p)
  PROVE  Traced'
<1>0. Types /\ turn = Rest
  BY DEF Inv, IInv, LegacyReport, ManualCommand, WriteAround, Idle
<1>1. \A q : ~Finishing(q)
  BY <1>0 DEF Finishing, Rest
<1>2. \A q : ~Finishing(q)'
  BY <1>0 DEF LegacyReport, ManualCommand, WriteAround, Start, Finishing, Rest
<1>3. Retakes'
  BY <1>0 DEF LegacyReport, ManualCommand, WriteAround, Start, Retakes, Rest
<1>4. UNCHANGED <<paneActive, handed>>
  BY DEF LegacyReport, ManualCommand, WriteAround, live
<1>5. CASE LegacyReport(p)
  <2>1. ~misread'
    <3>1. lastCmd[p] = paneActive[p] /\ lastCmd[p] # None
      BY <1>5 DEF LegacyReport
    <3>2. lastHanded[p] \in {paneActive[p], "around"}
      BY <1>1, <3>1 DEF Traced, Logged
    <3>. QED  BY <1>5, <3>2 DEF LegacyReport, Traced
  <2>2. UNCHANGED <<lastCmd, lastHanded>>
    BY <1>5 DEF LegacyReport, live
  <2>3. \A q \in Panes : Logged(q)'
    BY <1>1, <1>2, <1>4, <2>2 DEF Traced, Logged
  <2>. QED  BY <1>3, <2>1, <2>2, <2>3 DEF Traced, HistoryTyped
<1>6. CASE ManualCommand(p) \/ WriteAround(p)
  <2>1. PICK what \in {"manual", "around"} :
          /\ lastHanded' = [lastHanded EXCEPT ![p] = what] /\ UNCHANGED misread
          /\ \/ what = "manual" /\ lastCmd' = [lastCmd EXCEPT ![p] = None]
             \/ what = "around" /\ lastCmd' = lastCmd
    BY <1>6 DEF ManualCommand, WriteAround
  <2>2. ASSUME NEW q \in Panes
        PROVE  Logged(q)'
    <3>1. Logged(q)
      BY DEF Traced
    <3>2. CASE q = p
      BY <1>0, <1>2, <1>4, <2>1, <3>1, <3>2 DEF Logged, Traced, HistoryTyped, Types
    <3>3. CASE q # p
      <4>1. lastCmd'[q] = lastCmd[q] /\ lastHanded'[q] = lastHanded[q]
        BY <1>0, <2>1, <3>3 DEF Traced, HistoryTyped, Types
      <4>. QED  BY <1>1, <1>2, <1>4, <3>1, <4>1 DEF Logged
    <3>. QED  BY <3>2, <3>3
  <2>3. HistoryTyped'
    BY <2>1 DEF Traced, HistoryTyped
  <2>. QED  BY <1>3, <2>1, <2>2, <2>3 DEF Traced
<1>. QED  BY <1>5, <1>6

LEMMA TracedStep ==
  ASSUME Inv, Inv', Traced, [Next]_vars
  PROVE  Traced'
<1>0. Types
  BY DEF Inv, IInv
<1>1. CASE Calm
  BY <1>1, CalmTraced
<1>2. CASE Crash
  <2>1. /\ turn' = Rest /\ UNCHANGED <<handed, lastHanded, misread>>
        /\ lastCmd' = [q \in Panes |-> None]
    BY <1>2 DEF Crash, history
  <2>2. \A q \in Panes : Logged(q)'
    BY <2>1 DEF Logged, Finishing, Rest
  <2>3. Retakes'
    BY <2>1 DEF Retakes, Rest
  <2>. QED  BY <2>1, <2>2, <2>3 DEF Traced, HistoryTyped
<1>. QED
  BY <1>1, <1>2, CalmSteps, WriteTraced, WriteThrowsTraced, CompleteTraced, RestageTraced,
     RedeliveredTraced, PaneTraced

LEMMA InitTraced ==
  ASSUME Init
  PROVE  Traced
<1>1. HistoryTyped
  BY DEF Init, HistoryTyped
<1>2. Retakes
  BY DEF Init, Retakes, Rest
<1>3. \A p \in Panes : Logged(p)
  BY DEF Init, Logged, Finishing, Rest
<1>. QED  BY <1>1, <1>2, <1>3 DEF Init, Traced

\* A done-line settles no exchange on the output of another's text or of a command logged
\* since, whatever the store loses; only a write that goes round the log escapes.
THEOREM DoneLineSettlesOwn == Spec => []DoneLineIsOwn
<1>1. Init => Traced
  BY InitTraced
<1>2. Traced /\ Inv /\ Inv' /\ [Next]_vars => Traced'
  BY TracedStep
<1>3. Traced => DoneLineIsOwn
  BY DEF Traced, DoneLineIsOwn
<1>. QED  BY <1>1, <1>2, <1>3, Invariance, PTL DEF Spec
=============================================================================
