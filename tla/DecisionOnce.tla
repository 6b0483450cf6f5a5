---------------------------- MODULE DecisionOnce ----------------------------
(***************************************************************************)
(* What the approval gate promises of the things it asks the operator      *)
(* about (src/pendingApprovals.ts, src/pendingActions.ts): a request is    *)
(* asked once, is open until it is decided, is decided once, and takes     *)
(* effect at most once, only by being granted.  A step may decide several  *)
(* requests together (stop-all, a sweep, a promotion, a restart).          *)
(***************************************************************************)
EXTENDS Naturals

CONSTANT Items          \* the requests

VARIABLES
    status,             \* [Items -> "absent", "open", "granted", "closed"]
    effects             \* [Items -> Nat], how often each took effect

decisionVars == <<status, effects>>

DecisionInit ==
    /\ status = [i \in Items |-> "absent"]
    /\ effects = [i \in Items |-> 0]

\* Ask: the request becomes open.
Asked(i) == status[i] = "absent" /\ status'[i] = "open" /\ effects'[i] = effects[i]

\* Grant: an open request, or one the gate waves through, takes effect.
Granted(i) ==
    /\ status[i] \in {"absent", "open"}
    /\ status'[i] = "granted"
    /\ effects'[i] = effects[i] + 1

\* Close: rejected, expired, drained, its pane dead, or lost to a crash.
Closed(i) == status[i] = "open" /\ status'[i] = "closed" /\ effects'[i] = effects[i]

Kept(i) == status'[i] = status[i] /\ effects'[i] = effects[i]

DecisionNext ==
    /\ \A i \in Items : Kept(i) \/ Asked(i) \/ Granted(i) \/ Closed(i)
    /\ status' = [i \in Items |-> status'[i]]
    /\ effects' = [i \in Items |-> effects'[i]]

DecisionSpec == DecisionInit /\ [][DecisionNext]_decisionVars
=============================================================================
