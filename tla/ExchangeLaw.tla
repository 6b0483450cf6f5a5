------------------------------ MODULE ExchangeLaw ------------------------------
(***************************************************************************)
(* What an exchange promises whoever looks at it, at whatever level: its   *)
(* state moves along the legal relation only, it is called delivered only  *)
(* once a delivery attempt was recorded, and it is delivered at most once, *)
(* for ever.  The abstract specification that the in-memory machine        *)
(* (ExchangeMachine) and the durable rows (ExchangeSpine) implement.       *)
(*                                                                         *)
(* Many exchanges may move in one step (a boot sweep quarantines every     *)
(* in-flight one), so a step moves each exchange on its own or not at all. *)
(***************************************************************************)
EXTENDS ExchangeLifecycle

CONSTANT Exchanges

VARIABLES
  st,         \* st[e]: the lifecycle state, "absent" before the exchange exists
  armed,      \* armed[e]: a delivery attempt has been recorded
  delivered   \* delivered[e]: the exchange has been called delivered

lawVars == <<st, armed, delivered>>

LawInit ==
  /\ st = [e \in Exchanges |-> "absent"]
  /\ armed = [e \in Exchanges |-> FALSE]
  /\ delivered = [e \in Exchanges |-> FALSE]

Stays(e) ==
  /\ st'[e] = st[e]
  /\ armed'[e] = armed[e]
  /\ delivered'[e] = delivered[e]

Appears(e) ==
  /\ st[e] = "absent" /\ st'[e] = "draft"
  /\ armed'[e] = armed[e]
  /\ delivered'[e] = delivered[e]

\* Intent: recorded while staged, before the exchange is called delivered.
Arms(e) ==
  /\ st[e] = "staged" /\ st'[e] = "staged"
  /\ armed'[e] /\ delivered'[e] = delivered[e]

Delivers(e) ==
  /\ st[e] = "staged" /\ st'[e] = "delivered"
  /\ armed[e] /\ ~delivered[e]
  /\ armed'[e] /\ delivered'[e]

Moves(e) ==
  /\ isLegalTransition(st[e], st'[e]) /\ st'[e] # "delivered"
  /\ armed'[e] = armed[e]
  /\ delivered'[e] = delivered[e]

LawStep(e) == Stays(e) \/ Appears(e) \/ Arms(e) \/ Delivers(e) \/ Moves(e)

LawNext ==
  /\ st' = [e \in Exchanges |-> st'[e]]
  /\ armed' = [e \in Exchanges |-> armed'[e]]
  /\ delivered' = [e \in Exchanges |-> delivered'[e]]
  /\ \A e \in Exchanges : LawStep(e)

LawSpec == LawInit /\ [][LawNext]_lawVars

=============================================================================
