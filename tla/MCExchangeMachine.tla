--------------------------- MODULE MCExchangeMachine ---------------------------
(* ExchangeMachine on a small instance: two exchanges, two approval ids. *)
EXTENDS ExchangeMachine, TLC

=============================================================================
