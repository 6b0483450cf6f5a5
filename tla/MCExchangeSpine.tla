---------------------------- MODULE MCExchangeSpine ----------------------------
(* ExchangeSpine on a small instance.  Exchange ids are interchangeable, and so *)
(* are panes: the safety runs use both symmetries.                              *)
EXTENDS ExchangeSpine, TLC

Symmetry == Permutations(Exchanges) \cup Permutations(Panes)

=============================================================================
