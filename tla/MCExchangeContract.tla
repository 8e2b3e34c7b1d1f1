------------------------- MODULE MCExchangeContract -------------------------
(* Small instances of ExchangeContract for TLC. *)
EXTENDS ExchangeContract
=============================================================================
