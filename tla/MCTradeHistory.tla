--------------------------- MODULE MCTradeHistory ---------------------------
(* Pages of the list from its top and across the boundary of two chunks. *)
EXTENDS TradeHistory

Pages == { <<0, 2>>, <<1, 2>> }
=============================================================================
