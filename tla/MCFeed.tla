------------------------------- MODULE MCFeed -------------------------------
(***************************************************************************)
(* Instances of Feed for TLC.                                              *)
(***************************************************************************)
EXTENDS Feed, MCApiServer

\* Every operation, with a handler for trading, one for the operation of the server and
\* one for a stream.
EveryOperation ==
  LET trading == {"submit", "cancel", "replace", "mass_cancel"}
  IN  [h \in Handlers |-> CASE h = "trader" -> trading
                            [] h = "viewer" -> {"stream"}
                            [] OTHER -> AnyOperation[h] \ trading]

\* One handler streams and two trade.
TradeAndStream ==
  [h \in Handlers |-> IF h = "viewer" THEN {"stream"} ELSE {"submit", "cancel"}]
==============================================================================
