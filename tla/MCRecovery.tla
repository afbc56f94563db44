----------------------------- MODULE MCRecovery -----------------------------
(***************************************************************************)
(* Instances of Recovery for TLC.                                          *)
(***************************************************************************)
EXTENDS Recovery, MCOrderBook

\* Orders that replay rebuilds: good-till-cancelled limits, a market order and a
\* stop order nothing here triggers.
ReplayableRequests ==
  { Limit(NoAccount, "sell", "gtc", 1, 1), Limit(NoAccount, "sell", "gtc", 1, 2),
    Limit(NoAccount, "buy", "gtc", 1, 2), Market(NoAccount, "buy", "ioc", 2),
    Stop("buy", "stop_limit", "gtc", 9, 2, 1) }

\* A maker, and an immediate-or-cancel limit order that wants more than it has.
DiscardRequests ==
  { Limit(NoAccount, "sell", "gtc", 1, 1), Limit(NoAccount, "buy", "ioc", 1, 2) }

\* An order, and one without a price, which validation turns away.
InvalidRequests ==
  { Limit(NoAccount, "sell", "gtc", 1, 1), Limit(NoAccount, "sell", "gtc", None, 1) }
==============================================================================
