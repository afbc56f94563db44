----------------------------- MODULE MCOrderBook -----------------------------
(***************************************************************************)
(* Instances of the order book for TLC.  Each request set is the smallest  *)
(* mix of orders that makes one group of rules interact.                   *)
(***************************************************************************)
EXTENDS OrderBookRefinement

Blank == [account |-> NoAccount, side |-> "buy", kind |-> "limit", tif |-> "gtc",
          price |-> None, stop |-> None, quantity |-> 0, quote |-> None]

Limit(account, side, tif, price, quantity) ==
  [Blank EXCEPT !.account = account, !.side = side, !.tif = tif, !.price = price,
                !.quantity = quantity]

PostOnly(side, price, quantity) ==
  [Limit(NoAccount, side, "gtc", price, quantity) EXCEPT !.kind = "post_only"]

Market(account, side, tif, quantity) ==
  [Blank EXCEPT !.account = account, !.side = side, !.kind = "market", !.tif = tif,
                !.quantity = quantity]

Notional(quote) ==
  [Blank EXCEPT !.kind = "market_by_notional", !.quote = quote]

Stop(side, kind, tif, stop, price, quantity) ==
  [Blank EXCEPT !.side = side, !.kind = kind, !.tif = tif, !.stop = stop,
                !.price = price, !.quantity = quantity]

\* Anonymous trading: two prices, makers of one and two lots, every kind of taker,
\* and a quote budget that ends inside a level.
CoreRequests ==
  { Limit(NoAccount, "sell", "gtc", 1, 1), Limit(NoAccount, "sell", "gtc", 2, 2),
    Limit(NoAccount, "buy", "gtc", 2, 2), Limit(NoAccount, "buy", "ioc", 2, 3),
    Market(NoAccount, "sell", "ioc", 2), PostOnly("buy", 1, 1),
    Notional(4) }

\* Two accounts and an anonymous client: own orders ahead of, behind and among
\* the orders a taker may trade with, and fill-or-kill on both sides.
AccountRequests ==
  { Limit("alice", "sell", "gtc", 1, 1), Limit("bob", "sell", "gtc", 2, 1),
    Limit("alice", "buy", "gtc", 2, 2), Limit("bob", "buy", "gtc", 1, 1),
    Limit("alice", "buy", "fok", 2, 2), Limit("bob", "sell", "fok", 1, 2),
    Limit(NoAccount, "buy", "gtc", 1, 1) }

\* Stop orders on both sides that trigger each other, and the limit orders they
\* sweep: no fill-or-kill stop limit.
StopRequests ==
  { Limit(NoAccount, "sell", "gtc", 1, 1), Limit(NoAccount, "sell", "gtc", 2, 3),
    Limit(NoAccount, "buy", "gtc", 2, 2),
    Stop("buy", "stop_limit", "gtc", 1, 2, 1), Stop("buy", "stop_market", "gtc", 2, None, 1),
    Stop("sell", "stop_limit", "gtc", 1, 1, 1) }

\* Open-order limits against triggers and replacements; the blocked account and
\* the off-tick and off-lot requests are turned away.
RiskRequests ==
  { Limit("alice", "sell", "gtc", 2, 2), Limit("bob", "buy", "gtc", 2, 4),
    Limit(NoAccount, "buy", "gtc", 2, 2), Limit("mallory", "buy", "gtc", 2, 2),
    Limit("bob", "buy", "gtc", 3, 2), Limit("bob", "buy", "gtc", 2, 3),
    [Stop("sell", "stop_limit", "gtc", 2, 2, 2) EXCEPT !.account = "alice"],
    [Stop("buy", "stop_limit", "gtc", 2, 2, 2) EXCEPT !.account = "bob"],
    Market(NoAccount, "buy", "gtc", 2) }

\* A fill-or-kill stop-limit order, and two limit orders whose trade wakes it and
\* leaves half of what it wants.
FokStopRequests ==
  { Limit(NoAccount, "sell", "gtc", 1, 2), Limit(NoAccount, "buy", "gtc", 1, 1),
    Stop("buy", "stop_limit", "fok", 1, 1, 2) }

\* A stop order below two prices that one taker sweeps.
SweepRequests ==
  { Limit(NoAccount, "sell", "gtc", 1, 1), Limit(NoAccount, "sell", "gtc", 2, 1),
    Limit(NoAccount, "buy", "gtc", 2, 2), Stop("sell", "stop_market", "gtc", 1, None, 1) }

\* A stop order that triggers, and limit orders to trigger it and to trade with it.
TriggerRequests ==
  { Limit(NoAccount, "sell", "gtc", 1, 1), Limit(NoAccount, "buy", "gtc", 1, 1),
    Stop("buy", "stop_market", "gtc", 1, None, 1) }
==============================================================================
