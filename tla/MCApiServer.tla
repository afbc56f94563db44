----------------------------- MODULE MCApiServer -----------------------------
(***************************************************************************)
(* Instances of ApiServer for TLC.                                         *)
(***************************************************************************)
EXTENDS ApiServer, MCOrderBook

\* A maker and a taker that takes it and rests.
ServerRequests ==
  { Limit(NoAccount, "sell", "gtc", 1, 1), Limit(NoAccount, "buy", "gtc", 1, 2) }

AnyOperation ==
  [h \in Handlers |->
     {"submit", "cancel", "replace", "mass_cancel", "kill_switch", "checkpoint",
      "restore", "replay"}]

Submissions == [h \in Handlers |-> {"submit"}]

\* One handler trades, the other reads the engine and the journal.
TradeAndCheckpoint ==
  [h \in Handlers |-> IF h = "trader" THEN {"submit"} ELSE {"checkpoint"}]

TradeAndReplay ==
  [h \in Handlers |-> IF h = "trader" THEN {"submit"} ELSE {"replay"}]

\* No operation prefers a handler.
Interchangeable == Permutations(Handlers)
==============================================================================
