------------------------- MODULE OrderBookRefinement -------------------------
(***************************************************************************)
(* The matching engine implements the order ledger.  The orders of the     *)
(* ledger that are open are those the engine holds anywhere: queued in a   *)
(* level, dormant among the stop orders, or executing with something left. *)
(***************************************************************************)
EXTENDS OrderBookProperties

\* What the ledger counts of an order: the quote budget of a notional one.
Measure(order) == IF order.kind = "market_by_notional" THEN order.quote ELSE order.remaining

Unit(kind) == IF kind = "market_by_notional" THEN "quote" ELSE "base"

SizeOf(order) ==
  [amount |-> IF order.kind = "market_by_notional" THEN order.quote ELSE order.original,
   unit |-> Unit(order.kind)]

\* Every order the engine could still trade, close or wake.
Held ==
  Resting(levels) \cup StopsOf(stopOrders)
    \cup (IF pc = "match" /\ ~IsFilled(taker) THEN {taker} ELSE {})

OpenOrders ==
  [id \in {order.id : order \in Held} |->
     Measure(CHOOSE order \in Held : order.id = id)]

Ledger ==
  INSTANCE OrderLedger
    WITH Ids     <- 1..MaxOrders,
         Sizes   <- {SizeOf(MakeOrder(0, req, 0)) : req \in Requests},
         entered <- [id \in DOMAIN submitted |-> SizeOf(submitted[id])],
         open    <- OpenOrders,
         matches <- [i \in DOMAIN tape |->
                       [maker |-> tape[i].maker, taker |-> tape[i].taker,
                        quantity |-> tape[i].quantity]]

\* Every step of the engine is a step of the ledger or none: no order appears in
\* two containers or comes back from the dead, no id is handed out twice, a trade
\* is between two open orders and takes from both the same quantity, rested,
\* activated, partially filled or cancelled as they may have been in the meantime
\* (book.rs:103-283, 458-496, 606-640; matching.rs:63-162).
ImplementsLedger == Ledger!LedgerSpec
==============================================================================
