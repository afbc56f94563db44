------------------------------ MODULE BookReplay ------------------------------
(***************************************************************************)
(* An order book as a value: what capture_snapshot takes of the live one,  *)
(* what restore_from_snapshot and replay build again                       *)
(* (src/backend/src/engine/book.rs).  Recovery uses these operators with   *)
(* one client at a time, ApiServer with concurrent ones.                   *)
(***************************************************************************)
EXTENDS OrderBookProperties

(***************************************************************************)
(* An OrderBook value, as restore and replay build it.                     *)
(***************************************************************************)

EmptyBook ==
  [nextOrderId |-> 1, nextTradeId |-> 1, sequence |-> 0, levels |-> EmptyLevels,
   orderIndex |-> <<>>, stopOrders |-> <<>>, history |-> <<>>, recentTrades |-> <<>>]

LiveBook ==
  [nextOrderId |-> nextOrderId, nextTradeId |-> nextTradeId, sequence |-> sequence,
   levels |-> levels, orderIndex |-> orderIndex, stopOrders |-> stopOrders,
   history |-> history, recentTrades |-> recentTrades]

Greater(a, b) == IF a < b THEN b ELSE a

AdvanceTo(book, seq) == [book EXCEPT !.sequence = Greater(@, seq)]

RestActiveMutant(book, order) ==
  IF IsStopOrder(order.kind) \/ order.price = None THEN book
  ELSE [book EXCEPT !.levels = Push(@, order)]

\* A stop order goes back to sleep, an order without a price is dropped.
RestActive(book, order) ==
  CASE IsStopOrder(order.kind) ->
         [book EXCEPT !.stopOrders = Put(@, order.id, order)]
    [] ~IsStopOrder(order.kind) /\ order.price = None -> book
    [] ~IsStopOrder(order.kind) /\ order.price # None ->
         [book EXCEPT !.levels = Push(@, order),
                      !.orderIndex = Put(@, order.id,
                         [side |-> order.side, price |-> order.price])]

RemoveActive(book, id) ==
  CASE id \in DOMAIN book.stopOrders ->
         [book EXCEPT !.stopOrders = Without(@, id)]
    [] id \notin DOMAIN book.stopOrders /\ id \in DOMAIN book.orderIndex ->
         [book EXCEPT !.orderIndex = Without(@, id),
                      !.levels = RemoveFromLevel(@, book.orderIndex[id].side,
                                                 book.orderIndex[id].price, id)]
    [] OTHER -> book

\* The maker of a replayed trade: its quantity saturates at 0, and an indexed
\* order its level does not hold is only recorded, with nothing left.
ReduceActive(book, id, quantity) ==
  IF id \notin DOMAIN book.orderIndex THEN book
  ELSE LET at == book.orderIndex[id]
           queue == Queue(book.levels, at.side, at.price)
           i == PositionOf(queue, id)
           amount == IF queue[i].remaining < quantity THEN queue[i].remaining ELSE quantity
           left == queue[i].remaining - amount
       IN  IF i = 0
             THEN [book EXCEPT !.history =
                     Record(@, id, Entry(book.sequence, "partially_filled", 0))]
             ELSE [book EXCEPT
                     !.levels = Deplete(@, at.side, at.price, i, amount),
                     !.orderIndex = IF left = 0 THEN Without(@, id) ELSE @,
                     !.history = RecordMakerFill(@, book.sequence, id, left)]

(***************************************************************************)
(* Snapshots.                                                              *)
(***************************************************************************)

\* The prices from best to worst for the orders that rest on `side'.
PriceAt(side, i) == IF side = "buy" THEN MaxOrderNotional + 1 - i ELSE i

\* The orders of one side, best price first, oldest first within a price.
ByPriority(side) ==
  FoldLeft(\o, <<>>, [i \in Price |-> Queue(levels, side, PriceAt(side, i))])

Captured ==
  [sequence |-> sequence, nextOrderId |-> nextOrderId, nextTradeId |-> nextTradeId,
   activeOrders |-> SetToSeq(StopsOf(stopOrders)) \o ByPriority("buy") \o ByPriority("sell"),
   recentTrades |-> recentTrades, history |-> history]

Restored(snapshot) ==
  FoldLeft(RestActive,
           [EmptyBook EXCEPT !.sequence = snapshot.sequence,
                             !.nextOrderId = snapshot.nextOrderId,
                             !.nextTradeId = snapshot.nextTradeId,
                             !.recentTrades = snapshot.recentTrades,
                             !.history = snapshot.history],
           snapshot.activeOrders)

(***************************************************************************)
(* Replay.                                                                 *)
(***************************************************************************)

ReplayOrderAck(book, ack) ==
  LET order == ack.order
      seq == Greater(book.sequence, order.createdAt)
      seen == [book EXCEPT !.sequence = seq,
                           !.nextOrderId = Greater(@, order.id + 1),
                           !.history = RecordStatus(@, seq, order, ack.status)]
  IN  IF ack.status \in {"resting", "partially_filled"} /\ order.remaining > 0
        THEN RestActive(seen, order)
        ELSE seen

ReplayTradeMutant(book, trade) ==
  [AdvanceTo(book, trade.sequence) EXCEPT
     !.nextTradeId = Greater(@, trade.id + 1),
     !.recentTrades = RetainRecent(@, trade)]

ReplayTrade(book, trade) ==
  LET seen == [AdvanceTo(book, trade.sequence) EXCEPT
                 !.nextTradeId = Greater(@, trade.id + 1)]
  IN  [ReduceActive(seen, trade.maker, trade.quantity) EXCEPT
         !.recentTrades = RetainRecent(@, trade)]

ApplyReplayEvent(book, event) ==
  CASE event.event = "order"       -> ReplayOrderAck(book, event.ack)
    [] event.event = "trade"       -> ReplayTrade(book, event.trade)
    [] event.event = "cancel"      -> RemoveActive(book, event.id)
    [] event.event = "mass_cancel" -> FoldLeft(RemoveActive, book, event.ids)
    [] event.event = "replace"     -> RemoveActive(book, event.cancelled)
    [] event.event = "book"        -> AdvanceTo(book, event.sequence)

Replayed(book, recorded) == FoldLeft(ApplyReplayEvent, book, recorded)

\* The worker puts another book in the place of its own.
Becomes(book) ==
  /\ nextOrderId' = book.nextOrderId
  /\ nextTradeId' = book.nextTradeId
  /\ sequence' = book.sequence
  /\ levels' = book.levels
  /\ orderIndex' = book.orderIndex
  /\ stopOrders' = book.stopOrders
  /\ history' = book.history
  /\ recentTrades' = book.recentTrades

Load(book) ==
  /\ pc = "idle"
  /\ Becomes(book)
  /\ UNCHANGED <<controlVars, events, ghostVars>>
==============================================================================
