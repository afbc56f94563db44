------------------------ MODULE OrderBookProperties ------------------------
(***************************************************************************)
(* What the matching engine promises.  Except where a property says so it  *)
(* holds in every state, in the middle of a command too.                   *)
(***************************************************************************)
EXTENDS OrderBook

\* Every variable keeps the type of its Rust field; in particular no quantity
\* underflows its u64 (book.rs:66-78, matching.rs:63-125).
TypeOK ==
  /\ nextOrderId \in Nat
  /\ nextTradeId \in Nat
  /\ sequence \in Nat
  /\ IsLevels(levels)
  /\ IsMap(orderIndex, Nat, Location)
  /\ IsMap(stopOrders, Nat, Order)
  /\ IsMap(history, Nat, Seq(HistoryEntry))
  /\ recentTrades \in Seq(Trade)
  /\ pc \in Phase
  /\ taker \in Order
  /\ fills \in Seq(Trade)
  /\ pending \in Seq(SUBSET Nat)
  /\ replaced \in Nat
  /\ cancelling \in SUBSET Nat
  /\ cancelled \in Seq(Nat)
  /\ IsMap(submitted, Nat, Order)
  /\ tape \in Seq(Trade)

(***************************************************************************)
(* The book's three containers agree.                                      *)
(***************************************************************************)

\* Every queued order stands in the level the index sends cancel to, has
\* something left, and stands there once; a level in the map is not empty.
LevelsIndexed ==
  \A side \in Side : \A price \in DOMAIN levels[side] :
    LET queue == levels[side][price]
    IN  /\ queue # <<>>
        /\ \A i \in DOMAIN queue :
             /\ queue[i].side = side
             /\ queue[i].price = price
             /\ queue[i].remaining > 0
             /\ queue[i].id \in DOMAIN orderIndex
             /\ orderIndex[queue[i].id] = [side |-> side, price |-> price]
             /\ \A j \in DOMAIN queue : queue[i].id = queue[j].id => i = j

\* Every indexed order is in its level.
IndexQueued ==
  \A id \in DOMAIN orderIndex : Cancelled(id) # {}

\* A dormant stop is under its own id, in no level and not the one executing.
StopsApart ==
  \A id \in DOMAIN stopOrders :
    /\ stopOrders[id].id = id
    /\ IsStopOrder(stopOrders[id].kind)
    /\ id \notin DOMAIN orderIndex
    /\ pc = "match" => id # taker.id

\* cancel, mass cancel and active_orders reach an order through order_index,
\* the levels and stop_orders, which every operation updates one by one
\* (book.rs:264-283, 458-471, 606-640; matching.rs:63-125): they never disagree,
\* so cancel's OrderNotFound after the index removal is unreachable.
IndexMatchesLevels == LevelsIndexed /\ IndexQueued /\ StopsApart

(***************************************************************************)
(* Quantities, history and trades.                                         *)
(***************************************************************************)

\* What a sequence of numbers adds up to.
Total(amounts) == FoldLeft(+, 0, amounts)

\* What an order has traded, and what a buyer has paid, over all trades ever made.
Filled(id) ==
  Total([i \in DOMAIN tape |->
           IF id \in {tape[i].maker, tape[i].taker} THEN tape[i].quantity ELSE 0])

Spent(id) ==
  Total([i \in DOMAIN tape |->
           IF id = tape[i].taker THEN tape[i].price * tape[i].quantity ELSE 0])

Executing(id) == pc = "match" /\ taker.id = id

\* What the engine last told the world is left of an order.
Left(id) == IF Executing(id) THEN taker.remaining ELSE Last(history[id]).remaining

IsNotional(id) == submitted[id].kind = "market_by_notional"

\* Over all the commands that touch an order -- its own matching, every taker
\* that hits it, its activation -- what it traded plus what its history says is
\* left is what it was submitted with (order_state.rs:7-43, matching.rs:152-162).
QuantityConserved ==
  \A id \in DOMAIN submitted :
    ~IsNotional(id) => Filled(id) + Left(id) = submitted[id].original

\* A market-by-notional order never spends more than its quote quantity, and what it
\* has spent and what its budget still says make up that quantity at every trade; the
\* code would hide an overspend in a saturating_sub (matching.rs:137-162).
NotionalWithinBudget ==
  \A id \in DOMAIN submitted :
    IsNotional(id) =>
      /\ Spent(id) <= submitted[id].quote
      /\ Executing(id) => Spent(id) + taker.quote = submitted[id].quote

\* What GET /orders/:id/history and GET /orders tell of an active order is what
\* the book holds of it: its last entry is resting or partially filled, with the
\* remaining quantity of the queued order (command.rs:203-214, book.rs:687-700).
HistoryTracksBook ==
  \A order \in Resting(levels) \cup StopsOf(stopOrders) :
    /\ order.id \in DOMAIN history
    /\ Last(history[order.id]).status \in {"resting", "partially_filled"}
    /\ Last(history[order.id]).remaining = order.remaining

\* Once an order has left the book nothing is ever recorded about it again:
\* no trade, no cancel and no activation reaches a filled, rejected or cancelled
\* order (order_state.rs:7-43).
ClosedOrdersFrozen ==
  [][\A id \in DOMAIN history :
       id \notin ActiveIds /\ ~Executing(id) => history'[id] = history[id]]_vars

\* No two orders of one account ever trade with each other (price_level.rs:15-25).
NoSelfTrade ==
  \A trade \in ToSet(tape) :
    submitted[trade.maker].account = submitted[trade.taker].account
      => submitted[trade.maker].account = NoAccount

\* The sequence number at which an order took its place in a level: an activated
\* stop order queues behind what rested before its activation.
QueuedAt(id) ==
  history[id][IF IsStopOrder(submitted[id].kind) THEN 3 ELSE 2].sequence

\* Price-time priority: no order the taker could have traded with instead rests at
\* a better price, or at the same price for longer (ARCHITECTURE.md:40,
\* matching.rs:8-61, price_level.rs:15-19).
PriceTimePriority ==
  [][tape' # tape =>
       LET trade == Last(tape')
       IN  \A order \in RestingOn(levels, Opposite(trade.aggressor)) :
             order.id # trade.maker /\ Matchable(order, submitted[trade.taker].account)
               => \/ BetterFor(trade.aggressor, trade.price, order.price)
                  \/ /\ order.price = trade.price
                     /\ QueuedAt(trade.maker) <= QueuedAt(order.id)]_vars

\* GET /trades shows the newest trades, none lost and none reordered, up to the
\* configured number (trade.rs:27-36).
RecentTradesNewest ==
  recentTrades = SubSeq(tape, IF Len(tape) <= MaxRecentTrades THEN 1
                              ELSE Len(tape) - MaxRecentTrades + 1, Len(tape))

(***************************************************************************)
(* The resting book.                                                       *)
(***************************************************************************)

\* The best bid stays below the best ask (ARCHITECTURE.md:45): self-trade
\* prevention skips a taker's own orders, so a remainder could rest across them.
NeverCrossed ==
  \A bid \in DOMAIN levels["buy"], ask \in DOMAIN levels["sell"] : bid < ask

\* The open-order limits hold at all times although they are checked only at
\* submission, before triggers and replacements move orders (reject_reason.rs:43-56).
OpenOrdersBounded ==
  /\ OpenCount <= MaxOpenOrders
  /\ \A account \in {order.account : order \in Resting(levels) \cup StopsOf(stopOrders)} :
       OpenCountOf(account) <= MaxOpenOrdersPerAccount

\* A fill-or-kill order that is done trading has traded all of its quantity or
\* none, and never rests (ARCHITECTURE.md:43, book.rs:172-186, 524-559).
FokAllOrNothing ==
  \A id \in DOMAIN submitted :
    submitted[id].tif = "fok" /\ ~Executing(id)
      => /\ id \notin DOMAIN orderIndex
         /\ Filled(id) \in {0, submitted[id].original}

(***************************************************************************)
(* Stop orders and whole commands.                                         *)
(***************************************************************************)

\* Trade i is the last one its taker made: the only one whose price
\* trigger_stop_orders sees.
EndsTaker(i) == i = Len(tape) \/ tape[i + 1].taker # tape[i].taker

CrossedBy(stop, trade) ==
  trade.sequence > stop.createdAt /\ StopTriggered(stop, trade.price)

\* Between commands no stop order is still dormant that the last trade of some
\* taker -- a client's or an activated stop's, however deep in the cascade -- has
\* crossed (book.rs:256-259, 473-496).
StopsActivated ==
  pc = "idle" =>
    \A id \in DOMAIN stopOrders, i \in DOMAIN tape :
      EndsTaker(i) => ~CrossedBy(stopOrders[id], tape[i])

\* ARCHITECTURE.md:42: a stop order activates after a trade price crosses its stop
\* price.  Not the last trade of a taker only: any trade.
SweptStopsActivated ==
  pc = "idle" =>
    \A id \in DOMAIN stopOrders : \A trade \in ToSet(tape) : ~CrossedBy(stopOrders[id], trade)

\* A mass cancel leaves nothing active, and what it reports as cancelled is what
\* the histories say: no order's story ends resting (ARCHITECTURE.md:87,
\* book.rs:285-296).
MassCancelComplete ==
  pc = "idle" /\ events # <<>> /\ events[1].event = "mass_cancel" =>
    /\ ActiveIds = {}
    /\ \A id \in DOMAIN history : Last(history[id]).status # "resting"
    /\ \A id \in ToSet(events[1].ids) : Last(history[id]).status = "cancelled"

\* Every command ends: the matching loop runs out of makers or of quantity, and a
\* cascade of stop orders activates each of them once (book.rs:473-496).
CommandsComplete == (pc # "idle") ~> (pc = "idle")
==============================================================================
