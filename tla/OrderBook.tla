------------------------------ MODULE OrderBook ------------------------------
(***************************************************************************)
(* The matching engine of one symbol: OrderBook of                         *)
(* src/backend/src/engine/book.rs with matching.rs, price_level.rs,        *)
(* order_state.rs, sequencer.rs, trade.rs and reject_reason.rs.            *)
(*                                                                         *)
(* One command runs at a time (the worker thread of command.rs owns the    *)
(* book), but a command is many steps here: one per trade, one to settle   *)
(* the taker, one per stop order it triggers, one per order of a mass      *)
(* cancel.  `pc' says where in the command the engine is and `pending' is  *)
(* the call stack of trigger_stop_orders, whose activated orders execute,  *)
(* trade and trigger in turn.                                              *)
(*                                                                         *)
(* Commands the book answers with an error before changing anything (a     *)
(* cancel or a replace of an unknown order) are stuttering steps.          *)
(***************************************************************************)
EXTENDS BookState

CONSTANTS
  Requests,   (* the submissions and replacements clients may send       *)
  MaxOrders   (* bound: orders ever submitted                            *)

ASSUME RequestsAssumption == Requests \subseteq NewOrder
ASSUME MaxOrdersAssumption == MaxOrders \in Nat

VARIABLES
  nextOrderId,   (* next_order_id                                        *)
  nextTradeId,   (* next_trade_id                                        *)
  sequence,      (* sequencer.current                                    *)
  levels,        (* bids and asks: side -> price -> queue of orders      *)
  orderIndex,    (* order_index: id -> [side, price]                     *)
  stopOrders,    (* stop_orders: id -> dormant order                     *)
  history,       (* order_history: id -> entries                         *)
  recentTrades,  (* recent_trades                                        *)
  pc,            (* where in the current command the engine is           *)
  taker,         (* the order executing, while pc = "match"              *)
  fills,         (* its trades so far                                    *)
  pending,       (* triggered stops not looked at yet, innermost first   *)
  replaced,      (* the order a running replace has cancelled, else 0    *)
  cancelling,    (* the orders a running mass cancel has still to cancel *)
  cancelled,     (* the ids it has cancelled, in order                   *)
  events,        (* MatchOutcome.events of the current or last command   *)
  submitted,     (* history variable: every order as it was created      *)
  tape           (* history variable: every trade ever made              *)

bookVars    == <<levels, orderIndex, stopOrders>>
counterVars == <<nextOrderId, nextTradeId>>
controlVars == <<pc, taker, fills, pending, replaced, cancelling, cancelled>>
ghostVars   == <<submitted, tape>>
vars == <<counterVars, sequence, bookVars, history, recentTrades, controlVars,
          events, ghostVars>>

Phase == {"idle", "match", "trigger", "replace", "mass_cancel"}

Init ==
  /\ nextOrderId = 1
  /\ nextTradeId = 1
  /\ sequence = 0
  /\ levels = EmptyLevels
  /\ orderIndex = <<>>
  /\ stopOrders = <<>>
  /\ history = <<>>
  /\ recentTrades = <<>>
  /\ pc = "idle"
  /\ taker = NoOrder
  /\ fills = <<>>
  /\ pending = <<>>
  /\ replaced = 0
  /\ cancelling = {}
  /\ cancelled = <<>>
  /\ events = <<>>
  /\ submitted = <<>>
  /\ tape = <<>>

ActiveIdsMutant == DOMAIN orderIndex

ActiveIds == DOMAIN orderIndex \cup DOMAIN stopOrders

OpenCount == Cardinality(DOMAIN orderIndex) + Cardinality(DOMAIN stopOrders)

OpenCountOf(account) ==
  IF account = NoAccount THEN 0
  ELSE Cardinality({order \in Resting(levels) \cup StopsOf(stopOrders) :
                      order.account = account})

(***************************************************************************)
(* The events a command returns.                                           *)
(***************************************************************************)

Ack(order, status, trades) == [order |-> order, status |-> status, trades |-> trades]

OrderEvent(ack)         == [event |-> "order", ack |-> ack]
TradeEvent(trade)       == [event |-> "trade", trade |-> trade]
BookEvent(seq)          == [event |-> "book", sequence |-> seq]
CancelEvent(id)         == [event |-> "cancel", id |-> id]
MassCancelEvent(ids)    == [event |-> "mass_cancel", ids |-> ids]
ReplaceEvent(id, ack)   == [event |-> "replace", cancelled |-> id, ack |-> ack]

\* One order's acknowledgement, trades and book; a replace names the order it
\* cancelled in front of its replacement's events.
AckEvents(ack, seq) ==
  (IF replaced = 0 THEN <<>> ELSE <<ReplaceEvent(replaced, ack)>>)
  \o <<OrderEvent(ack)>>
  \o [i \in DOMAIN ack.trades |-> TradeEvent(ack.trades[i])]
  \o <<BookEvent(seq)>>

(***************************************************************************)
(* submit.                                                                 *)
(***************************************************************************)

Admitted(req) == Validates(req, OpenCount, OpenCountOf(req.account))

Incoming(req) == MakeOrder(nextOrderId, req, sequence + 1)

\* Both an admitted and a rejected request take an id and a sequence number.
Create(req) ==
  /\ nextOrderId' = nextOrderId + 1
  /\ sequence' = sequence + 1
  /\ submitted' = Put(submitted, nextOrderId, Incoming(req))

\* The engine answers and is ready for the next command.
Answer(newEvents) ==
  /\ pc' = "idle"
  /\ replaced' = 0
  /\ events' = newEvents
  /\ cancelled' = <<>>
  /\ UNCHANGED <<taker, fills, pending, cancelling>>

RejectInvalid(req) ==
  /\ ~Admitted(req)
  /\ Create(req)
  /\ history' = RecordStatus(history, sequence + 1, Incoming(req), "rejected")
  /\ Answer(<<>>)
  /\ UNCHANGED <<nextTradeId, bookVars, recentTrades, tape>>

\* An accepted order that ends at once as `status' is recorded twice.
AcceptAs(req, status) ==
  /\ history' = RecordStatus(
                  RecordStatus(history, sequence + 1, Incoming(req), "accepted"),
                  sequence + 1, Incoming(req), status)
  /\ Answer(AckEvents(Ack(Incoming(req), status, <<>>), sequence + 1))

AcceptStop(req) ==
  /\ Admitted(req)
  /\ IsStopOrder(req.kind)
  /\ Create(req)
  /\ stopOrders' = Put(stopOrders, nextOrderId, Incoming(req))
  /\ AcceptAs(req, "resting")
  /\ UNCHANGED <<nextTradeId, levels, orderIndex, recentTrades, tape>>

KillsFok(req) == req.tif = "fok" /\ ~CanFullyFill(levels, Incoming(req))

RejectFok(req) ==
  /\ Admitted(req)
  /\ ~IsStopOrder(req.kind)
  /\ KillsFok(req)
  /\ Create(req)
  /\ AcceptAs(req, "rejected")
  /\ UNCHANGED <<nextTradeId, bookVars, recentTrades, tape>>

BeginExecution(req) ==
  /\ Admitted(req)
  /\ ~IsStopOrder(req.kind)
  /\ ~KillsFok(req)
  /\ Create(req)
  /\ history' = RecordStatus(history, sequence + 1, Incoming(req), "accepted")
  /\ pc' = "match"
  /\ taker' = Incoming(req)
  /\ fills' = <<>>
  /\ events' = <<>>
  /\ UNCHANGED <<nextTradeId, bookVars, recentTrades, pending, replaced,
                 cancelling, cancelled, tape>>

Submit(req) ==
  /\ \/ pc = "idle" /\ nextOrderId <= MaxOrders
     \/ pc = "replace"
  /\ \/ RejectInvalid(req)
     \/ AcceptStop(req)
     \/ RejectFok(req)
     \/ BeginExecution(req)

(***************************************************************************)
(* execute_taker.                                                          *)
(***************************************************************************)

PostOnlyCrosses == taker.kind = "post_only" /\ WouldCross(levels, taker)

RejectPostOnly ==
  /\ pc = "match"
  /\ PostOnlyCrosses
  /\ history' = RecordStatus(history, sequence, taker, "rejected")
  /\ pc' = "idle"
  /\ taker' = NoOrder
  /\ replaced' = 0
  /\ events' = events \o AckEvents(Ack(taker, "rejected", <<>>), sequence)
  /\ UNCHANGED <<counterVars, sequence, bookVars, recentTrades, fills, pending,
                 cancelling, cancelled, ghostVars>>

\* The trade the matching loop makes next: the first matchable order of the
\* best matchable level.
MakerSide  == Opposite(taker.side)
BestPrice  == BestMatchable(levels, taker)
BestPlace  == FirstMatchable(levels[MakerSide][BestPrice], taker.account)
BestMaker  == levels[MakerSide][BestPrice][BestPlace]
NextAmount == TradeQuantity(BestMaker.remaining, taker, BestPrice)

CanTrade ==
  /\ HasInterest(taker)
  /\ MatchablePrices(levels, taker) # {}
  /\ NextAmount > 0

NextTrade ==
  [id |-> nextTradeId, maker |-> BestMaker.id, taker |-> taker.id,
   price |-> BestPrice, quantity |-> NextAmount, aggressor |-> taker.side,
   sequence |-> sequence + 1]

FillBest ==
  /\ pc = "match"
  /\ ~PostOnlyCrosses
  /\ CanTrade
  /\ levels' = Deplete(levels, MakerSide, BestPrice, BestPlace, NextAmount)
  /\ orderIndex' = IF BestMaker.remaining = NextAmount
                     THEN Without(orderIndex, BestMaker.id)
                     ELSE orderIndex
  /\ taker' = ReduceTaker(taker, BestPrice, NextAmount)
  /\ sequence' = sequence + 1
  /\ nextTradeId' = nextTradeId + 1
  /\ history' = RecordMakerFill(history, sequence + 1, BestMaker.id,
                                BestMaker.remaining - NextAmount)
  /\ recentTrades' = RetainRecent(recentTrades, NextTrade)
  /\ fills' = Append(fills, NextTrade)
  /\ tape' = Append(tape, NextTrade)
  /\ UNCHANGED <<nextOrderId, stopOrders, pc, pending, replaced, cancelling,
                 cancelled, events, submitted>>

StopsTriggeredMutant ==
  IF fills = <<>> THEN {} ELSE TriggeredStops(stopOrders, Head(fills).price)

\* trigger_stop_orders is handed the price of the taker's last trade only.
StopsTriggered ==
  IF fills = <<>> THEN {} ELSE TriggeredStops(stopOrders, Last(fills).price)

PushPending(stack, ids) == IF ids = {} THEN stack ELSE <<ids>> \o stack

PopPendingMutant(stack, id) == stack

PopPending(stack, id) == PushPending(Tail(stack), Head(stack) \ {id})

Settle ==
  /\ pc = "match"
  /\ ~PostOnlyCrosses
  /\ ~CanTrade
  /\ LET status == SettledStatus(levels, taker, fills # <<>>)
     IN  /\ history' = RecordStatus(history, sequence, taker, status)
         /\ events' = events \o AckEvents(Ack(taker, status, fills), sequence)
  /\ \/ /\ Rests(levels, taker)
        /\ levels' = Push(levels, taker)
        /\ orderIndex' = Put(orderIndex, taker.id,
                             [side |-> taker.side, price |-> taker.price])
     \/ /\ ~Rests(levels, taker)
        /\ UNCHANGED <<levels, orderIndex>>
  /\ pending' = PushPending(pending, StopsTriggered)
  /\ pc' = IF pending' = <<>> THEN "idle" ELSE "trigger"
  /\ taker' = NoOrder
  /\ fills' = <<>>
  /\ replaced' = 0
  /\ UNCHANGED <<counterVars, sequence, stopOrders, recentTrades, cancelling,
                 cancelled, ghostVars>>

(***************************************************************************)
(* trigger_stop_orders: ids are visited in increasing order, and one that  *)
(* an inner call has already activated is skipped.  An activated order     *)
(* goes straight to execute_taker, with no fill-or-kill check.             *)
(***************************************************************************)

NextTriggered == CHOOSE id \in Head(pending) : \A other \in Head(pending) : id <= other

ActivateStop ==
  /\ pc = "trigger"
  /\ NextTriggered \in DOMAIN stopOrders
  /\ stopOrders' = Without(stopOrders, NextTriggered)
  /\ taker' = Activated(stopOrders[NextTriggered])
  /\ pending' = PopPending(pending, NextTriggered)
  /\ pc' = "match"
  /\ UNCHANGED <<counterVars, sequence, levels, orderIndex, history, recentTrades,
                 fills, replaced, cancelling, cancelled, events, ghostVars>>

SkipStop ==
  /\ pc = "trigger"
  /\ NextTriggered \notin DOMAIN stopOrders
  /\ pending' = PopPending(pending, NextTriggered)
  /\ pc' = IF pending' = <<>> THEN "idle" ELSE "trigger"
  /\ UNCHANGED <<counterVars, sequence, bookVars, history, recentTrades, taker,
                 fills, replaced, cancelling, cancelled, events, ghostVars>>

(***************************************************************************)
(* cancel, replace, cancel_all.                                            *)
(***************************************************************************)

\* The order cancel(id) finds, if any: the first of that id in the level that the index
\* names, or a stop order.
Cancelled(id) ==
  IF id \in DOMAIN orderIndex
    THEN LET queue == Queue(levels, orderIndex[id].side, orderIndex[id].price)
         IN  {queue[i] : i \in {PositionOf(queue, id)} \ {0}}
    ELSE {stopOrders[id]}

\* cancel(id) for an active id.  An indexed order that its level does not hold
\* loses its index entry and nothing else.
CancelOrder(id) ==
  /\ IF id \in DOMAIN orderIndex
       THEN /\ orderIndex' = Without(orderIndex, id)
            /\ levels' = RemoveFromLevel(levels, orderIndex[id].side,
                                         orderIndex[id].price, id)
            /\ stopOrders' = stopOrders
       ELSE /\ stopOrders' = Without(stopOrders, id)
            /\ UNCHANGED <<orderIndex, levels>>
  /\ IF Cancelled(id) = {}
       THEN UNCHANGED <<sequence, history>>
       ELSE /\ sequence' = sequence + 1
            /\ \E order \in Cancelled(id) :
                 history' = RecordStatus(history, sequence + 1, order, "cancelled")

Cancel(id) ==
  /\ pc = "idle"
  /\ id \in ActiveIds
  /\ CancelOrder(id)
  /\ Answer(IF Cancelled(id) = {} THEN <<>>
                                  ELSE <<CancelEvent(id), BookEvent(sequence + 1)>>)
  /\ UNCHANGED <<counterVars, recentTrades, ghostVars>>

\* The replacement is then submitted by Submit, whatever its fate.
Replace(id) ==
  /\ pc = "idle"
  /\ nextOrderId <= MaxOrders
  /\ id \in ActiveIds
  /\ CancelOrder(id)
  /\ IF Cancelled(id) = {}
       THEN pc' = "idle" /\ UNCHANGED replaced
       ELSE pc' = "replace" /\ replaced' = id
  /\ events' = <<>>
  /\ UNCHANGED <<counterVars, recentTrades, taker, fills, pending, cancelling,
                 cancelled, ghostVars>>

MassCancel ==
  /\ pc = "idle"
  /\ pc' = "mass_cancel"
  /\ cancelling' = ActiveIds
  /\ events' = <<>>
  /\ UNCHANGED <<counterVars, sequence, bookVars, history, recentTrades, taker,
                 fills, pending, replaced, cancelled, ghostVars>>

\* The indexed orders first, then the stop orders; each hash map in no order.  An id
\* that is in both is visited twice.
MassCancelOne(id) ==
  /\ pc = "mass_cancel"
  /\ id \in cancelling
  /\ id \in DOMAIN orderIndex \/ cancelling \cap DOMAIN orderIndex = {}
  /\ CancelOrder(id)
  /\ cancelling' = cancelling \cap ActiveIds'
  /\ cancelled' = IF Cancelled(id) = {} THEN cancelled ELSE Append(cancelled, id)
  /\ UNCHANGED <<counterVars, recentTrades, pc, taker, fills, pending, replaced,
                 events, ghostVars>>

MassCancelDone ==
  /\ pc = "mass_cancel"
  /\ cancelling = {}
  /\ Answer(<<MassCancelEvent(cancelled), BookEvent(sequence)>>)
  /\ UNCHANGED <<counterVars, sequence, bookVars, history, recentTrades, ghostVars>>

(***************************************************************************)
(* The specification.                                                      *)
(***************************************************************************)

\* A step of the command the engine is running.
EngineStep ==
  \/ pc = "replace" /\ \E req \in Requests : Submit(req)
  \/ RejectPostOnly
  \/ FillBest
  \/ Settle
  \/ ActivateStop
  \/ SkipStop
  \/ \E id \in cancelling : MassCancelOne(id)
  \/ MassCancelDone

\* A command taken from the worker's queue.
Command ==
  \/ pc = "idle" /\ \E req \in Requests : Submit(req)
  \/ \E id \in ActiveIds : Cancel(id)
  \/ \E id \in ActiveIds : Replace(id)
  \/ MassCancel

Next == EngineStep \/ Command

Spec == Init /\ [][Next]_vars

\* The worker runs a command it has taken to its end; clients owe nothing.
FairSpec == Spec /\ WF_vars(EngineStep)
==============================================================================
