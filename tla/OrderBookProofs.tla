--------------------------- MODULE OrderBookProofs ---------------------------
(***************************************************************************)
(* Theorems about OrderBook, for every configuration, every set of         *)
(* requests and any number of orders.                                      *)
(***************************************************************************)
EXTENDS OrderBookProperties, SequenceTheorems, WellFoundedInduction, TLAPS

(***************************************************************************)
(* The operators of BookState.                                             *)
(***************************************************************************)

\* Every nonempty set of natural numbers has a least element.
LEMMA LeastNatural ==
  ASSUME NEW S, S \subseteq Nat, S # {}
  PROVE  \E x \in S : \A y \in S : x <= y
<1>1. \E x \in S : \A y \in S : ~ (<<y, x>> \in OpToRel(<, Nat))
  BY NatLessThanWellFounded, WFMin
<1>2. PICK x \in S : \A y \in S : ~ (<<y, x>> \in OpToRel(<, Nat))
  BY <1>1
<1>3. \A y \in S : ~ (y < x)
  BY <1>2 DEF OpToRel
<1> QED
  BY <1>3

\* Every nonempty set of natural numbers below a bound has a greatest element.
LEMMA GreatestNatural ==
  ASSUME NEW n \in Nat, NEW S, S \subseteq 0..n, S # {}
  PROVE  \E x \in S : \A y \in S : y <= x
<1> DEFINE T == {n - x : x \in S}
<1>1. \A x \in S : x \in Nat /\ n - x \in Nat
  BY DEF T
<1>2. T \subseteq Nat
  BY <1>1
<1>3. T # {}
  <2>1. PICK x \in S : TRUE
    OBVIOUS
  <2>2. n - x \in T
    BY <2>1
  <2> QED
    BY <2>2
<1>4. PICK t \in T : \A u \in T : t <= u
  BY <1>2, <1>3, LeastNatural
<1>5. PICK x \in S : t = n - x
  BY <1>4
<1>6. \A y \in S : t <= n - y
  BY <1>4
<1> HIDE DEF T
<1>7. \A y \in S : y <= x
  BY <1>1, <1>5, <1>6
<1> QED
  BY <1>7

(***************************************************************************)
(* Maps.                                                                   *)
(***************************************************************************)

LEMMA PutType ==
  ASSUME NEW K, NEW V, NEW f, IsMap(f, K, V), NEW k \in K, NEW v \in V
  PROVE  IsMap(Put(f, k, v), K, V)
BY DEF IsMap, Put

LEMMA WithoutType ==
  ASSUME NEW K, NEW V, NEW f, IsMap(f, K, V), NEW k
  PROVE  IsMap(Without(f, k), K, V)
BY DEF IsMap, Without, Restrict

LEMMA EmptyMap ==
  ASSUME NEW K, NEW V
  PROVE  IsMap(<<>>, K, V)
BY DEF IsMap

LEMMA RecordType ==
  ASSUME NEW record, IsMap(record, Nat, Seq(HistoryEntry)),
         NEW id \in Nat, NEW entry \in HistoryEntry
  PROVE  IsMap(Record(record, id, entry), Nat, Seq(HistoryEntry))
BY DEF IsMap, Record

LEMMA RecordStatusType ==
  ASSUME NEW record, IsMap(record, Nat, Seq(HistoryEntry)),
         NEW seq \in Nat, NEW order \in Order, NEW status \in OrderStatus
  PROVE  IsMap(RecordStatus(record, seq, order, status), Nat, Seq(HistoryEntry))
<1>1. order.id \in Nat /\ Entry(seq, status, order.remaining) \in HistoryEntry
  BY DEF Order, Entry, HistoryEntry
<1> QED
  BY <1>1, RecordType DEF RecordStatus

LEMMA RecordMakerFillType ==
  ASSUME NEW record, IsMap(record, Nat, Seq(HistoryEntry)),
         NEW seq \in Nat, NEW id \in Nat, NEW remaining \in Nat
  PROVE  IsMap(RecordMakerFill(record, seq, id, remaining), Nat, Seq(HistoryEntry))
<1> DEFINE entry == Entry(seq, IF remaining = 0 THEN "filled" ELSE "partially_filled",
                          remaining)
<1>1. entry \in HistoryEntry
  BY DEF Entry, HistoryEntry, OrderStatus
<1> HIDE DEF entry
<1>2. IsMap(Record(record, id, entry), Nat, Seq(HistoryEntry))
  BY <1>1, RecordType
<1> QED
  BY <1>2 DEF RecordMakerFill, entry

LEMMA RetainRecentType ==
  ASSUME NEW trades \in Seq(Trade), NEW trade \in Trade
  PROVE  RetainRecent(trades, trade) \in Seq(Trade)
<1>1. CASE Len(trades) = MaxRecentTrades
  <2>1. trades # <<>>
    BY <1>1, ConfigAssumption, EmptySeq
  <2>2. Tail(trades) \in Seq(Trade)
    BY <2>1, HeadTailProperties
  <2> QED
    BY <1>1, <2>2, AppendProperties DEF RetainRecent
<1>2. CASE Len(trades) # MaxRecentTrades
  BY <1>2, AppendProperties DEF RetainRecent
<1> QED
  BY <1>1, <1>2

(***************************************************************************)
(* Queues and books.                                                      *)
(***************************************************************************)

LEMMA RemoveAtProperties ==
  ASSUME NEW S, NEW q \in Seq(S), NEW i \in 1..Len(q)
  PROVE  /\ RemoveAt(q, i) \in Seq(S)
         /\ Len(RemoveAt(q, i)) = Len(q) - 1
         /\ \A k \in 1..(Len(q) - 1) :
              RemoveAt(q, i)[k] = IF k < i THEN q[k] ELSE q[k + 1]
<1> DEFINE front == SubSeq(q, 1, i - 1)
           back  == SubSeq(q, i + 1, Len(q))
<1>1. Len(q) \in Nat /\ i \in Nat /\ i - 1 \in Int /\ i + 1 \in Int
  BY LenProperties
<1>2. /\ front \in Seq(S)
      /\ Len(front) = i - 1
      /\ \A k \in 1..(i - 1) : front[k] = q[k]
  <2>1. \A k \in 1..(i - 1) : q[k] \in S
    BY <1>1, ElementOfSeq
  <2>2. /\ front \in Seq(S)
        /\ Len(front) = IF 1 <= i - 1 THEN (i - 1) - 1 + 1 ELSE 0
        /\ \A k \in 1..((i - 1) - 1 + 1) : front[k] = q[1 + k - 1]
    BY <2>1, <1>1, SubSeqProperties
  <2> QED
    BY <2>2, <1>1
<1>3. /\ back \in Seq(S)
      /\ Len(back) = Len(q) - i
      /\ \A k \in 1..(Len(q) - i) : back[k] = q[i + k]
  <2>1. \A k \in (i + 1)..Len(q) : q[k] \in S
    BY <1>1, ElementOfSeq
  <2>2. /\ back \in Seq(S)
        /\ Len(back) = IF i + 1 <= Len(q) THEN Len(q) - (i + 1) + 1 ELSE 0
        /\ \A k \in 1..(Len(q) - (i + 1) + 1) : back[k] = q[(i + 1) + k - 1]
    BY <2>1, <1>1, SubSeqProperties
  <2> QED
    BY <2>2, <1>1
<1> HIDE DEF front, back
<1>4. /\ front \o back \in Seq(S)
      /\ Len(front \o back) = Len(front) + Len(back)
      /\ \A k \in 1..(Len(front) + Len(back)) :
           (front \o back)[k] = IF k <= Len(front) THEN front[k]
                                                  ELSE back[k - Len(front)]
  BY <1>2, <1>3, ConcatProperties
<1>5. Len(front) + Len(back) = Len(q) - 1
  BY <1>1, <1>2, <1>3
<1>6. \A k \in 1..(Len(q) - 1) :
        (front \o back)[k] = IF k < i THEN q[k] ELSE q[k + 1]
  <2> TAKE k \in 1..(Len(q) - 1)
  <2>1. CASE k < i
    BY <2>1, <1>1, <1>2, <1>4, <1>5
  <2>2. CASE ~(k < i)
    <3>1. k - (i - 1) \in 1..(Len(q) - i) /\ i + (k - (i - 1)) = k + 1
      BY <2>2, <1>1
    <3>2. (front \o back)[k] = back[k - (i - 1)]
      BY <2>2, <1>1, <1>2, <1>4, <1>5
    <3> QED
      BY <2>2, <3>1, <3>2, <1>3
  <2> QED
    BY <2>1, <2>2
<1>7. RemoveAt(q, i) = front \o back
  BY DEF RemoveAt, front, back
<1> QED
  BY <1>4, <1>5, <1>6, <1>7

LEMMA SetQueueType ==
  ASSUME NEW books, IsLevels(books), NEW side \in Side, NEW price \in Price,
         NEW queue \in Seq(Order)
  PROVE  IsLevels(SetQueue(books, side, price, queue))
BY DEF IsLevels, IsMap, SetQueue, Restrict

LEMMA QueueType ==
  ASSUME NEW books, IsLevels(books), NEW side \in Side, NEW price
  PROVE  Queue(books, side, price) \in Seq(Order)
BY DEF IsLevels, IsMap, Queue

LEMMA PushType ==
  ASSUME NEW books, IsLevels(books), NEW order \in Order, order.price \in Price
  PROVE  IsLevels(Push(books, order))
<1>1. order.side \in Side
  BY DEF Order
<1>2. Append(Queue(books, order.side, order.price), order) \in Seq(Order)
  BY <1>1, QueueType, AppendProperties
<1> QED
  BY <1>1, <1>2, SetQueueType DEF Push

\* Where an order is looked up in a queue it is found at its first place.
LEMMA PositionOfFound ==
  ASSUME NEW queue \in Seq(Order), NEW id
  PROVE  \/ /\ PositionOf(queue, id) = 0
            /\ \A i \in 1..Len(queue) : queue[i].id # id
         \/ /\ PositionOf(queue, id) \in 1..Len(queue)
            /\ queue[PositionOf(queue, id)].id = id
<1>1. DOMAIN queue = 1..Len(queue) /\ Len(queue) \in Nat
  BY LenProperties
<1>2. CASE \E i \in DOMAIN queue : queue[i].id = id
  <2> DEFINE S == {i \in DOMAIN queue : queue[i].id = id}
  <2>1. S \subseteq Nat /\ S # {}
    BY <1>1, <1>2
  <2>2. PICK i \in S : \A j \in S : i <= j
    BY <2>1, LeastNatural
  <2>3. \A j \in 1..(i - 1) : queue[j].id # id
    BY <2>1, <2>2, <1>1
  <2>4. PositionOf(queue, id) \in DOMAIN queue /\ queue[PositionOf(queue, id)].id = id
    BY <1>2, <2>2, <2>3 DEF PositionOf
  <2> QED
    BY <1>1, <2>4
<1>3. CASE ~ \E i \in DOMAIN queue : queue[i].id = id
  BY <1>1, <1>3 DEF PositionOf
<1> QED
  BY <1>2, <1>3

LEMMA RemoveFromLevelType ==
  ASSUME NEW books, IsLevels(books), NEW side \in Side, NEW price \in Price, NEW id
  PROVE  IsLevels(RemoveFromLevel(books, side, price, id))
<1> DEFINE queue == Queue(books, side, price)
           i == PositionOf(queue, id)
<1>1. queue \in Seq(Order)
  BY QueueType
<1>2. i = 0 \/ i \in 1..Len(queue)
  BY <1>1, PositionOfFound
<1>3. CASE i = 0
  BY <1>3 DEF RemoveFromLevel
<1>4. CASE i # 0
  <2>1. RemoveAt(queue, i) \in Seq(Order)
    BY <1>1, <1>2, <1>4, RemoveAtProperties
  <2>2. IsLevels(SetQueue(books, side, price, RemoveAt(queue, i)))
    BY <2>1, SetQueueType
  <2> QED
    BY <1>4, <2>2 DEF RemoveFromLevel
<1> QED
  BY <1>3, <1>4

LEMMA DepleteType ==
  ASSUME NEW books, IsLevels(books), NEW side \in Side,
         NEW price \in DOMAIN books[side],
         NEW i \in DOMAIN books[side][price],
         NEW quantity \in Nat, quantity <= books[side][price][i].remaining
  PROVE  IsLevels(Deplete(books, side, price, i, quantity))
<1> DEFINE queue == books[side][price]
           left == queue[i].remaining - quantity
           after == IF left = 0 THEN RemoveAt(queue, i)
                                ELSE [queue EXCEPT ![i].remaining = left]
<1>1. price \in Price /\ queue \in Seq(Order)
  BY DEF IsLevels, IsMap
<1>2. i \in 1..Len(queue) /\ queue[i] \in Order
  BY <1>1, LenProperties, ElementOfSeq
<1>3. left \in Nat
  BY <1>2 DEF Order
<1> HIDE DEF queue, left
<1>4. [queue[i] EXCEPT !.remaining = left] \in Order
  BY <1>2, <1>3 DEF Order
<1>5. [queue EXCEPT ![i] = [queue[i] EXCEPT !.remaining = left]] \in Seq(Order)
  BY <1>1, <1>2, <1>4, ExceptSeq
<1>6. [queue EXCEPT ![i].remaining = left]
        = [queue EXCEPT ![i] = [queue[i] EXCEPT !.remaining = left]]
  OBVIOUS
<1>7. after \in Seq(Order)
  BY <1>1, <1>2, <1>5, <1>6, RemoveAtProperties
<1> HIDE DEF after
<1>8. IsLevels(SetQueue(books, side, price, after))
  BY <1>1, <1>7, SetQueueType
<1> QED
  BY <1>8 DEF Deplete, after, queue, left

(***************************************************************************)
(* Matching.                                                               *)
(***************************************************************************)

LEMMA OppositeSide ==
  ASSUME NEW side \in Side
  PROVE  Opposite(side) \in Side /\ Opposite(side) # side
BY DEF Side, Opposite

\* The best matchable price exists whenever a matchable price does, and no other
\* matchable price is better.
LEMMA BestMatchableExists ==
  ASSUME NEW books, IsLevels(books), NEW order \in Order,
         MatchablePrices(books, order) # {}
  PROVE  /\ BestMatchable(books, order) \in MatchablePrices(books, order)
         /\ \A q \in MatchablePrices(books, order) \ {BestMatchable(books, order)} :
              BetterFor(order.side, BestMatchable(books, order), q)
<1> DEFINE prices == MatchablePrices(books, order)
<1>1. order.side \in Side
  BY DEF Order
<1>2. prices \subseteq Price
  BY <1>1, OppositeSide DEF MatchablePrices, IsLevels, IsMap
<1>3. prices \subseteq Nat /\ prices \subseteq 0..MaxOrderNotional
  BY <1>2, ConfigAssumption DEF Price
<1> HIDE DEF prices
<1>4. \E p \in prices : \A q \in prices \ {p} : BetterFor(order.side, p, q)
  <2>1. CASE order.side = "buy"
    <3>1. PICK p \in prices : \A q \in prices : p <= q
      BY <1>3, LeastNatural DEF prices
    <3>2. \A q \in prices \ {p} : p < q
      BY <3>1, <1>3
    <3> QED
      BY <2>1, <3>2 DEF BetterFor
  <2>2. CASE order.side # "buy"
    <3>1. PICK p \in prices : \A q \in prices : q <= p
      BY <1>3, GreatestNatural, ConfigAssumption DEF prices
    <3>2. \A q \in prices \ {p} : p > q
      BY <3>1, <1>3
    <3> QED
      BY <2>2, <3>2 DEF BetterFor
  <2> QED
    BY <2>1, <2>2
<1> QED
  BY <1>4 DEF BestMatchable, prices

\* So does the first matchable order of a queue that has one.
LEMMA FirstMatchableExists ==
  ASSUME NEW queue \in Seq(Order), NEW account, HasMatchable(queue, account)
  PROVE  /\ FirstMatchable(queue, account) \in DOMAIN queue
         /\ Matchable(queue[FirstMatchable(queue, account)], account)
         /\ \A j \in 1..(FirstMatchable(queue, account) - 1) :
              ~Matchable(queue[j], account)
<1> DEFINE S == {i \in DOMAIN queue : Matchable(queue[i], account)}
<1>1. DOMAIN queue = 1..Len(queue) /\ Len(queue) \in Nat
  BY LenProperties
<1>2. S \subseteq Nat /\ S # {}
  BY <1>1 DEF HasMatchable
<1>3. PICK i \in S : \A j \in S : i <= j
  BY <1>2, LeastNatural
<1>4. \A j \in 1..(i - 1) : ~Matchable(queue[j], account)
  BY <1>1, <1>2, <1>3
<1>5. i \in DOMAIN queue /\ Matchable(queue[i], account)
  BY <1>3
<1> QED
  BY <1>4, <1>5 DEF FirstMatchable

\* A quotient's multiple does not exceed the dividend.
LEMMA QuotientBound ==
  ASSUME NEW a \in Nat, NEW b \in Nat \ {0}, NEW c \in Nat, c <= a \div b
  PROVE  b * c <= a
<1>1. b * (a \div b) <= a /\ (a \div b) \in Nat
  OBVIOUS
<1>2. b * c <= b * (a \div b)
  BY <1>1
<1> QED
  BY <1>1, <1>2

\* A trade takes no more than the maker has and the order can take.
LEMMA TradeQuantityBounds ==
  ASSUME NEW available \in Nat, NEW order \in Order, NEW price \in Price
  PROVE  /\ TradeQuantity(available, order, price) \in Nat
         /\ TradeQuantity(available, order, price) <= available
         /\ IF order.kind = "market_by_notional"
              THEN price * TradeQuantity(available, order, price) <= order.quote
              ELSE TradeQuantity(available, order, price) <= order.remaining
<1>1. price \in Nat \ {0} /\ order.quote \in Nat /\ order.remaining \in Nat
  BY ConfigAssumption DEF Price, Order
<1>2. CASE order.kind = "market_by_notional"
  <2>1. order.quote \div price \in Nat
    BY <1>1
  <2>2. /\ TradeQuantity(available, order, price) \in Nat
        /\ TradeQuantity(available, order, price) <= available
        /\ TradeQuantity(available, order, price) <= order.quote \div price
    BY <1>2, <2>1 DEF TradeQuantity
  <2> QED
    BY <1>1, <1>2, <2>2, QuotientBound
<1>3. CASE order.kind # "market_by_notional"
  BY <1>1, <1>3 DEF TradeQuantity
<1> QED
  BY <1>2, <1>3

LEMMA ReduceTakerType ==
  ASSUME NEW order \in Order, NEW price \in Price, NEW quantity \in Nat,
         IF order.kind = "market_by_notional"
           THEN price * quantity <= order.quote
           ELSE quantity <= order.remaining
  PROVE  ReduceTaker(order, price, quantity) \in Order
<1>1. price \in Nat /\ order.quote \in Nat /\ order.remaining \in Nat
  BY ConfigAssumption DEF Price, Order
<1>2. CASE order.kind = "market_by_notional"
  <2>1. price * quantity \in Nat
    BY <1>1
  <2>2. order.quote - price * quantity \in Nat
    BY <1>1, <1>2, <2>1
  <2> QED
    BY <1>2, <2>2 DEF ReduceTaker, Order
<1>3. CASE order.kind # "market_by_notional"
  <2>1. order.remaining - quantity \in Nat
    BY <1>1, <1>3
  <2> QED
    BY <1>3, <2>1 DEF ReduceTaker, Order
<1> QED
  BY <1>2, <1>3

(***************************************************************************)
(* The inductive invariant of TypeCorrect.                                 *)
(***************************************************************************)

\* What TypeOK needs to be inductive: what each phase may hold, that an order
\* about to match or to trigger has a price if it can rest, and that a mass
\* cancel has only active orders left to cancel.
ControlOK ==
  /\ pc = "match" =>
       /\ ~IsStopOrder(taker.kind)
       /\ taker.kind \in {"limit", "post_only"} => taker.price \in Price
  /\ \A id \in DOMAIN stopOrders :
       /\ IsStopOrder(stopOrders[id].kind)
       /\ stopOrders[id].kind = "stop_limit" => stopOrders[id].price \in Price
  /\ pc = "trigger" => pending # <<>>
  /\ \A i \in DOMAIN pending : pending[i] # {}
  /\ cancelling \subseteq ActiveIds
  /\ cancelling # {} => pc = "mass_cancel"

TypeInv == TypeOK /\ ControlOK

(***************************************************************************)
(* The orders a request becomes.                                           *)
(***************************************************************************)

LEMMA IncomingType ==
  ASSUME TypeInv, NEW req \in Requests
  PROVE  /\ Incoming(req) \in Order
         /\ Incoming(req).id = nextOrderId
         /\ Incoming(req).kind = req.kind
<1>1. req \in NewOrder
  BY RequestsAssumption
<1> QED
  BY <1>1 DEF TypeInv, TypeOK, Incoming, MakeOrder, NewOrder, Order, None

LEMMA IncomingPrice ==
  ASSUME TypeInv, NEW req \in Requests, Admitted(req), IsPriced(req.kind)
  PROVE  Incoming(req).price \in Price
<1>1. req.price \in Nat /\ req.quantity \in Nat
  BY RequestsAssumption DEF NewOrder
<1>2. req.price > 0 /\ req.quantity > 0 /\ req.price * req.quantity <= MaxOrderNotional
  BY DEF Admitted, Validates, ValidBase, IsPriced
<1>3. req.price <= req.price * req.quantity
  BY <1>1, <1>2
<1>4. req.price \in Price
  BY <1>1, <1>2, <1>3, ConfigAssumption DEF Price
<1> QED
  BY <1>4 DEF Incoming, MakeOrder

LEMMA CreateType ==
  ASSUME TypeInv, NEW req \in Requests, Create(req)
  PROVE  /\ nextOrderId' \in Nat
         /\ sequence' \in Nat
         /\ IsMap(submitted', Nat, Order)
<1>1. nextOrderId \in Nat /\ sequence \in Nat /\ IsMap(submitted, Nat, Order)
  BY DEF TypeInv, TypeOK
<1>2. IsMap(Put(submitted, nextOrderId, Incoming(req)), Nat, Order)
  BY <1>1, IncomingType, PutType
<1> QED
  BY <1>1, <1>2 DEF Create

LEMMA ActivatedType ==
  ASSUME TypeInv, NEW id \in DOMAIN stopOrders
  PROVE  /\ Activated(stopOrders[id]) \in Order
         /\ ~IsStopOrder(Activated(stopOrders[id]).kind)
         /\ Activated(stopOrders[id]).kind \in {"limit", "post_only"}
              => Activated(stopOrders[id]).price \in Price
<1>1. stopOrders[id] \in Order /\ IsStopOrder(stopOrders[id].kind)
  BY DEF TypeInv, TypeOK, IsMap, ControlOK
<1>2. stopOrders[id].kind = "stop_limit" => stopOrders[id].price \in Price
  BY DEF TypeInv, ControlOK
<1>3. CASE stopOrders[id].kind = "stop_limit"
  <2>1. Activated(stopOrders[id]) = [stopOrders[id] EXCEPT !.kind = "limit"]
    BY <1>3 DEF Activated
  <2> QED
    BY <1>1, <1>2, <1>3, <2>1 DEF Order, OrderKind, IsStopOrder
<1>4. CASE stopOrders[id].kind = "stop_market"
  <2>1. Activated(stopOrders[id]) = [stopOrders[id] EXCEPT !.kind = "market"]
    BY <1>4 DEF Activated
  <2> QED
    BY <1>1, <1>4, <2>1 DEF Order, OrderKind, IsStopOrder
<1> QED
  BY <1>1, <1>3, <1>4 DEF IsStopOrder

\* The trade FillBest makes is between orders of the right types.
LEMMA NextTradeType ==
  ASSUME TypeInv, pc = "match", CanTrade
  PROVE  /\ MakerSide \in Side
         /\ BestPrice \in DOMAIN levels[MakerSide]
         /\ BestPrice \in Price
         /\ BestPlace \in DOMAIN levels[MakerSide][BestPrice]
         /\ BestMaker \in Order
         /\ NextAmount \in Nat
         /\ NextAmount <= BestMaker.remaining
         /\ NextTrade \in Trade
         /\ ReduceTaker(taker, BestPrice, NextAmount) \in Order
<1>1. taker \in Order /\ taker.side \in Side /\ IsLevels(levels)
  BY DEF TypeInv, TypeOK, Order
<1>2. MakerSide \in Side
  BY <1>1, OppositeSide DEF MakerSide
<1>3. BestPrice \in MatchablePrices(levels, taker)
  BY <1>1, BestMatchableExists DEF CanTrade, BestPrice
<1>4. /\ BestPrice \in DOMAIN levels[MakerSide]
      /\ HasMatchable(levels[MakerSide][BestPrice], taker.account)
  BY <1>3 DEF MatchablePrices, MakerSide
<1>5. BestPrice \in Price /\ levels[MakerSide][BestPrice] \in Seq(Order)
  BY <1>1, <1>2, <1>4 DEF IsLevels, IsMap
<1>6. BestPlace \in DOMAIN levels[MakerSide][BestPrice]
  BY <1>4, <1>5, FirstMatchableExists DEF BestPlace
<1>7. BestMaker \in Order
  BY <1>5, <1>6, LenProperties, ElementOfSeq DEF BestMaker
<1>8. BestMaker.remaining \in Nat /\ BestMaker.id \in Nat
  BY <1>7 DEF Order
<1>9. /\ NextAmount \in Nat
      /\ NextAmount <= BestMaker.remaining
      /\ IF taker.kind = "market_by_notional"
           THEN BestPrice * NextAmount <= taker.quote
           ELSE NextAmount <= taker.remaining
  BY <1>1, <1>5, <1>8, TradeQuantityBounds DEF NextAmount
<1>10. NextTrade \in Trade
  <2>1. BestPrice \in Nat
    BY <1>5, ConfigAssumption DEF Price
  <2> QED
    BY <1>1, <1>8, <1>9, <2>1 DEF NextTrade, Trade, TypeInv, TypeOK, Order
<1>11. ReduceTaker(taker, BestPrice, NextAmount) \in Order
  BY <1>1, <1>5, <1>9, ReduceTakerType
<1> QED
  BY <1>2, <1>4, <1>5, <1>6, <1>7, <1>9, <1>10, <1>11

(***************************************************************************)
(* The call stack of trigger_stop_orders.                                  *)
(***************************************************************************)

LEMMA PushPendingType ==
  ASSUME NEW stack \in Seq(SUBSET Nat), \A i \in DOMAIN stack : stack[i] # {},
         NEW ids \in SUBSET Nat
  PROVE  /\ PushPending(stack, ids) \in Seq(SUBSET Nat)
         /\ \A i \in DOMAIN PushPending(stack, ids) : PushPending(stack, ids)[i] # {}
<1>1. CASE ids = {}
  BY <1>1 DEF PushPending
<1>2. CASE ids # {}
  <2>1. <<ids>> \in Seq(SUBSET Nat) /\ Len(<<ids>>) = 1 /\ <<ids>>[1] = ids
    OBVIOUS
  <2>2. /\ <<ids>> \o stack \in Seq(SUBSET Nat)
        /\ Len(<<ids>> \o stack) = 1 + Len(stack)
        /\ \A i \in 1..(1 + Len(stack)) :
             (<<ids>> \o stack)[i] = IF i <= 1 THEN <<ids>>[i] ELSE stack[i - 1]
    BY <2>1, ConcatProperties
  <2>3. Len(stack) \in Nat /\ DOMAIN stack = 1..Len(stack)
    BY LenProperties
  <2>4. DOMAIN (<<ids>> \o stack) = 1..(1 + Len(stack))
    BY <2>2, LenProperties
  <2>5. \A i \in 1..(1 + Len(stack)) : (<<ids>> \o stack)[i] # {}
    <3> TAKE i \in 1..(1 + Len(stack))
    <3>1. CASE i <= 1
      BY <1>2, <2>1, <2>2, <2>3, <3>1
    <3>2. CASE ~(i <= 1)
      <4>1. i - 1 \in DOMAIN stack
        BY <2>3, <3>2
      <4> QED
        BY <2>2, <2>3, <3>2, <4>1
    <3> QED
      BY <3>1, <3>2
  <2>6. PushPending(stack, ids) = <<ids>> \o stack
    BY <1>2 DEF PushPending
  <2> QED
    BY <2>2, <2>4, <2>5, <2>6
<1> QED
  BY <1>1, <1>2

LEMMA PopPendingType ==
  ASSUME NEW stack \in Seq(SUBSET Nat), \A i \in DOMAIN stack : stack[i] # {},
         stack # <<>>, NEW id
  PROVE  /\ PopPending(stack, id) \in Seq(SUBSET Nat)
         /\ \A i \in DOMAIN PopPending(stack, id) : PopPending(stack, id)[i] # {}
<1>1. /\ Head(stack) \in SUBSET Nat
      /\ Tail(stack) \in Seq(SUBSET Nat)
      /\ Len(Tail(stack)) = Len(stack) - 1
      /\ \A i \in 1..Len(Tail(stack)) : Tail(stack)[i] = stack[i + 1]
  BY HeadTailProperties
<1>2. Len(stack) \in Nat /\ DOMAIN stack = 1..Len(stack)
  BY LenProperties
<1>3. DOMAIN Tail(stack) = 1..Len(Tail(stack))
  BY <1>1, LenProperties
<1>4. \A i \in DOMAIN Tail(stack) : Tail(stack)[i] # {}
  <2> TAKE i \in DOMAIN Tail(stack)
  <2>1. i \in 1..Len(Tail(stack)) /\ i + 1 \in DOMAIN stack
    BY <1>1, <1>2, <1>3
  <2> QED
    BY <1>1, <2>1
<1>5. Head(stack) \ {id} \in SUBSET Nat
  BY <1>1
<1> QED
  BY <1>1, <1>4, <1>5, PushPendingType DEF PopPending

(***************************************************************************)
(* Every step keeps TypeInv.                                               *)
(***************************************************************************)

LEMMA NoOrderType == NoOrder \in Order
BY ConfigAssumption DEF NoOrder, Order, None, Side, OrderKind, TimeInForce

LEMMA TypeInit == Init => TypeInv
<1> SUFFICES ASSUME Init PROVE TypeInv
  OBVIOUS
<1>1. IsLevels(levels)
  BY EmptyMap DEF Init, EmptyLevels, IsLevels
<1>2. /\ IsMap(orderIndex, Nat, Location)
      /\ IsMap(stopOrders, Nat, Order)
      /\ IsMap(history, Nat, Seq(HistoryEntry))
      /\ IsMap(submitted, Nat, Order)
  BY EmptyMap DEF Init
<1>3. TypeOK
  BY <1>1, <1>2, NoOrderType, ConfigAssumption DEF Init, TypeOK, Phase
<1>4. ControlOK
  BY DEF Init, ControlOK, ActiveIds
<1> QED
  BY <1>3, <1>4 DEF TypeInv

LEMMA TypeRejectInvalid ==
  ASSUME TypeInv, NEW req \in Requests, pc \in {"idle", "replace"}, RejectInvalid(req)
  PROVE  TypeInv'
<1>1. Incoming(req) \in Order
  BY IncomingType
<1>2. IsMap(history', Nat, Seq(HistoryEntry))
  <2>1. sequence + 1 \in Nat /\ "rejected" \in OrderStatus
    BY DEF TypeInv, TypeOK, OrderStatus
  <2> QED
    BY <1>1, <2>1, RecordStatusType DEF TypeInv, TypeOK, RejectInvalid
<1>3. TypeOK'
  BY <1>2, CreateType
     DEF TypeInv, TypeOK, RejectInvalid, Answer, bookVars, Phase
<1>4. ControlOK'
  BY DEF TypeInv, ControlOK, RejectInvalid, Answer, bookVars, ActiveIds
<1> QED
  BY <1>3, <1>4 DEF TypeInv

LEMMA AcceptAsType ==
  ASSUME TypeInv, NEW req \in Requests, NEW status \in OrderStatus, AcceptAs(req, status)
  PROVE  IsMap(history', Nat, Seq(HistoryEntry))
<1>1. Incoming(req) \in Order /\ sequence + 1 \in Nat /\ "accepted" \in OrderStatus
  BY IncomingType DEF TypeInv, TypeOK, OrderStatus
<1>2. IsMap(RecordStatus(history, sequence + 1, Incoming(req), "accepted"),
            Nat, Seq(HistoryEntry))
  BY <1>1, RecordStatusType DEF TypeInv, TypeOK
<1> QED
  BY <1>1, <1>2, RecordStatusType DEF AcceptAs

LEMMA TypeAcceptStop ==
  ASSUME TypeInv, NEW req \in Requests, pc \in {"idle", "replace"}, AcceptStop(req)
  PROVE  TypeInv'
<1>1. IsMap(history', Nat, Seq(HistoryEntry))
  BY AcceptAsType DEF AcceptStop, OrderStatus
<1>2. Incoming(req) \in Order /\ nextOrderId \in Nat
  BY IncomingType DEF TypeInv, TypeOK
<1>3. IsMap(stopOrders', Nat, Order)
  BY <1>2, PutType DEF TypeInv, TypeOK, AcceptStop
<1>4. TypeOK'
  BY <1>1, <1>3, CreateType
     DEF TypeInv, TypeOK, AcceptStop, AcceptAs, Answer, Phase
<1>5. IsStopOrder(Incoming(req).kind)
  BY IncomingType DEF AcceptStop
<1>6. Incoming(req).kind = "stop_limit" => Incoming(req).price \in Price
  BY IncomingType, IncomingPrice DEF AcceptStop, IsPriced
<1>7. \A id \in DOMAIN stopOrders' :
        /\ IsStopOrder(stopOrders'[id].kind)
        /\ stopOrders'[id].kind = "stop_limit" => stopOrders'[id].price \in Price
  BY <1>5, <1>6 DEF TypeInv, ControlOK, AcceptStop, Put
<1>8. ActiveIds \subseteq ActiveIds'
  BY DEF AcceptStop, Put, ActiveIds
<1>9. ControlOK'
  BY <1>7, <1>8 DEF TypeInv, ControlOK, AcceptStop, AcceptAs, Answer
<1> QED
  BY <1>4, <1>9 DEF TypeInv

LEMMA TypeRejectFok ==
  ASSUME TypeInv, NEW req \in Requests, pc \in {"idle", "replace"}, RejectFok(req)
  PROVE  TypeInv'
<1>1. IsMap(history', Nat, Seq(HistoryEntry))
  BY AcceptAsType DEF RejectFok, OrderStatus
<1>2. TypeOK'
  BY <1>1, CreateType
     DEF TypeInv, TypeOK, RejectFok, AcceptAs, Answer, bookVars, Phase
<1>3. ControlOK'
  BY DEF TypeInv, ControlOK, RejectFok, AcceptAs, Answer, bookVars, ActiveIds
<1> QED
  BY <1>2, <1>3 DEF TypeInv

LEMMA TypeBeginExecution ==
  ASSUME TypeInv, NEW req \in Requests, pc \in {"idle", "replace"}, BeginExecution(req)
  PROVE  TypeInv'
<1>1. Incoming(req) \in Order /\ Incoming(req).kind = req.kind
  BY IncomingType
<1>2. IsMap(history', Nat, Seq(HistoryEntry))
  <2>1. sequence + 1 \in Nat /\ "accepted" \in OrderStatus
    BY DEF TypeInv, TypeOK, OrderStatus
  <2> QED
    BY <1>1, <2>1, RecordStatusType DEF TypeInv, TypeOK, BeginExecution
<1>3. TypeOK'
  BY <1>1, <1>2, CreateType, EmptySeq
     DEF TypeInv, TypeOK, BeginExecution, bookVars, Phase
<1>4. /\ ~IsStopOrder(taker'.kind)
      /\ taker'.kind \in {"limit", "post_only"} => taker'.price \in Price
  BY <1>1, IncomingPrice DEF BeginExecution, IsPriced
<1>5. ControlOK'
  BY <1>4 DEF TypeInv, ControlOK, BeginExecution, bookVars, ActiveIds
<1> QED
  BY <1>3, <1>5 DEF TypeInv

LEMMA TypeSubmit ==
  ASSUME TypeInv, NEW req \in Requests, Submit(req)
  PROVE  TypeInv'
BY TypeRejectInvalid, TypeAcceptStop, TypeRejectFok, TypeBeginExecution DEF Submit

LEMMA TypeRejectPostOnly ==
  ASSUME TypeInv, RejectPostOnly
  PROVE  TypeInv'
<1>1. IsMap(history', Nat, Seq(HistoryEntry))
  <2>1. taker \in Order /\ sequence \in Nat /\ "rejected" \in OrderStatus
    BY DEF TypeInv, TypeOK, OrderStatus
  <2> QED
    BY <2>1, RecordStatusType DEF TypeInv, TypeOK, RejectPostOnly
<1>2. TypeOK'
  BY <1>1, NoOrderType
     DEF TypeInv, TypeOK, RejectPostOnly, counterVars, bookVars, ghostVars, Phase
<1>3. ControlOK'
  BY DEF TypeInv, ControlOK, RejectPostOnly, bookVars, ActiveIds
<1> QED
  BY <1>2, <1>3 DEF TypeInv

LEMMA TypeFillBest ==
  ASSUME TypeInv, FillBest
  PROVE  TypeInv'
<1>1. pc = "match" /\ CanTrade
  BY DEF FillBest
<1>2. IsLevels(levels')
  BY <1>1, NextTradeType, DepleteType DEF TypeInv, TypeOK, FillBest, BestMaker
<1>3. IsMap(orderIndex', Nat, Location)
  BY WithoutType DEF TypeInv, TypeOK, FillBest
<1>4. IsMap(history', Nat, Seq(HistoryEntry))
  <2>1. sequence + 1 \in Nat
    BY DEF TypeInv, TypeOK
  <2>2. BestMaker \in Order /\ NextAmount \in Nat /\ NextAmount <= BestMaker.remaining
    BY <1>1, NextTradeType
  <2>3. BestMaker.id \in Nat /\ BestMaker.remaining - NextAmount \in Nat
    BY <2>2 DEF Order
  <2> QED
    BY <2>1, <2>3, RecordMakerFillType DEF TypeInv, TypeOK, FillBest
<1>5. /\ recentTrades' \in Seq(Trade)
      /\ fills' \in Seq(Trade)
      /\ tape' \in Seq(Trade)
  BY <1>1, NextTradeType, RetainRecentType, AppendProperties
     DEF TypeInv, TypeOK, FillBest
<1>6. taker' \in Order
  BY <1>1, NextTradeType DEF FillBest
<1>7. TypeOK'
  BY <1>2, <1>3, <1>4, <1>5, <1>6 DEF TypeInv, TypeOK, FillBest
<1>8. taker'.kind = taker.kind /\ taker'.price = taker.price
  BY DEF FillBest, ReduceTaker, TypeInv, TypeOK, Order
<1>9. cancelling = {} /\ cancelling' = {} /\ pc' = pc
  BY <1>1 DEF TypeInv, ControlOK, FillBest
<1>10. ControlOK'
  BY <1>1, <1>8, <1>9 DEF TypeInv, ControlOK, FillBest
<1> QED
  BY <1>7, <1>10 DEF TypeInv

LEMMA SettledStatusType ==
  ASSUME NEW book, NEW order, NEW traded \in BOOLEAN
  PROVE  SettledStatus(book, order, traded) \in OrderStatus
<1>1. CASE IsFilled(order)
  BY <1>1 DEF SettledStatus, OrderStatus, Rests
<1>2. CASE ~IsFilled(order) /\ Discards(book, order)
  BY <1>2 DEF SettledStatus, OrderStatus, Rests
<1>3. CASE ~IsFilled(order) /\ ~Discards(book, order)
  BY <1>3 DEF SettledStatus, OrderStatus, Rests
<1> QED
  BY <1>1, <1>2, <1>3

\* What rests after matching is a limit or a post-only order, so it has a price.
LEMMA RestingHasPrice ==
  ASSUME TypeInv, pc = "match", Rests(levels, taker)
  PROVE  taker.price \in Price
<1>1. taker.kind \in OrderKind /\ taker.kind \notin {"market", "market_by_notional"}
  BY DEF TypeInv, TypeOK, Order, Rests, Discards
<1>2. taker.kind \in {"limit", "post_only"}
  BY <1>1 DEF TypeInv, ControlOK, IsStopOrder, OrderKind
<1> QED
  BY <1>2 DEF TypeInv, ControlOK

LEMMA TypeSettle ==
  ASSUME TypeInv, Settle
  PROVE  TypeInv'
<1>1. pc = "match" /\ cancelling = {}
  BY DEF TypeInv, ControlOK, Settle
<1>2. /\ taker \in Order /\ taker.id \in Nat /\ taker.side \in Side
      /\ sequence \in Nat
      /\ IsLevels(levels) /\ IsMap(orderIndex, Nat, Location)
      /\ IsMap(history, Nat, Seq(HistoryEntry))
  BY DEF TypeInv, TypeOK, Order
<1>3. IsMap(history', Nat, Seq(HistoryEntry))
  <2>1. SettledStatus(levels, taker, fills # <<>>) \in OrderStatus
    BY SettledStatusType
  <2> QED
    BY <1>2, <2>1, RecordStatusType DEF Settle
<1>4. IsLevels(levels') /\ IsMap(orderIndex', Nat, Location)
  <2>1. CASE Rests(levels, taker)
    <3>1. taker.price \in Price
      BY <1>1, <2>1, RestingHasPrice
    <3>2. [side |-> taker.side, price |-> taker.price] \in Location
      BY <1>2, <3>1 DEF Location
    <3>3. IsMap(Put(orderIndex, taker.id, [side |-> taker.side, price |-> taker.price]),
                Nat, Location)
      BY <1>2, <3>2, PutType
    <3>4. IsLevels(Push(levels, taker))
      BY <1>2, <3>1, PushType
    <3> QED
      BY <2>1, <3>3, <3>4 DEF Settle
  <2>2. CASE ~Rests(levels, taker)
    BY <1>2, <2>2 DEF Settle
  <2> QED
    BY <2>1, <2>2
<1>5. /\ pending' \in Seq(SUBSET Nat)
      /\ \A i \in DOMAIN pending' : pending'[i] # {}
  <2>1. StopsTriggered \in SUBSET Nat
    BY DEF StopsTriggered, TriggeredStops, TypeInv, TypeOK, IsMap
  <2> QED
    BY <2>1, PushPendingType DEF TypeInv, TypeOK, ControlOK, Settle
<1>6. pc' \in {"idle", "trigger"} /\ (pc' = "trigger" => pending' # <<>>)
  BY DEF Settle
<1>7. TypeOK'
  BY <1>3, <1>4, <1>5, <1>6, NoOrderType, EmptySeq
     DEF TypeInv, TypeOK, Settle, counterVars, ghostVars, Phase
<1>8. ControlOK'
  BY <1>1, <1>5, <1>6 DEF TypeInv, ControlOK, Settle
<1> QED
  BY <1>7, <1>8 DEF TypeInv

LEMMA TypePop ==
  ASSUME TypeInv, pc = "trigger", pending' = PopPending(pending, NextTriggered)
  PROVE  /\ pending' \in Seq(SUBSET Nat)
         /\ \A i \in DOMAIN pending' : pending'[i] # {}
<1>1. /\ pending \in Seq(SUBSET Nat) /\ pending # <<>>
      /\ \A i \in DOMAIN pending : pending[i] # {}
  BY DEF TypeInv, TypeOK, ControlOK
<1> QED
  BY <1>1, PopPendingType

LEMMA TypeActivateStop ==
  ASSUME TypeInv, ActivateStop
  PROVE  TypeInv'
<1>1. pc = "trigger" /\ cancelling = {} /\ NextTriggered \in DOMAIN stopOrders
  BY DEF TypeInv, ControlOK, ActivateStop
<1>2. /\ pending' \in Seq(SUBSET Nat)
      /\ \A i \in DOMAIN pending' : pending'[i] # {}
  BY <1>1, TypePop DEF ActivateStop
<1>3. /\ taker' \in Order
      /\ ~IsStopOrder(taker'.kind)
      /\ taker'.kind \in {"limit", "post_only"} => taker'.price \in Price
  BY <1>1, ActivatedType DEF ActivateStop
<1>4. IsMap(stopOrders', Nat, Order)
  BY WithoutType DEF TypeInv, TypeOK, ActivateStop
<1>5. TypeOK'
  BY <1>2, <1>3, <1>4
     DEF TypeInv, TypeOK, ActivateStop, counterVars, ghostVars, Phase
<1>6. ControlOK'
  BY <1>1, <1>2, <1>3 DEF TypeInv, ControlOK, ActivateStop, Without, Restrict
<1> QED
  BY <1>5, <1>6 DEF TypeInv

LEMMA TypeSkipStop ==
  ASSUME TypeInv, SkipStop
  PROVE  TypeInv'
<1>1. pc = "trigger" /\ cancelling = {}
  BY DEF TypeInv, ControlOK, SkipStop
<1>2. /\ pending' \in Seq(SUBSET Nat)
      /\ \A i \in DOMAIN pending' : pending'[i] # {}
  BY <1>1, TypePop DEF SkipStop
<1>3. pc' \in {"idle", "trigger"} /\ (pc' = "trigger" => pending' # <<>>)
  BY DEF SkipStop
<1>4. TypeOK'
  BY <1>2, <1>3
     DEF TypeInv, TypeOK, SkipStop, counterVars, bookVars, ghostVars, Phase
<1>5. ControlOK'
  BY <1>1, <1>2, <1>3 DEF TypeInv, ControlOK, SkipStop, bookVars
<1> QED
  BY <1>4, <1>5 DEF TypeInv

\* cancel(id) closes that order and leaves the other containers typed.
LEMMA TypeCancelOrder ==
  ASSUME TypeInv, NEW id \in ActiveIds, CancelOrder(id)
  PROVE  /\ IsLevels(levels')
         /\ IsMap(orderIndex', Nat, Location)
         /\ IsMap(stopOrders', Nat, Order)
         /\ sequence' \in Nat
         /\ IsMap(history', Nat, Seq(HistoryEntry))
         /\ ActiveIds \ {id} \subseteq ActiveIds'
         /\ \A other \in DOMAIN stopOrders' :
              /\ other \in DOMAIN stopOrders
              /\ stopOrders'[other] = stopOrders[other]
<1>1. /\ IsLevels(levels) /\ IsMap(orderIndex, Nat, Location)
      /\ IsMap(stopOrders, Nat, Order) /\ sequence \in Nat
      /\ IsMap(history, Nat, Seq(HistoryEntry))
  BY DEF TypeInv, TypeOK
<1>2. CASE id \in DOMAIN orderIndex
  <2>1. orderIndex[id].side \in Side /\ orderIndex[id].price \in Price
    BY <1>1, <1>2 DEF IsMap, Location
  <2>2. /\ IsLevels(levels')
        /\ IsMap(orderIndex', Nat, Location)
        /\ stopOrders' = stopOrders
        /\ orderIndex' = Without(orderIndex, id)
    BY <1>1, <1>2, <2>1, RemoveFromLevelType, WithoutType DEF CancelOrder
  <2>3. Cancelled(id) \subseteq Order
    <3> DEFINE level == Queue(levels, orderIndex[id].side, orderIndex[id].price)
    <3>1. level \in Seq(Order)
      BY <1>1, <2>1, QueueType
    <3>2. Cancelled(id) = {level[i] : i \in {PositionOf(level, id)} \ {0}}
      BY <1>2 DEF Cancelled
    <3> HIDE DEF level
    <3>3. PositionOf(level, id) # 0 => PositionOf(level, id) \in 1..Len(level)
      BY <3>1, PositionOfFound
    <3> QED
      BY <3>1, <3>2, <3>3, ElementOfSeq
  <2>4. sequence' \in Nat /\ IsMap(history', Nat, Seq(HistoryEntry))
    BY <1>1, <2>3, RecordStatusType DEF CancelOrder, OrderStatus
  <2> QED
    BY <1>1, <2>2, <2>4 DEF ActiveIds, Without, Restrict
<1>3. CASE id \notin DOMAIN orderIndex
  <2>1. id \in DOMAIN stopOrders
    BY <1>3 DEF ActiveIds
  <2>2. /\ levels' = levels
        /\ orderIndex' = orderIndex
        /\ stopOrders' = Without(stopOrders, id)
        /\ IsMap(stopOrders', Nat, Order)
    BY <1>1, <1>3, WithoutType DEF CancelOrder
  <2>3. Cancelled(id) \subseteq Order
    BY <1>1, <1>3, <2>1 DEF Cancelled, IsMap
  <2>4. sequence' \in Nat /\ IsMap(history', Nat, Seq(HistoryEntry))
    BY <1>1, <2>3, RecordStatusType DEF CancelOrder, OrderStatus
  <2> QED
    BY <1>1, <2>2, <2>4 DEF ActiveIds, Without, Restrict
<1> QED
  BY <1>2, <1>3

LEMMA TypeCancel ==
  ASSUME TypeInv, NEW id \in ActiveIds, Cancel(id)
  PROVE  TypeInv'
<1>1. pc = "idle" /\ cancelling = {} /\ CancelOrder(id)
  BY DEF TypeInv, ControlOK, Cancel
<1>2. TypeOK'
  BY <1>1, TypeCancelOrder, EmptySeq
     DEF TypeInv, TypeOK, Cancel, Answer, counterVars, ghostVars, Phase
<1>3. ControlOK'
  BY <1>1, TypeCancelOrder DEF TypeInv, ControlOK, Cancel, Answer
<1> QED
  BY <1>2, <1>3 DEF TypeInv

LEMMA TypeReplace ==
  ASSUME TypeInv, NEW id \in ActiveIds, Replace(id)
  PROVE  TypeInv'
<1>1. pc = "idle" /\ cancelling = {} /\ CancelOrder(id) /\ id \in Nat
  BY DEF TypeInv, TypeOK, ControlOK, Replace, ActiveIds, IsMap
<1>2. pc' \in {"idle", "replace"} /\ replaced' \in Nat
  BY <1>1 DEF TypeInv, TypeOK, Replace
<1>3. TypeOK'
  BY <1>1, <1>2, TypeCancelOrder
     DEF TypeInv, TypeOK, Replace, counterVars, ghostVars, Phase
<1>4. ControlOK'
  BY <1>1, <1>2, TypeCancelOrder DEF TypeInv, ControlOK, Replace
<1> QED
  BY <1>3, <1>4 DEF TypeInv

LEMMA TypeMassCancel ==
  ASSUME TypeInv, MassCancel
  PROVE  TypeInv'
<1>1. ActiveIds \in SUBSET Nat
  BY DEF TypeInv, TypeOK, IsMap, ActiveIds
<1>2. TypeOK'
  BY <1>1 DEF TypeInv, TypeOK, MassCancel, counterVars, bookVars, ghostVars, Phase
<1>3. ControlOK'
  BY DEF TypeInv, ControlOK, MassCancel, bookVars, ActiveIds
<1> QED
  BY <1>2, <1>3 DEF TypeInv

LEMMA TypeMassCancelOne ==
  ASSUME TypeInv, NEW id \in cancelling, MassCancelOne(id)
  PROVE  TypeInv'
<1>1. pc = "mass_cancel" /\ id \in ActiveIds /\ id \in Nat /\ CancelOrder(id)
  BY DEF TypeInv, TypeOK, ControlOK, MassCancelOne
<1>2. cancelled' \in Seq(Nat)
  BY <1>1, AppendProperties DEF TypeInv, TypeOK, MassCancelOne
<1>3. TypeOK'
  BY <1>1, <1>2, TypeCancelOrder
     DEF TypeInv, TypeOK, MassCancelOne, counterVars, ghostVars
<1>4. cancelling' \subseteq ActiveIds'
  BY <1>1, TypeCancelOrder DEF TypeInv, ControlOK, MassCancelOne
<1>5. ControlOK'
  BY <1>1, <1>4, TypeCancelOrder DEF TypeInv, ControlOK, MassCancelOne
<1> QED
  BY <1>3, <1>5 DEF TypeInv

LEMMA TypeMassCancelDone ==
  ASSUME TypeInv, MassCancelDone
  PROVE  TypeInv'
<1>1. TypeOK'
  BY EmptySeq DEF TypeInv, TypeOK, MassCancelDone, Answer, counterVars, bookVars,
                  ghostVars, Phase
<1>2. ControlOK'
  BY DEF TypeInv, ControlOK, MassCancelDone, Answer, bookVars, ActiveIds
<1> QED
  BY <1>1, <1>2 DEF TypeInv

LEMMA TypeStep == TypeInv /\ [Next]_vars => TypeInv'
<1> SUFFICES ASSUME TypeInv, [Next]_vars PROVE TypeInv'
  OBVIOUS
<1>1. CASE EngineStep
  BY <1>1, TypeSubmit, TypeRejectPostOnly, TypeFillBest, TypeSettle, TypeActivateStop,
     TypeSkipStop, TypeMassCancelOne, TypeMassCancelDone DEF EngineStep
<1>2. CASE Command
  BY <1>2, TypeSubmit, TypeCancel, TypeReplace, TypeMassCancel DEF Command
<1>3. CASE UNCHANGED vars
  BY <1>3 DEF TypeInv, TypeOK, ControlOK, ActiveIds, vars, counterVars, bookVars,
              controlVars, ghostVars
<1> QED
  BY <1>1, <1>2, <1>3 DEF Next

\* Every reachable state is well typed: in particular no quantity, quote budget or
\* level underflows, whatever the requests.
THEOREM TypeCorrect == Spec => []TypeOK
<1>1. Spec => []TypeInv
  BY TypeInit, TypeStep, PTL DEF Spec
<1>2. TypeInv => TypeOK
  BY DEF TypeInv
<1> QED
  BY <1>1, <1>2, PTL

(***************************************************************************)
(* The book's containers never disagree: IndexMatchesLevels, for every     *)
(* configuration, every set of requests and any number of commands.        *)
(*                                                                         *)
(* Agree states the property of a pair of levels and index, so that what   *)
(* each change of a level does to it is a lemma about values.  The         *)
(* invariant adds that ids are handed out in increasing order and that the *)
(* executing order is in no container.                                     *)
(***************************************************************************)

InPlace(queue, i, side, price, index) ==
  /\ queue[i].side = side
  /\ queue[i].price = price
  /\ queue[i].remaining > 0
  /\ queue[i].id \in DOMAIN index
  /\ index[queue[i].id] = [side |-> side, price |-> price]
  /\ \A j \in DOMAIN queue : queue[i].id = queue[j].id => i = j

Agree(book, index) ==
  /\ \A side \in Side : \A price \in DOMAIN book[side] : book[side][price] # <<>>
  /\ \A side \in Side : \A price \in Price : \A i \in DOMAIN Queue(book, side, price) :
       InPlace(Queue(book, side, price), i, side, price, index)
  /\ \A id \in DOMAIN index :
       \E i \in DOMAIN Queue(book, index[id].side, index[id].price) :
         Queue(book, index[id].side, index[id].price)[i].id = id

\* What IndexMatchesLevels needs to be inductive.
IndexOK ==
  /\ Agree(levels, orderIndex)
  /\ StopsApart
  /\ \A id \in ActiveIds : id < nextOrderId
  /\ pc = "match" => taker.id < nextOrderId /\ taker.id \notin DOMAIN orderIndex

IndexInv == TypeInv /\ IndexOK

(***************************************************************************)
(* What a changed level does to the agreement.                             *)
(***************************************************************************)

\* SetQueue changes one queue and keeps no empty level.
LEMMA SetQueueLookup ==
  ASSUME NEW book, IsLevels(book), NEW side \in Side, NEW price \in Price,
         NEW queue \in Seq(Order),
         \A s \in Side : \A p \in DOMAIN book[s] : book[s][p] # <<>>
  PROVE  LET after == SetQueue(book, side, price, queue)
         IN  /\ \A s \in Side : \A p \in DOMAIN after[s] : after[s][p] # <<>>
             /\ \A s \in Side : \A p \in Price :
                  Queue(after, s, p) = IF s = side /\ p = price THEN queue
                                       ELSE Queue(book, s, p)
<1> DEFINE after == SetQueue(book, side, price, queue)
<1>1. DOMAIN book = Side
  BY DEF IsLevels
<1>2. \A s \in Side : s # side => after[s] = book[s]
  BY <1>1 DEF SetQueue
<1>3. CASE queue = <<>>
  <2>1. after[side] = [p \in DOMAIN book[side] \ {price} |-> book[side][p]]
    BY <1>1, <1>3 DEF SetQueue, Restrict
  <2>2. \A s \in Side : \A p \in DOMAIN after[s] : after[s][p] # <<>>
    BY <1>2, <2>1
  <2>3. \A s \in Side : \A p \in Price :
          Queue(after, s, p) = IF s = side /\ p = price THEN queue ELSE Queue(book, s, p)
    BY <1>2, <1>3, <2>1 DEF Queue
  <2> QED
    BY <2>2, <2>3
<1>4. CASE queue # <<>>
  <2>1. after[side] = [p \in DOMAIN book[side] \cup {price} |->
                         IF p = price THEN queue ELSE book[side][p]]
    BY <1>1, <1>4 DEF SetQueue
  <2>2. \A s \in Side : \A p \in DOMAIN after[s] : after[s][p] # <<>>
    BY <1>2, <1>4, <2>1
  <2>3. \A s \in Side : \A p \in Price :
          Queue(after, s, p) = IF s = side /\ p = price THEN queue ELSE Queue(book, s, p)
    BY <1>2, <2>1 DEF Queue
  <2> QED
    BY <2>2, <2>3
<1> QED
  BY <1>3, <1>4

\* An order whose id the index does not know may join its level.
LEMMA AgreePush ==
  ASSUME NEW book, IsLevels(book), NEW index, IsMap(index, Nat, Location),
         Agree(book, index), NEW order \in Order, order.price \in Price,
         order.remaining > 0, order.id \notin DOMAIN index
  PROVE  Agree(Push(book, order),
               Put(index, order.id, [side |-> order.side, price |-> order.price]))
<1> DEFINE place == [side |-> order.side, price |-> order.price]
           queue == Queue(book, order.side, order.price)
           longer == Append(queue, order)
           after == Push(book, order)
           ids == Put(index, order.id, place)
<1>1. order.side \in Side /\ order.id \in Nat
  BY DEF Order
<1>2. queue \in Seq(Order)
  BY <1>1, QueueType
<1>3. /\ longer \in Seq(Order)
      /\ DOMAIN queue = 1..Len(queue) /\ Len(queue) \in Nat
      /\ DOMAIN longer = 1..(Len(queue) + 1)
      /\ \A i \in DOMAIN queue : longer[i] = queue[i]
      /\ longer[Len(queue) + 1] = order
  BY <1>2, AppendProperties, LenProperties
<1>4. /\ \A s \in Side : \A p \in DOMAIN after[s] : after[s][p] # <<>>
      /\ \A s \in Side : \A p \in Price :
           Queue(after, s, p) = IF s = order.side /\ p = order.price
                                  THEN longer ELSE Queue(book, s, p)
  <2>1. after = SetQueue(book, order.side, order.price, longer)
    BY DEF Push
  <2>2. \A s \in Side : \A p \in DOMAIN book[s] : book[s][p] # <<>>
    BY DEF Agree
  <2> HIDE DEF after, longer
  <2> QED
    BY <1>1, <1>3, <2>1, <2>2, SetQueueLookup
<1>5. /\ DOMAIN ids = DOMAIN index \cup {order.id}
      /\ ids[order.id] = place
      /\ \A id \in DOMAIN index : ids[id] = index[id]
  BY DEF Put
<1> HIDE DEF longer, after, ids, queue
<1>6. \A i \in DOMAIN queue : InPlace(queue, i, order.side, order.price, index)
  BY <1>1 DEF Agree, queue
<1>7. \A i \in DOMAIN longer : InPlace(longer, i, order.side, order.price, ids)
  <2> TAKE i \in DOMAIN longer
  <2>1. CASE i = Len(queue) + 1
    <3>1. \A j \in DOMAIN longer : longer[i].id = longer[j].id => i = j
      BY <2>1, <1>3, <1>6 DEF InPlace
    <3> QED
      BY <2>1, <3>1, <1>3, <1>5 DEF InPlace
  <2>2. CASE i # Len(queue) + 1
    <3>1. i \in DOMAIN queue /\ longer[i] = queue[i]
      BY <2>2, <1>3
    <3>2. InPlace(queue, i, order.side, order.price, index)
      BY <3>1, <1>6
    <3>3. \A j \in DOMAIN longer : longer[i].id = longer[j].id => i = j
      BY <3>1, <3>2, <1>3 DEF InPlace
    <3> QED
      BY <3>1, <3>2, <3>3, <1>5 DEF InPlace
  <2> QED
    BY <2>1, <2>2
<1>8. \A s \in Side : \A p \in Price : \A i \in DOMAIN Queue(after, s, p) :
        InPlace(Queue(after, s, p), i, s, p, ids)
  <2> TAKE s \in Side
  <2> TAKE p \in Price
  <2>1. CASE s = order.side /\ p = order.price
    BY <2>1, <1>4, <1>7
  <2>2. CASE ~(s = order.side /\ p = order.price)
    <3>1. Queue(after, s, p) = Queue(book, s, p)
      BY <2>2, <1>4
    <3>2. \A i \in DOMAIN Queue(book, s, p) : InPlace(Queue(book, s, p), i, s, p, index)
      BY DEF Agree
    <3>3. \A i \in DOMAIN Queue(book, s, p) : InPlace(Queue(book, s, p), i, s, p, ids)
      BY <3>2, <1>5 DEF InPlace
    <3> QED
      BY <3>1, <3>3
  <2> QED
    BY <2>1, <2>2
<1>9. \A id \in DOMAIN ids :
        \E i \in DOMAIN Queue(after, ids[id].side, ids[id].price) :
          Queue(after, ids[id].side, ids[id].price)[i].id = id
  <2> TAKE id \in DOMAIN ids
  <2>1. CASE id = order.id
    <3>1. Queue(after, ids[id].side, ids[id].price) = longer
      BY <2>1, <1>1, <1>4, <1>5
    <3>2. Len(queue) + 1 \in DOMAIN longer
      BY <1>3
    <3> QED
      BY <2>1, <3>1, <3>2, <1>3
  <2>2. CASE id # order.id
    <3>1. id \in DOMAIN index /\ ids[id] = index[id]
      BY <2>2, <1>5
    <3>2. ids[id].side \in Side /\ ids[id].price \in Price
      BY <3>1 DEF IsMap, Location
    <3>3. PICK i \in DOMAIN Queue(book, ids[id].side, ids[id].price) :
            Queue(book, ids[id].side, ids[id].price)[i].id = id
      BY <3>1 DEF Agree
    <3>4. CASE ids[id].side = order.side /\ ids[id].price = order.price
      <4>1. Queue(after, ids[id].side, ids[id].price) = longer
        BY <3>2, <3>4, <1>4
      <4>2. i \in DOMAIN queue /\ queue[i].id = id
        BY <3>3, <3>4 DEF queue
      <4>3. i \in DOMAIN longer /\ longer[i].id = id
        BY <4>2, <1>3
      <4> QED
        BY <4>1, <4>3
    <3>5. CASE ~(ids[id].side = order.side /\ ids[id].price = order.price)
      BY <3>2, <3>3, <3>5, <1>4
    <3> QED
      BY <3>4, <3>5
  <2> QED
    BY <2>1, <2>2
<1>10. Agree(after, ids)
  BY <1>4, <1>8, <1>9 DEF Agree
<1> QED
  BY <1>10 DEF after, ids

\* An order may leave its level and the index together.
LEMMA AgreeRemove ==
  ASSUME NEW book, IsLevels(book), NEW index, IsMap(index, Nat, Location),
         Agree(book, index), NEW side \in Side, NEW price \in Price,
         NEW place \in DOMAIN Queue(book, side, price)
  PROVE  Agree(SetQueue(book, side, price, RemoveAt(Queue(book, side, price), place)),
               Without(index, Queue(book, side, price)[place].id))
<1> DEFINE queue == Queue(book, side, price)
           gone == queue[place].id
           shorter == RemoveAt(queue, place)
           after == SetQueue(book, side, price, shorter)
           ids == Without(index, gone)
<1>1. queue \in Seq(Order)
  BY QueueType
<1>2. DOMAIN queue = 1..Len(queue) /\ Len(queue) \in Nat /\ place \in 1..Len(queue)
  BY <1>1, LenProperties
<1>3. /\ shorter \in Seq(Order)
      /\ DOMAIN shorter = 1..(Len(queue) - 1)
      /\ \A k \in 1..(Len(queue) - 1) :
           shorter[k] = IF k < place THEN queue[k] ELSE queue[k + 1]
  BY <1>1, <1>2, RemoveAtProperties, LenProperties
<1>4. \A i \in DOMAIN queue : InPlace(queue, i, side, price, index)
  BY DEF Agree
<1>5. /\ \A s \in Side : \A p \in DOMAIN after[s] : after[s][p] # <<>>
      /\ \A s \in Side : \A p \in Price :
           Queue(after, s, p) = IF s = side /\ p = price THEN shorter ELSE Queue(book, s, p)
  <2>1. \A s \in Side : \A p \in DOMAIN book[s] : book[s][p] # <<>>
    BY DEF Agree
  <2> HIDE DEF shorter
  <2> QED
    BY <1>3, <2>1, SetQueueLookup
<1>6. gone \in DOMAIN index /\ index[gone] = [side |-> side, price |-> price]
  BY <1>2, <1>4 DEF InPlace
<1>7. /\ DOMAIN ids = DOMAIN index \ {gone}
      /\ \A id \in DOMAIN index \ {gone} : ids[id] = index[id]
  BY DEF Without, Restrict
<1> HIDE DEF queue, shorter, after, ids, gone
<1>8. \A i \in DOMAIN queue : i # place => queue[i].id # gone
  BY <1>2, <1>4 DEF InPlace, gone
<1>9. \A k \in DOMAIN shorter : InPlace(shorter, k, side, price, ids)
  <2> TAKE k \in DOMAIN shorter
  <2> DEFINE old(n) == IF n < place THEN n ELSE n + 1
  <2>1. \A n \in DOMAIN shorter : /\ old(n) \in DOMAIN queue
                                  /\ old(n) # place
                                  /\ shorter[n] = queue[old(n)]
    BY <1>2, <1>3
  <2>2. \A m, n \in DOMAIN shorter : old(m) = old(n) => m = n
    BY <1>2, <1>3
  <2> HIDE DEF old
  <2>3. InPlace(queue, old(k), side, price, index)
    BY <2>1, <1>4
  <2>4. shorter[k] = queue[old(k)] /\ shorter[k].id # gone
    BY <2>1, <1>8
  <2>5. \A j \in DOMAIN shorter : shorter[k].id = shorter[j].id => k = j
    BY <2>1, <2>2, <2>3 DEF InPlace
  <2> QED
    BY <2>3, <2>4, <2>5, <1>7 DEF InPlace
<1>10. \A s \in Side : \A p \in Price : \A i \in DOMAIN Queue(after, s, p) :
         InPlace(Queue(after, s, p), i, s, p, ids)
  <2> TAKE s \in Side
  <2> TAKE p \in Price
  <2>1. CASE s = side /\ p = price
    BY <2>1, <1>5, <1>9
  <2>2. CASE ~(s = side /\ p = price)
    <3>1. Queue(after, s, p) = Queue(book, s, p)
      BY <2>2, <1>5
    <3>2. \A i \in DOMAIN Queue(book, s, p) : InPlace(Queue(book, s, p), i, s, p, index)
      BY DEF Agree
    <3>3. \A i \in DOMAIN Queue(book, s, p) : Queue(book, s, p)[i].id # gone
      BY <2>2, <3>2, <1>6 DEF InPlace
    <3>4. \A i \in DOMAIN Queue(book, s, p) : InPlace(Queue(book, s, p), i, s, p, ids)
      BY <3>2, <3>3, <1>7 DEF InPlace
    <3> QED
      BY <3>1, <3>4
  <2> QED
    BY <2>1, <2>2
<1>11. \A id \in DOMAIN ids :
         \E i \in DOMAIN Queue(after, ids[id].side, ids[id].price) :
           Queue(after, ids[id].side, ids[id].price)[i].id = id
  <2> TAKE id \in DOMAIN ids
  <2>1. id \in DOMAIN index /\ id # gone /\ ids[id] = index[id]
    BY <1>7
  <2>2. ids[id].side \in Side /\ ids[id].price \in Price
    BY <2>1 DEF IsMap, Location
  <2>3. PICK i \in DOMAIN Queue(book, ids[id].side, ids[id].price) :
          Queue(book, ids[id].side, ids[id].price)[i].id = id
    BY <2>1 DEF Agree
  <2>4. CASE ids[id].side = side /\ ids[id].price = price
    <3>1. Queue(after, ids[id].side, ids[id].price) = shorter
      BY <2>2, <2>4, <1>5
    <3>2. i \in DOMAIN queue /\ queue[i].id = id /\ i # place
      BY <2>1, <2>3, <2>4 DEF queue, gone
    <3>3. CASE i < place
      <4>1. i \in DOMAIN shorter /\ shorter[i] = queue[i]
        BY <3>2, <3>3, <1>2, <1>3
      <4> QED
        BY <4>1, <3>1, <3>2
    <3>4. CASE ~(i < place)
      <4>1. i - 1 \in DOMAIN shorter /\ shorter[i - 1] = queue[(i - 1) + 1]
        BY <3>2, <3>4, <1>2, <1>3
      <4>2. (i - 1) + 1 = i
        BY <3>2, <1>2
      <4> QED
        BY <4>1, <4>2, <3>1, <3>2
    <3> QED
      BY <3>3, <3>4
  <2>5. CASE ~(ids[id].side = side /\ ids[id].price = price)
    BY <2>2, <2>3, <2>5, <1>5
  <2> QED
    BY <2>4, <2>5
<1>12. Agree(after, ids)
  BY <1>5, <1>10, <1>11 DEF Agree
<1> QED
  BY <1>12 DEF after, ids, shorter, queue, gone

\* An order that has something left keeps its place.
LEMMA AgreeReduce ==
  ASSUME NEW book, IsLevels(book), NEW index, IsMap(index, Nat, Location),
         Agree(book, index), NEW side \in Side, NEW price \in Price,
         NEW place \in DOMAIN Queue(book, side, price), NEW left \in Nat, left > 0
  PROVE  Agree(SetQueue(book, side, price,
                        [Queue(book, side, price) EXCEPT ![place].remaining = left]),
               index)
<1> DEFINE queue == Queue(book, side, price)
           reduced == [queue EXCEPT ![place].remaining = left]
           after == SetQueue(book, side, price, reduced)
<1>1. queue \in Seq(Order)
  BY QueueType
<1>2. place \in 1..Len(queue) /\ DOMAIN queue = 1..Len(queue)
  BY <1>1, LenProperties
<1>3. \A i \in DOMAIN queue : queue[i] \in Order
  BY <1>1, <1>2, ElementOfSeq
<1> HIDE DEF queue
<1>4. /\ reduced = [queue EXCEPT ![place] = [queue[place] EXCEPT !.remaining = left]]
      /\ [queue[place] EXCEPT !.remaining = left] \in Order
  BY <1>2, <1>3 DEF Order
<1>5. reduced \in Seq(Order)
  BY <1>1, <1>2, <1>4, ExceptSeq
<1>6. DOMAIN reduced = DOMAIN queue
  BY <1>4
<1>7. \A i \in DOMAIN queue : /\ reduced[i].side = queue[i].side
                              /\ reduced[i].price = queue[i].price
                              /\ reduced[i].id = queue[i].id
                              /\ i # place => reduced[i].remaining = queue[i].remaining
                              /\ i = place => reduced[i].remaining = left
  <2> TAKE i \in DOMAIN queue
  <2>1. reduced[i] = IF i = place THEN [queue[place] EXCEPT !.remaining = left]
                                  ELSE queue[i]
    BY <1>4
  <2> QED
    BY <2>1, <1>2, <1>3 DEF Order
<1> HIDE DEF reduced
<1>8. /\ \A s \in Side : \A p \in DOMAIN after[s] : after[s][p] # <<>>
      /\ \A s \in Side : \A p \in Price :
           Queue(after, s, p) = IF s = side /\ p = price THEN reduced ELSE Queue(book, s, p)
  <2>1. \A s \in Side : \A p \in DOMAIN book[s] : book[s][p] # <<>>
    BY DEF Agree
  <2> QED
    BY <1>5, <2>1, SetQueueLookup
<1> HIDE DEF after
<1>9. \A i \in DOMAIN queue : InPlace(queue, i, side, price, index)
  BY DEF Agree, queue
<1>10. \A i \in DOMAIN reduced : InPlace(reduced, i, side, price, index)
  <2> TAKE i \in DOMAIN reduced
  <2>1. i \in DOMAIN queue /\ InPlace(queue, i, side, price, index)
    BY <1>6, <1>9
  <2>2. reduced[i].remaining > 0
    BY <2>1, <1>7 DEF InPlace
  <2> QED
    BY <2>1, <2>2, <1>6, <1>7 DEF InPlace
<1>11. \A s \in Side : \A p \in Price : \A i \in DOMAIN Queue(after, s, p) :
         InPlace(Queue(after, s, p), i, s, p, index)
  BY <1>8, <1>10 DEF Agree
<1>12. \A id \in DOMAIN index :
         \E i \in DOMAIN Queue(after, index[id].side, index[id].price) :
           Queue(after, index[id].side, index[id].price)[i].id = id
  <2> TAKE id \in DOMAIN index
  <2>1. index[id].side \in Side /\ index[id].price \in Price
    BY DEF IsMap, Location
  <2>2. PICK i \in DOMAIN Queue(book, index[id].side, index[id].price) :
          Queue(book, index[id].side, index[id].price)[i].id = id
    BY DEF Agree
  <2> QED
    BY <2>1, <2>2, <1>6, <1>7, <1>8 DEF queue
<1>13. Agree(after, index)
  BY <1>8, <1>11, <1>12 DEF Agree
<1> QED
  BY <1>13 DEF after, reduced, queue

(***************************************************************************)
(* The steps.                                                              *)
(***************************************************************************)

LEMMA IndexInit == Init => IndexInv
<1> SUFFICES ASSUME Init PROVE IndexInv
  OBVIOUS
<1>1. Agree(levels, orderIndex)
  BY DEF Init, Agree, Queue, EmptyLevels
<1> QED
  BY <1>1, TypeInit DEF Init, IndexInv, IndexOK, StopsApart, ActiveIds

\* A step that leaves the containers alone, and executes no order it did not.
LEMMA IndexStill ==
  ASSUME IndexInv, TypeInv',
         levels' = levels, orderIndex' = orderIndex, stopOrders' = stopOrders,
         nextOrderId' >= nextOrderId,
         pc' = "match" => pc = "match" /\ taker' = taker
  PROVE  IndexInv'
<1>1. /\ nextOrderId \in Nat /\ nextOrderId' \in Nat
      /\ ActiveIds \subseteq Nat /\ ActiveIds' = ActiveIds
      /\ taker \in Order
  BY DEF IndexInv, TypeInv, TypeOK, ActiveIds, IsMap
<1>2. \A id \in ActiveIds' : id < nextOrderId'
  BY <1>1 DEF IndexInv, IndexOK
<1>3. pc' = "match" => taker'.id < nextOrderId' /\ taker'.id \notin DOMAIN orderIndex'
  BY <1>1 DEF IndexInv, IndexOK, Order
<1>4. Agree(levels, orderIndex)'
  BY DEF IndexInv, IndexOK
<1>5. StopsApart'
  BY DEF IndexInv, IndexOK, StopsApart
<1> QED
  BY <1>2, <1>3, <1>4, <1>5 DEF IndexInv, IndexOK

\* An id handed out is above every id in use.
LEMMA IndexSubmit ==
  ASSUME IndexInv, NEW req \in Requests, Submit(req)
  PROVE  IndexInv'
<1>1. TypeInv' /\ TypeInv /\ pc \in {"idle", "replace"}
  BY TypeSubmit DEF IndexInv, Submit
<1>2. /\ nextOrderId \in Nat /\ ActiveIds \subseteq Nat
      /\ Incoming(req).id = nextOrderId /\ Incoming(req).kind = req.kind
      /\ \A id \in ActiveIds : id < nextOrderId
  BY <1>1, IncomingType DEF IndexInv, IndexOK, TypeInv, TypeOK, ActiveIds, IsMap
<1>3. nextOrderId \notin ActiveIds
  BY <1>2
<1>4. CASE RejectInvalid(req) \/ RejectFok(req)
  BY <1>1, <1>2, <1>4, IndexStill
     DEF RejectInvalid, RejectFok, AcceptAs, Answer, Create, bookVars
<1>5. CASE AcceptStop(req)
  <2>1. /\ levels' = levels /\ orderIndex' = orderIndex /\ pc' = "idle"
        /\ nextOrderId' = nextOrderId + 1
        /\ stopOrders' = Put(stopOrders, nextOrderId, Incoming(req))
        /\ IsStopOrder(req.kind)
    BY <1>5 DEF AcceptStop, AcceptAs, Answer, Create
  <2>2. ActiveIds' = ActiveIds \cup {nextOrderId}
    BY <2>1 DEF ActiveIds, Put
  <2>3. \A id \in ActiveIds' : id < nextOrderId'
    <3>1. \A id \in ActiveIds : id < nextOrderId + 1
      BY <1>2
    <3>2. nextOrderId < nextOrderId + 1
      BY <1>2
    <3> QED
      BY <2>1, <2>2, <3>1, <3>2
  <2>4. StopsApart'
    BY <1>2, <1>3, <2>1 DEF IndexInv, IndexOK, StopsApart, Put, ActiveIds
  <2> QED
    BY <1>1, <2>1, <2>3, <2>4 DEF IndexInv, IndexOK
<1>6. CASE BeginExecution(req)
  <2>1. /\ levels' = levels /\ orderIndex' = orderIndex /\ stopOrders' = stopOrders
        /\ nextOrderId' = nextOrderId + 1 /\ taker' = Incoming(req)
    BY <1>6 DEF BeginExecution, Create, bookVars
  <2>2. \A id \in ActiveIds' : id < nextOrderId'
    BY <1>2, <2>1 DEF ActiveIds
  <2>3. StopsApart'
    BY <1>2, <1>3, <2>1 DEF IndexInv, IndexOK, StopsApart, ActiveIds
  <2> QED
    BY <1>1, <1>2, <1>3, <2>1, <2>2, <2>3 DEF IndexInv, IndexOK, ActiveIds
<1> QED
  BY <1>4, <1>5, <1>6 DEF Submit

\* A filled maker leaves its level and the index in the same step; another keeps
\* its place in both.
LEMMA IndexFillBest ==
  ASSUME IndexInv, FillBest
  PROVE  IndexInv'
<1>1. pc = "match" /\ CanTrade /\ TypeInv /\ TypeInv'
  BY TypeFillBest DEF FillBest, IndexInv
<1>2. /\ MakerSide \in Side
      /\ BestPrice \in DOMAIN levels[MakerSide]
      /\ BestPrice \in Price
      /\ BestPlace \in DOMAIN levels[MakerSide][BestPrice]
      /\ BestMaker \in Order
      /\ NextAmount \in Nat /\ NextAmount <= BestMaker.remaining
      /\ IsLevels(levels) /\ IsMap(orderIndex, Nat, Location)
      /\ taker \in Order
  BY <1>1, NextTradeType DEF TypeInv, TypeOK
<1>3. /\ levels' = Deplete(levels, MakerSide, BestPrice, BestPlace, NextAmount)
      /\ orderIndex' = IF BestMaker.remaining = NextAmount
                         THEN Without(orderIndex, BestMaker.id) ELSE orderIndex
      /\ taker' = ReduceTaker(taker, BestPrice, NextAmount)
      /\ nextOrderId' = nextOrderId /\ stopOrders' = stopOrders /\ pc' = "match"
  BY <1>1 DEF FillBest
<1>4. taker'.id = taker.id
  BY <1>2, <1>3 DEF ReduceTaker, Order
<1>5. DOMAIN orderIndex' \subseteq DOMAIN orderIndex
  BY <1>3 DEF Without, Restrict
<1> DEFINE queue == Queue(levels, MakerSide, BestPrice)
           left == BestMaker.remaining - NextAmount
<1>6. queue = levels[MakerSide][BestPrice] /\ queue[BestPlace] = BestMaker
  BY <1>2 DEF Queue, BestMaker
<1>7. left \in Nat
  BY <1>2 DEF Order
<1>8. levels' = SetQueue(levels, MakerSide, BestPrice,
                         IF left = 0 THEN RemoveAt(queue, BestPlace)
                                     ELSE [queue EXCEPT ![BestPlace].remaining = left])
  BY <1>3, <1>6 DEF Deplete, BestMaker
<1>9. Agree(levels', orderIndex')
  <2>1. Agree(levels, orderIndex)
    BY DEF IndexInv, IndexOK
  <2>2. CASE left = 0
    <3>1. BestMaker.remaining = NextAmount
      BY <1>2, <2>2 DEF Order
    <3>2. orderIndex' = Without(orderIndex, queue[BestPlace].id)
      BY <1>3, <1>6, <3>1
    <3> QED
      BY <1>2, <1>6, <1>8, <2>1, <2>2, <3>2, AgreeRemove
  <2>3. CASE left # 0
    <3>1. BestMaker.remaining # NextAmount /\ left > 0
      BY <1>2, <1>7, <2>3 DEF Order
    <3>2. orderIndex' = orderIndex
      BY <1>3, <3>1
    <3> HIDE DEF left
    <3> QED
      BY <1>2, <1>6, <1>7, <1>8, <2>1, <2>3, <3>1, <3>2, AgreeReduce
  <2> QED
    BY <2>2, <2>3
<1>10. StopsApart'
  BY <1>1, <1>3, <1>4, <1>5 DEF IndexInv, IndexOK, StopsApart
<1>11. /\ \A id \in ActiveIds' : id < nextOrderId'
       /\ taker'.id < nextOrderId' /\ taker'.id \notin DOMAIN orderIndex'
  BY <1>1, <1>3, <1>4, <1>5 DEF IndexInv, IndexOK, ActiveIds
<1> QED
  BY <1>1, <1>9, <1>10, <1>11 DEF IndexInv, IndexOK

\* The executing order joins its level and the index in the same step.
LEMMA IndexSettle ==
  ASSUME IndexInv, Settle
  PROVE  IndexInv'
<1>1. TypeInv /\ TypeInv' /\ pc = "match" /\ pc' # "match"
  BY TypeSettle DEF IndexInv, Settle
<1>2. nextOrderId' = nextOrderId /\ stopOrders' = stopOrders
  BY DEF Settle, counterVars
<1>3. CASE ~Rests(levels, taker)
  <2>1. levels' = levels /\ orderIndex' = orderIndex /\ nextOrderId \in Nat
    BY <1>1, <1>3 DEF Settle, TypeInv, TypeOK
  <2> QED
    BY <1>1, <1>2, <2>1, IndexStill
<1>4. CASE Rests(levels, taker)
  <2>1. /\ levels' = Push(levels, taker)
        /\ orderIndex' = Put(orderIndex, taker.id,
                             [side |-> taker.side, price |-> taker.price])
    BY <1>4 DEF Settle
  <2>2. /\ taker \in Order /\ taker.price \in Price
        /\ IsLevels(levels) /\ IsMap(orderIndex, Nat, Location)
        /\ Agree(levels, orderIndex)
        /\ taker.id \notin DOMAIN orderIndex /\ taker.id < nextOrderId
        /\ \A id \in ActiveIds : id < nextOrderId
    BY <1>1, <1>4, RestingHasPrice DEF IndexInv, IndexOK, TypeInv, TypeOK
  <2>3. taker.remaining > 0
    BY <1>4, <2>2 DEF Rests, IsFilled, Discards, Order
  <2>4. Agree(levels', orderIndex')
    BY <2>1, <2>2, <2>3, AgreePush
  <2>5. DOMAIN orderIndex' = DOMAIN orderIndex \cup {taker.id}
    BY <2>1 DEF Put
  <2>6. \A id \in ActiveIds' : id < nextOrderId'
    BY <1>2, <2>2, <2>5 DEF ActiveIds
  <2>7. StopsApart'
    BY <1>1, <1>2, <2>5 DEF IndexInv, IndexOK, StopsApart
  <2> QED
    BY <1>1, <2>4, <2>6, <2>7 DEF IndexInv, IndexOK
<1> QED
  BY <1>3, <1>4

LEMMA IndexActivateStop ==
  ASSUME IndexInv, ActivateStop
  PROVE  IndexInv'
<1>1. TypeInv /\ TypeInv' /\ NextTriggered \in DOMAIN stopOrders
  BY TypeActivateStop DEF IndexInv, ActivateStop
<1>2. /\ levels' = levels /\ orderIndex' = orderIndex /\ nextOrderId' = nextOrderId
      /\ stopOrders' = Without(stopOrders, NextTriggered)
      /\ taker' = Activated(stopOrders[NextTriggered])
  BY DEF ActivateStop, counterVars
<1>3. /\ stopOrders[NextTriggered] \in Order
      /\ stopOrders[NextTriggered].id = NextTriggered
      /\ NextTriggered \notin DOMAIN orderIndex
      /\ NextTriggered < nextOrderId
  BY <1>1 DEF IndexInv, IndexOK, StopsApart, ActiveIds, TypeInv, TypeOK, IsMap
<1>4. taker'.id = NextTriggered
  BY <1>2, <1>3 DEF Activated, Order
<1>5. /\ DOMAIN stopOrders' = DOMAIN stopOrders \ {NextTriggered}
      /\ \A id \in DOMAIN stopOrders' : stopOrders'[id] = stopOrders[id]
  BY <1>2 DEF Without, Restrict
<1>6. StopsApart'
  BY <1>2, <1>4, <1>5 DEF IndexInv, IndexOK, StopsApart
<1>7. \A id \in ActiveIds' : id < nextOrderId'
  BY <1>2, <1>5 DEF IndexInv, IndexOK, ActiveIds
<1> QED
  BY <1>1, <1>2, <1>3, <1>4, <1>6, <1>7 DEF IndexInv, IndexOK

\* A cancel finds the order it looks up, in its level or among the stop orders,
\* and takes it out of both containers that know it.
LEMMA IndexCancelOrder ==
  ASSUME IndexInv, NEW id \in ActiveIds, CancelOrder(id)
  PROVE  /\ Agree(levels', orderIndex')
         /\ DOMAIN orderIndex' \subseteq DOMAIN orderIndex
         /\ DOMAIN stopOrders' \subseteq DOMAIN stopOrders
         /\ \A other \in DOMAIN stopOrders' : stopOrders'[other] = stopOrders[other]
<1>1. /\ IsLevels(levels) /\ IsMap(orderIndex, Nat, Location)
      /\ Agree(levels, orderIndex) /\ TypeInv
  BY DEF IndexInv, IndexOK, TypeInv, TypeOK
<1>2. CASE id \in DOMAIN orderIndex
  <2> DEFINE side == orderIndex[id].side
             price == orderIndex[id].price
             queue == Queue(levels, side, price)
             place == PositionOf(queue, id)
  <2>1. side \in Side /\ price \in Price
    BY <1>1, <1>2 DEF IsMap, Location
  <2>2. queue \in Seq(Order) /\ DOMAIN queue = 1..Len(queue)
    BY <1>1, <2>1, QueueType, LenProperties
  <2>3. \E i \in DOMAIN queue : queue[i].id = id
    BY <1>1, <1>2 DEF Agree
  <2> HIDE DEF side, price, queue
  <2>4. place \in DOMAIN queue /\ queue[place].id = id /\ place # 0
    BY <2>2, <2>3, PositionOfFound
  <2>5. /\ levels' = RemoveFromLevel(levels, side, price, id)
        /\ orderIndex' = Without(orderIndex, id)
        /\ stopOrders' = stopOrders
    BY <1>2 DEF CancelOrder, side, price
  <2>6. levels' = SetQueue(levels, side, price, RemoveAt(queue, place))
    BY <2>4, <2>5 DEF RemoveFromLevel, queue
  <2> HIDE DEF place
  <2>7. Agree(levels', orderIndex')
    BY <1>1, <2>1, <2>4, <2>5, <2>6, AgreeRemove DEF queue
  <2> QED
    BY <2>5, <2>7 DEF Without, Restrict
<1>3. CASE id \notin DOMAIN orderIndex
  BY <1>1, <1>3, TypeCancelOrder DEF CancelOrder
<1> QED
  BY <1>2, <1>3

\* Fewer active orders, between two commands or inside one that executes nothing.
LEMMA IndexLess ==
  ASSUME IndexInv, TypeInv', NEW id \in ActiveIds, CancelOrder(id), pc' # "match",
         nextOrderId' = nextOrderId
  PROVE  IndexInv'
<1>1. StopsApart'
  BY IndexCancelOrder DEF IndexInv, IndexOK, StopsApart
<1>2. \A other \in ActiveIds' : other < nextOrderId'
  BY IndexCancelOrder DEF IndexInv, IndexOK, ActiveIds
<1>3. Agree(levels', orderIndex')
  BY IndexCancelOrder
<1> QED
  BY <1>1, <1>2, <1>3 DEF IndexInv, IndexOK

LEMMA IndexCommands ==
  ASSUME IndexInv,
         \/ \E id \in ActiveIds : Cancel(id)
         \/ \E id \in ActiveIds : Replace(id)
         \/ \E id \in cancelling : MassCancelOne(id)
  PROVE  IndexInv'
<1>1. CASE \E id \in ActiveIds : Cancel(id)
  BY <1>1, TypeCancel, IndexLess DEF IndexInv, Cancel, Answer, counterVars
<1>2. CASE \E id \in ActiveIds : Replace(id)
  BY <1>2, TypeReplace, IndexLess DEF IndexInv, Replace, counterVars
<1>3. CASE \E id \in cancelling : MassCancelOne(id)
  <2>1. cancelling \subseteq ActiveIds
    BY DEF IndexInv, TypeInv, ControlOK
  <2> QED
    BY <1>3, <2>1, TypeMassCancelOne, IndexLess DEF IndexInv, MassCancelOne, counterVars
<1> QED
  BY <1>1, <1>2, <1>3

\* The steps that leave the containers alone.
LEMMA IndexOthers ==
  ASSUME IndexInv,
         \/ RejectPostOnly \/ SkipStop \/ MassCancel \/ MassCancelDone
         \/ UNCHANGED vars
  PROVE  IndexInv'
<1>1. TypeInv' /\ nextOrderId \in Nat
  BY TypeStep DEF IndexInv, TypeInv, TypeOK, Next, EngineStep, Command
<1> QED
  BY <1>1, IndexStill
     DEF RejectPostOnly, SkipStop, MassCancel, MassCancelDone, Answer, vars,
         counterVars, bookVars, controlVars

LEMMA IndexStep == IndexInv /\ [Next]_vars => IndexInv'
<1> SUFFICES ASSUME IndexInv, [Next]_vars PROVE IndexInv'
  OBVIOUS
<1>1. CASE EngineStep
  BY <1>1, IndexSubmit, IndexFillBest, IndexSettle, IndexActivateStop, IndexCommands,
     IndexOthers DEF EngineStep
<1>2. CASE Command
  BY <1>2, IndexSubmit, IndexCommands, IndexOthers DEF Command
<1>3. CASE UNCHANGED vars
  BY <1>3, IndexOthers
<1> QED
  BY <1>1, <1>2, <1>3 DEF Next

LEMMA IndexImplies == IndexInv => IndexMatchesLevels
<1> SUFFICES ASSUME IndexInv PROVE IndexMatchesLevels
  OBVIOUS
<1>1. /\ IsLevels(levels) /\ IsMap(orderIndex, Nat, Location)
      /\ Agree(levels, orderIndex)
  BY DEF IndexInv, IndexOK, TypeInv, TypeOK
<1>2. LevelsIndexed
  <2>1. \A side \in Side : \A price \in DOMAIN levels[side] :
          /\ price \in Price
          /\ levels[side][price] = Queue(levels, side, price)
    BY <1>1 DEF IsLevels, IsMap, Queue
  <2> QED
    BY <1>1, <2>1 DEF LevelsIndexed, Agree, InPlace
<1>3. IndexQueued
  <2> SUFFICES ASSUME NEW id \in DOMAIN orderIndex PROVE Cancelled(id) # {}
    BY DEF IndexQueued
  <2> DEFINE level == Queue(levels, orderIndex[id].side, orderIndex[id].price)
  <2>1. orderIndex[id].side \in Side /\ orderIndex[id].price \in Price
    BY <1>1 DEF IsMap, Location
  <2>2. level \in Seq(Order) /\ \E i \in DOMAIN level : level[i].id = id
    BY <1>1, <2>1, QueueType DEF Agree
  <2>3. Cancelled(id) = {level[i] : i \in {PositionOf(level, id)} \ {0}}
    BY DEF Cancelled
  <2> HIDE DEF level
  <2>4. PositionOf(level, id) # 0
    BY <2>2, PositionOfFound, LenProperties
  <2> QED
    BY <2>3, <2>4
<1> QED
  BY <1>2, <1>3 DEF IndexMatchesLevels, IndexInv, IndexOK

\* The levels, the index and the stop orders of the book agree in every reachable
\* state, in the middle of a command too: a cancel always finds the order the index
\* names, and a fill, a cancel or an activation leaves no trace of an order in only
\* one of them (book.rs:264-283, 458-471, 606-640; matching.rs:63-125).
THEOREM ContainersAgree == Spec => []IndexMatchesLevels
<1>1. Spec => []IndexInv
  BY IndexInit, IndexStep, PTL DEF Spec
<1> QED
  BY <1>1, IndexImplies, PTL
==============================================================================
