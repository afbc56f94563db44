--------------------------- MODULE MatchingProofs ---------------------------
(***************************************************************************)
(* What the matching loop promises of the order in which it trades:        *)
(* price-time priority, and the stop orders a trade must activate; and of  *)
(* what comes to rest: no fill-or-kill order, and no order across the      *)
(* other side of the book.                                                 *)
(***************************************************************************)
EXTENDS LedgerProofs

\* What is proved of the containers, the histories, the quantities and the accounts.
BaseInv == QuantityInv /\ AccountInv

LEMMA BaseInit == Init => BaseInv
BY QuantityInit, AccountInit DEF BaseInv

LEMMA BaseStep == BaseInv /\ [Next]_vars => BaseInv'
BY QuantityStep, AccountStep DEF BaseInv

BaseFacts ==
  /\ TypeInv /\ IndexInv /\ HistoryInv /\ LedgerInv /\ QuantityInv /\ AccountInv
  /\ IsLevels(levels) /\ IsMap(orderIndex, Nat, Location) /\ Agree(levels, orderIndex)
  /\ IsMap(history, Nat, Seq(HistoryEntry)) /\ IsMap(submitted, Nat, Order)
  /\ IsMap(stopOrders, Nat, Order)
  /\ sequence \in Nat /\ nextOrderId \in Nat /\ taker \in Order
  /\ tape \in Seq(Trade) /\ fills \in Seq(Trade)
  /\ pending \in Seq(SUBSET Nat)

LEMMA BaseImplies == BaseInv => BaseFacts
BY DEF BaseInv, BaseFacts, QuantityInv, HistoryInv, IndexInv, IndexOK, TypeInv, TypeOK

(***************************************************************************)
(* A history only grows.                                                   *)
(***************************************************************************)

Extends(before, after) ==
  \A id \in DOMAIN before :
    /\ id \in DOMAIN after
    /\ Len(before[id]) <= Len(after[id])
    /\ \A k \in 1..Len(before[id]) : after[id][k] = before[id][k]

\* How many entries there are about an order.
Told(book, id) == IF id \in DOMAIN book THEN Len(book[id]) ELSE 0

\* `after' is `before' with one more entry about `id'.
Lengthens(before, after, id, entry) ==
  /\ Extends(before, after)
  /\ id \in DOMAIN after
  /\ Len(after[id]) = Told(before, id) + 1
  /\ after[id][Told(before, id) + 1] = entry
  /\ \A x \in DOMAIN before \ {id} : x \in DOMAIN after /\ after[x] = before[x]

LEMMA RecordLengthens ==
  ASSUME NEW book, IsMap(book, Nat, Seq(HistoryEntry)), NEW id, NEW entry \in HistoryEntry
  PROVE  Lengthens(book, Record(book, id, entry), id, entry)
<1> DEFINE after == Record(book, id, entry)
<1>1. /\ DOMAIN after = DOMAIN book \cup {id}
      /\ \A x \in DOMAIN book \ {id} : after[x] = book[x]
      /\ after[id] = IF id \in DOMAIN book THEN Append(book[id], entry) ELSE <<entry>>
  BY DEF Record
<1> HIDE DEF after
<1>2. \A x \in DOMAIN book : book[x] \in Seq(HistoryEntry) /\ Len(book[x]) \in Nat
  BY LenProperties DEF IsMap
<1>3. CASE id \in DOMAIN book
  <2>1. /\ Len(after[id]) = Len(book[id]) + 1
        /\ after[id][Len(book[id]) + 1] = entry
        /\ \A k \in 1..Len(book[id]) : after[id][k] = book[id][k]
    BY <1>1, <1>2, <1>3, AppendProperties
  <2>2. Extends(book, after)
    BY <1>1, <1>2, <1>3, <2>1 DEF Extends
  <2> QED
    BY <1>1, <1>3, <2>1, <2>2 DEF Lengthens, Told, after
<1>4. CASE id \notin DOMAIN book
  <2>1. after[id] = <<entry>> /\ Len(<<entry>>) = 1 /\ <<entry>>[1] = entry
    BY <1>1, <1>4
  <2>2. Extends(book, after)
    BY <1>1, <1>2, <1>4 DEF Extends
  <2> QED
    BY <1>1, <1>4, <2>1, <2>2 DEF Lengthens, Told, after
<1> QED
  BY <1>3, <1>4

LEMMA RecordStatusLengthens ==
  ASSUME NEW book, IsMap(book, Nat, Seq(HistoryEntry)), NEW seq \in Nat,
         NEW order \in Order, NEW status \in OrderStatus
  PROVE  Lengthens(book, RecordStatus(book, seq, order, status), order.id,
                   Entry(seq, status, order.remaining))
<1>1. Entry(seq, status, order.remaining) \in HistoryEntry
  BY DEF Entry, HistoryEntry, Order
<1> QED
  BY <1>1, RecordLengthens DEF RecordStatus

LEMMA ExtendsTwice ==
  ASSUME NEW one, IsMap(one, Nat, Seq(HistoryEntry)),
         NEW two, IsMap(two, Nat, Seq(HistoryEntry)),
         NEW three, IsMap(three, Nat, Seq(HistoryEntry)),
         Extends(one, two), Extends(two, three)
  PROVE  Extends(one, three)
<1> SUFFICES ASSUME NEW id \in DOMAIN one
             PROVE  /\ id \in DOMAIN three
                    /\ Len(one[id]) <= Len(three[id])
                    /\ \A k \in 1..Len(one[id]) : three[id][k] = one[id][k]
  BY DEF Extends
<1>1. /\ id \in DOMAIN two /\ Len(one[id]) <= Len(two[id])
      /\ \A k \in 1..Len(one[id]) : two[id][k] = one[id][k]
  BY DEF Extends
<1>2. /\ id \in DOMAIN three /\ Len(two[id]) <= Len(three[id])
      /\ \A k \in 1..Len(two[id]) : three[id][k] = two[id][k]
  BY <1>1 DEF Extends
<1>3. Len(one[id]) \in Nat /\ Len(two[id]) \in Nat /\ Len(three[id]) \in Nat
  BY <1>1, <1>2, LenProperties DEF IsMap
<1>4. \A k \in 1..Len(one[id]) : k \in 1..Len(two[id])
  BY <1>1, <1>3
<1> QED
  BY <1>1, <1>2, <1>3, <1>4

(***************************************************************************)
(* Price-time priority.                                                    *)
(***************************************************************************)

\* Which entry of its history tells when an order took its place in a level.
Place(id) == IF IsStopOrder(submitted[id].kind) THEN 3 ELSE 2

Placed(id) ==
  /\ id \in DOMAIN submitted
  /\ id \in DOMAIN history
  /\ Place(id) <= Len(history[id])
  /\ QueuedAt(id) <= sequence

InTurn(one, other) == Placed(one) /\ Placed(other) /\ QueuedAt(one) <= QueuedAt(other)

\* Every queue is sorted by the time its orders joined it.
QueuesInTurn ==
  \A side \in Side : \A price \in Price : \A i, j \in DOMAIN Queue(levels, side, price) :
    i <= j => InTurn(Queue(levels, side, price)[i].id, Queue(levels, side, price)[j].id)

\* A dormant stop has been accepted and has rested; that it will rest again in a level
\* is its next entry, as it is of every order that executes.
StopsWait ==
  \A id \in DOMAIN stopOrders :
    /\ id \in DOMAIN submitted /\ IsStopOrder(submitted[id].kind)
    /\ id \in DOMAIN history /\ Len(history[id]) = 2

TakerDue ==
  pc = "match" =>
    /\ taker.id \in DOMAIN submitted
    /\ taker.id \in DOMAIN history
    /\ Len(history[taker.id]) + 1 = Place(taker.id)

PriorityOK == QueuesInTurn /\ StopsWait /\ TakerDue

Grows ==
  /\ Extends(history, history')
  /\ \A id \in DOMAIN submitted : id \in DOMAIN submitted' /\ submitted'[id] = submitted[id]
  /\ sequence \in Nat /\ sequence' \in Nat /\ sequence <= sequence'

\* Every two neighbours of a queue of `after' stood in that order before.
Thinned(after, before) ==
  \A side \in Side : \A price \in Price : \A i, j \in DOMAIN Queue(after, side, price) :
    i <= j => \E k, l \in DOMAIN Queue(before, side, price) :
                /\ k <= l
                /\ Queue(before, side, price)[k].id = Queue(after, side, price)[i].id
                /\ Queue(before, side, price)[l].id = Queue(after, side, price)[j].id

LEMMA PlacedStill ==
  ASSUME BaseInv, BaseInv', Grows, NEW id, Placed(id)
  PROVE  Placed(id)' /\ QueuedAt(id)' = QueuedAt(id) /\ QueuedAt(id) \in Nat
<1>1. /\ id \in DOMAIN submitted' /\ submitted'[id] = submitted[id]
      /\ id \in DOMAIN history' /\ Len(history[id]) <= Len(history'[id])
      /\ \A k \in 1..Len(history[id]) : history'[id][k] = history[id][k]
  BY DEF Placed, Grows, Extends
<1>2. history[id] \in Seq(HistoryEntry) /\ history'[id] \in Seq(HistoryEntry)
  <2>1. BaseFacts'
    BY BaseImplies, PTL
  <2>2. IsMap(history, Nat, Seq(HistoryEntry)) /\ IsMap(history', Nat, Seq(HistoryEntry))
    BY <2>1, BaseImplies DEF BaseFacts
  <2> QED
    BY <1>1, <2>2 DEF IsMap, Placed
<1>3. Len(history[id]) \in Nat /\ Len(history'[id]) \in Nat
  BY <1>2, LenProperties
<1>4. PICK n \in {2, 3} : n = Place(id)
  BY DEF Place
<1>5. Place(id)' = n
  BY <1>1, <1>4 DEF Place
<1>6. n \in 1..Len(history[id])
  BY <1>3, <1>4 DEF Placed
<1>7. QueuedAt(id) = history[id][n].sequence /\ QueuedAt(id)' = history'[id][n].sequence
  BY <1>4, <1>5 DEF QueuedAt, Place
<1>8. QueuedAt(id) \in Nat
  <2>1. history[id][n] \in HistoryEntry
    BY <1>2, <1>6, ElementOfSeq
  <2> QED
    BY <1>7, <2>1 DEF HistoryEntry
<1>9. QueuedAt(id)' = QueuedAt(id)
  BY <1>1, <1>6, <1>7
<1>10. n <= Len(history'[id])
  BY <1>1, <1>3, <1>6
<1>11. QueuedAt(id)' <= sequence'
  BY <1>8, <1>9 DEF Grows, Placed
<1> QED
  BY <1>1, <1>5, <1>8, <1>9, <1>10, <1>11 DEF Placed

LEMMA InTurnStill ==
  ASSUME BaseInv, BaseInv', Grows, NEW one, NEW other, InTurn(one, other)
  PROVE  InTurn(one, other)'
<1>1. Placed(one)' /\ QueuedAt(one)' = QueuedAt(one)
  BY PlacedStill DEF InTurn
<1>2. Placed(other)' /\ QueuedAt(other)' = QueuedAt(other)
  BY PlacedStill DEF InTurn
<1> QED
  BY <1>1, <1>2 DEF InTurn

LEMMA PriorityKeeps ==
  ASSUME BaseInv, BaseInv', PriorityOK, Grows, Thinned(levels', levels),
         StopsWait', TakerDue'
  PROVE  PriorityOK'
<1> SUFFICES ASSUME NEW side \in Side, NEW price \in Price,
                    NEW i \in DOMAIN Queue(levels', side, price),
                    NEW j \in DOMAIN Queue(levels', side, price), i <= j
             PROVE  InTurn(Queue(levels, side, price)[i].id,
                           Queue(levels, side, price)[j].id)'
  BY DEF PriorityOK, QueuesInTurn
<1>1. PICK one, other : /\ one = Queue(levels', side, price)[i].id
                        /\ other = Queue(levels', side, price)[j].id
  OBVIOUS
<1>2. InTurn(one, other)
  BY <1>1 DEF PriorityOK, QueuesInTurn, Thinned
<1>3. InTurn(one, other)'
  BY <1>2, InTurnStill
<1> QED
  BY <1>1, <1>3

LEMMA ThinSame ==
  ASSUME NEW book, IsLevels(book)
  PROVE  Thinned(book, book)
BY DEF Thinned

\* Taking an order out of its queue leaves the others in their order.
LEMMA ThinRemove ==
  ASSUME NEW book, IsLevels(book), NEW index, Agree(book, index),
         NEW side \in Side, NEW price \in Price,
         NEW place \in DOMAIN Queue(book, side, price)
  PROVE  Thinned(SetQueue(book, side, price, RemoveAt(Queue(book, side, price), place)), book)
<1> DEFINE queue == Queue(book, side, price)
           rest == RemoveAt(queue, place)
           after == SetQueue(book, side, price, rest)
<1>1. queue \in Seq(Order) /\ DOMAIN queue = 1..Len(queue) /\ Len(queue) \in Nat
  BY QueueType, LenProperties
<1>2. /\ rest \in Seq(Order) /\ Len(rest) = Len(queue) - 1
      /\ \A k \in 1..(Len(queue) - 1) : rest[k] = IF k < place THEN queue[k] ELSE queue[k + 1]
  BY <1>1, RemoveAtProperties
<1>3. DOMAIN rest = 1..(Len(queue) - 1)
  BY <1>2, LenProperties
<1> HIDE DEF rest
<1>4. \A s \in Side : \A p \in DOMAIN book[s] : book[s][p] # <<>>
  BY DEF Agree
<1>5. \A s \in Side : \A p \in Price :
        Queue(after, s, p) = IF s = side /\ p = price THEN rest ELSE Queue(book, s, p)
  BY <1>2, <1>4, SetQueueLookup
<1> HIDE DEF after, queue
<1>6. \A i, j \in DOMAIN rest :
        i <= j => \E k, l \in DOMAIN queue :
                    k <= l /\ queue[k].id = rest[i].id /\ queue[l].id = rest[j].id
  <2> TAKE i, j \in DOMAIN rest
  <2> HAVE i <= j
  <2> DEFINE k == IF i < place THEN i ELSE i + 1
             l == IF j < place THEN j ELSE j + 1
  <2>0. place \in 1..Len(queue)
    BY <1>1 DEF queue
  <2>1. k \in DOMAIN queue /\ l \in DOMAIN queue /\ k <= l
    BY <1>1, <1>3, <2>0
  <2>2. rest[i] = queue[k] /\ rest[j] = queue[l]
    BY <1>2, <1>3
  <2> HIDE DEF k, l
  <2> QED
    BY <2>1, <2>2
<1>7. Thinned(after, book)
  <2> SUFFICES ASSUME NEW s \in Side, NEW p \in Price,
                      NEW i \in DOMAIN Queue(after, s, p),
                      NEW j \in DOMAIN Queue(after, s, p), i <= j
               PROVE  \E k, l \in DOMAIN Queue(book, s, p) :
                        /\ k <= l
                        /\ Queue(book, s, p)[k].id = Queue(after, s, p)[i].id
                        /\ Queue(book, s, p)[l].id = Queue(after, s, p)[j].id
    BY DEF Thinned
  <2>1. CASE s = side /\ p = price
    <3>1. Queue(after, s, p) = rest /\ Queue(book, s, p) = queue
      BY <1>5, <2>1 DEF queue
    <3> QED
      BY <1>6, <3>1
  <2>2. CASE ~(s = side /\ p = price)
    <3>1. Queue(after, s, p) = Queue(book, s, p)
      BY <1>5, <2>2
    <3> QED
      BY <3>1
  <2> QED
    BY <2>1, <2>2
<1> QED
  BY <1>7 DEF after, rest, queue

LEMMA ThinReduce ==
  ASSUME NEW book, IsLevels(book), NEW index, Agree(book, index),
         NEW side \in Side, NEW price \in Price,
         NEW place \in DOMAIN Queue(book, side, price), NEW left \in Nat
  PROVE  Thinned(SetQueue(book, side, price,
                          [Queue(book, side, price) EXCEPT ![place].remaining = left]), book)
<1> DEFINE queue == Queue(book, side, price)
           rest == [queue EXCEPT ![place].remaining = left]
           after == SetQueue(book, side, price, rest)
<1>1. queue \in Seq(Order) /\ DOMAIN queue = 1..Len(queue) /\ Len(queue) \in Nat
  BY QueueType, LenProperties
<1>2. \A k \in DOMAIN queue : queue[k] \in Order
  BY <1>1, ElementOfSeq
<1>3. [queue[place] EXCEPT !.remaining = left] \in Order
  BY <1>2 DEF Order
<1>4. rest \in Seq(Order) /\ DOMAIN rest = DOMAIN queue
  BY <1>1, <1>3, ExceptSeq
<1>5. \A k \in DOMAIN queue : rest[k].id = queue[k].id
  <2> TAKE k \in DOMAIN queue
  <2>1. CASE k = place
    <3>1. rest[k] = [queue[place] EXCEPT !.remaining = left]
      BY <2>1
    <3> QED
      BY <1>2, <2>1, <3>1 DEF Order
  <2>2. CASE k # place
    BY <2>2
  <2> QED
    BY <2>1, <2>2
<1> HIDE DEF rest
<1>6. \A s \in Side : \A p \in DOMAIN book[s] : book[s][p] # <<>>
  BY DEF Agree
<1>7. \A s \in Side : \A p \in Price :
        Queue(after, s, p) = IF s = side /\ p = price THEN rest ELSE Queue(book, s, p)
  BY <1>4, <1>6, SetQueueLookup
<1> HIDE DEF after, queue
<1>8. Thinned(after, book)
  <2> SUFFICES ASSUME NEW s \in Side, NEW p \in Price,
                      NEW i \in DOMAIN Queue(after, s, p),
                      NEW j \in DOMAIN Queue(after, s, p), i <= j
               PROVE  \E k, l \in DOMAIN Queue(book, s, p) :
                        /\ k <= l
                        /\ Queue(book, s, p)[k].id = Queue(after, s, p)[i].id
                        /\ Queue(book, s, p)[l].id = Queue(after, s, p)[j].id
    BY DEF Thinned
  <2>1. CASE s = side /\ p = price
    <3>1. Queue(after, s, p) = rest /\ Queue(book, s, p) = queue
      BY <1>7, <2>1 DEF queue
    <3> QED
      BY <1>4, <1>5, <3>1
  <2>2. CASE ~(s = side /\ p = price)
    <3>1. Queue(after, s, p) = Queue(book, s, p)
      BY <1>7, <2>2
    <3> QED
      BY <3>1
  <2> QED
    BY <2>1, <2>2
<1> QED
  BY <1>8 DEF after, rest, queue

LEMMA FillBestThins ==
  ASSUME BaseInv, FillBest
  PROVE  Thinned(levels', levels)
<1>1. TypeInv /\ pc = "match" /\ CanTrade /\ IsLevels(levels) /\ Agree(levels, orderIndex)
  BY BaseImplies DEF BaseFacts, FillBest
<1>2. /\ MakerSide \in Side /\ BestPrice \in DOMAIN levels[MakerSide] /\ BestPrice \in Price
      /\ BestPlace \in DOMAIN levels[MakerSide][BestPrice] /\ BestMaker \in Order
      /\ NextAmount \in Nat /\ NextAmount <= BestMaker.remaining
  BY <1>1, NextTradeType
<1> DEFINE queue == Queue(levels, MakerSide, BestPrice)
           left == BestMaker.remaining - NextAmount
<1>3. queue = levels[MakerSide][BestPrice] /\ queue[BestPlace] = BestMaker
  BY <1>2 DEF Queue, BestMaker
<1>4. left \in Nat
  BY <1>2 DEF Order
<1>5. levels' = SetQueue(levels, MakerSide, BestPrice,
                         IF left = 0 THEN RemoveAt(queue, BestPlace)
                                     ELSE [queue EXCEPT ![BestPlace].remaining = left])
  BY <1>3 DEF FillBest, Deplete, BestMaker
<1> HIDE DEF left
<1> QED
  BY <1>1, <1>2, <1>3, <1>4, <1>5, ThinRemove, ThinReduce

LEMMA CancelThins ==
  ASSUME BaseInv, NEW id \in ActiveIds, CancelOrder(id)
  PROVE  Thinned(levels', levels)
<1>1. IsLevels(levels) /\ Agree(levels, orderIndex) /\ IsMap(orderIndex, Nat, Location)
  BY BaseImplies DEF BaseFacts
<1>2. CASE id \in DOMAIN orderIndex
  <2> DEFINE side == orderIndex[id].side
             price == orderIndex[id].price
             queue == Queue(levels, side, price)
             place == PositionOf(queue, id)
  <2>1. side \in Side /\ price \in Price
    BY <1>1, <1>2 DEF IsMap, Location
  <2>2. queue \in Seq(Order) /\ DOMAIN queue = 1..Len(queue)
    BY <1>1, <2>1, QueueType, LenProperties
  <2>3. levels' = RemoveFromLevel(levels, side, price, id)
    BY <1>2 DEF CancelOrder
  <2> HIDE DEF side, price, queue
  <2>4. CASE place = 0
    <3>1. levels' = levels
      BY <2>3, <2>4 DEF RemoveFromLevel, queue
    <3> QED
      BY <1>1, <3>1, ThinSame
  <2>5. CASE place # 0
    <3>1. place \in DOMAIN queue
      BY <2>2, <2>5, PositionOfFound
    <3>2. levels' = SetQueue(levels, side, price, RemoveAt(queue, place))
      BY <2>3, <2>5 DEF RemoveFromLevel, queue
    <3> HIDE DEF place
    <3> QED
      BY <1>1, <2>1, <3>1, <3>2, ThinRemove DEF queue
  <2> QED
    BY <2>4, <2>5
<1>3. CASE id \notin DOMAIN orderIndex
  <2>1. levels' = levels
    BY <1>3 DEF CancelOrder
  <2> QED
    BY <1>1, <2>1, ThinSame
<1> QED
  BY <1>2, <1>3

\* Steps that say nothing of an order.
LEMMA PriorityStill ==
  ASSUME BaseInv, BaseInv', PriorityOK, UNCHANGED <<levels, history, submitted, sequence>>,
         \A id \in DOMAIN stopOrders' : id \in DOMAIN stopOrders,
         TakerDue'
  PROVE  PriorityOK'
<1>1. IsLevels(levels) /\ sequence \in Nat /\ IsMap(history, Nat, Seq(HistoryEntry))
  BY BaseImplies DEF BaseFacts
<1>2. Thinned(levels', levels)
  BY <1>1, ThinSame
<1>3. Extends(history, history)
  <2>1. \A id \in DOMAIN history : Len(history[id]) \in Nat
    BY <1>1, LenProperties DEF IsMap
  <2> QED
    BY <2>1 DEF Extends
<1>4. Grows
  BY <1>1, <1>3 DEF Grows
<1>5. StopsWait'
  BY DEF PriorityOK, StopsWait
<1> QED
  BY <1>2, <1>4, <1>5, PriorityKeeps

\* Steps that say one thing of one order, which is no dormant stop any more.
LEMMA PriorityTells ==
  ASSUME BaseInv, BaseInv', PriorityOK, submitted' = submitted, sequence' >= sequence,
         NEW id, NEW entry, Lengthens(history, history', id, entry),
         Thinned(levels', levels),
         \A x \in DOMAIN stopOrders' : x \in DOMAIN stopOrders /\ x # id,
         pc' = "match" => pc = "match" /\ taker'.id = taker.id /\ taker.id # id
  PROVE  PriorityOK'
<1>1. Grows
  <2>1. BaseFacts'
    BY BaseImplies, PTL
  <2> QED
    BY <2>1, BaseImplies DEF BaseFacts, Grows, Lengthens
<1>2. StopsWait'
  BY DEF PriorityOK, StopsWait, Lengthens
<1>3. TakerDue'
  <2>1. SUFFICES ASSUME pc' = "match" PROVE TakerDue'
    BY DEF TakerDue
  <2>2. /\ taker.id \in DOMAIN submitted /\ taker.id \in DOMAIN history
        /\ Len(history[taker.id]) + 1 = Place(taker.id)
        /\ taker'.id = taker.id /\ taker.id # id
    BY <2>1 DEF PriorityOK, TakerDue
  <2>3. Place(taker.id)' = Place(taker.id)
    BY <2>2 DEF Place
  <2>4. taker.id \in DOMAIN history' /\ history'[taker.id] = history[taker.id]
    BY <2>2 DEF Lengthens
  <2> QED
    BY <2>2, <2>3, <2>4 DEF TakerDue
<1> QED
  BY <1>1, <1>2, <1>3, PriorityKeeps

LEMMA PrioritySubmit ==
  ASSUME BaseInv, BaseInv', PriorityOK, NEW req \in Requests, Submit(req)
  PROVE  PriorityOK'
<1> DEFINE order == Incoming(req)
<1>1. /\ TypeInv /\ IsLevels(levels) /\ sequence \in Nat /\ nextOrderId \in Nat
      /\ IsMap(history, Nat, Seq(HistoryEntry))
      /\ nextOrderId \notin DOMAIN history /\ nextOrderId \notin DOMAIN submitted
      /\ nextOrderId \notin DOMAIN stopOrders
  <2>1. BaseFacts
    BY BaseImplies
  <2> QED
    BY <2>1 DEF BaseFacts, HistoryInv, HistoryOK, LedgerInv, LedgerOK, IndexInv, IndexOK,
                ActiveIds
<1>2. Create(req) /\ levels' = levels
  BY DEF Submit, RejectInvalid, AcceptStop, RejectFok, BeginExecution, bookVars
<1>3. order \in Order /\ order.id = nextOrderId /\ order.kind = req.kind
  BY <1>1, IncomingType
<1> HIDE DEF order
<1>4. /\ \A id \in DOMAIN submitted : id \in DOMAIN submitted' /\ submitted'[id] = submitted[id]
      /\ nextOrderId \in DOMAIN submitted' /\ submitted'[nextOrderId] = order
      /\ sequence' = sequence + 1
  BY <1>1, <1>2 DEF Create, Put, order
<1> DEFINE once(status) == RecordStatus(history, sequence + 1, order, status)
           twice(status) == RecordStatus(once("accepted"), sequence + 1, order, status)
<1>5. ASSUME NEW status \in OrderStatus
      PROVE  /\ Lengthens(history, once(status), nextOrderId,
                          Entry(sequence + 1, status, order.remaining))
             /\ IsMap(once(status), Nat, Seq(HistoryEntry))
  <2>1. sequence + 1 \in Nat
    BY <1>1
  <2> QED
    BY <1>1, <1>3, <2>1, RecordStatusLengthens, RecordStatusType
<1>6. ASSUME NEW status \in OrderStatus
      PROVE  /\ Extends(history, twice(status))
             /\ nextOrderId \in DOMAIN twice(status) /\ Len(twice(status)[nextOrderId]) = 2
             /\ \A x \in DOMAIN history : x \in DOMAIN twice(status)
                                          /\ twice(status)[x] = history[x]
  <2>1. "accepted" \in OrderStatus /\ sequence + 1 \in Nat
    BY <1>1 DEF OrderStatus
  <2>2. PICK first : first = once("accepted")
    OBVIOUS
  <2>3. /\ Lengthens(history, first, nextOrderId,
                     Entry(sequence + 1, "accepted", order.remaining))
        /\ IsMap(first, Nat, Seq(HistoryEntry))
    BY <1>5, <2>1, <2>2
  <2>4. PICK second : second = twice(status)
    OBVIOUS
  <2>5. /\ Lengthens(first, second, nextOrderId, Entry(sequence + 1, status, order.remaining))
        /\ IsMap(second, Nat, Seq(HistoryEntry))
    BY <1>3, <2>1, <2>2, <2>3, <2>4, RecordStatusLengthens, RecordStatusType
  <2>6. Extends(history, second)
    BY <1>1, <2>3, <2>5, ExtendsTwice DEF Lengthens
  <2>7. Len(first[nextOrderId]) = 1 /\ nextOrderId \in DOMAIN first
    BY <1>1, <2>3 DEF Lengthens, Told
  <2>8. Len(second[nextOrderId]) = 2 /\ nextOrderId \in DOMAIN second
    BY <2>5, <2>7 DEF Lengthens, Told
  <2>9. \A x \in DOMAIN history : x \in DOMAIN second /\ second[x] = history[x]
    <3> TAKE x \in DOMAIN history
    <3>1. x # nextOrderId
      BY <1>1
    <3>2. x \in DOMAIN first /\ first[x] = history[x]
      BY <2>3, <3>1 DEF Lengthens
    <3> QED
      BY <2>5, <3>1, <3>2 DEF Lengthens
  <2> HIDE DEF once, twice
  <2> QED
    BY <2>4, <2>6, <2>8, <2>9
<1>7. Thinned(levels', levels)
  BY <1>1, <1>2, ThinSame
<1>8. CASE RejectInvalid(req) \/ RejectFok(req)
  <2>1. stopOrders' = stopOrders /\ pc' # "match"
    BY <1>8 DEF RejectInvalid, RejectFok, bookVars, AcceptAs, Answer
  <2>2. history' = once("rejected") \/ history' = twice("rejected")
    BY <1>8 DEF RejectInvalid, RejectFok, AcceptAs, order
  <2>3. "rejected" \in OrderStatus
    BY DEF OrderStatus
  <2>4. /\ Extends(history, history')
        /\ \A x \in DOMAIN history : x \in DOMAIN history' /\ history'[x] = history[x]
    <3>1. CASE history' = once("rejected")
      <4>1. Lengthens(history, history', nextOrderId,
                      Entry(sequence + 1, "rejected", order.remaining))
        BY <1>5, <2>3, <3>1
      <4> QED
        BY <1>1, <4>1 DEF Lengthens
    <3>2. CASE history' = twice("rejected")
      <4> HIDE DEF twice
      <4> QED
        BY <1>6, <2>3, <3>2
    <3> QED
      BY <2>2, <3>1, <3>2
  <2>5. Grows
    BY <1>1, <1>4, <2>4 DEF Grows
  <2>6. StopsWait' /\ TakerDue'
    BY <1>4, <2>1, <2>4 DEF PriorityOK, StopsWait, TakerDue
  <2> QED
    BY <1>7, <2>5, <2>6, PriorityKeeps
<1>9. CASE AcceptStop(req)
  <2>1. /\ DOMAIN stopOrders' = DOMAIN stopOrders \cup {nextOrderId} /\ pc' # "match"
        /\ history' = twice("resting") /\ IsStopOrder(req.kind)
    BY <1>9 DEF AcceptStop, AcceptAs, Answer, Put, order
  <2>2. "resting" \in OrderStatus
    BY DEF OrderStatus
  <2>3. /\ Extends(history, history')
        /\ nextOrderId \in DOMAIN history' /\ Len(history'[nextOrderId]) = 2
        /\ \A x \in DOMAIN history : x \in DOMAIN history' /\ history'[x] = history[x]
    <3> HIDE DEF twice
    <3> QED
      BY <1>6, <2>1, <2>2
  <2>4. Grows
    BY <1>1, <1>4, <2>3 DEF Grows
  <2>5. StopsWait' /\ TakerDue'
    <3>1. IsStopOrder(submitted'[nextOrderId].kind)
      BY <1>3, <1>4, <2>1
    <3> QED
      BY <1>4, <2>1, <2>3, <3>1 DEF PriorityOK, StopsWait, TakerDue
  <2> QED
    BY <1>7, <2>4, <2>5, PriorityKeeps
<1>10. CASE BeginExecution(req)
  <2>1. /\ stopOrders' = stopOrders /\ taker' = order
        /\ history' = once("accepted") /\ ~IsStopOrder(req.kind)
    BY <1>10 DEF BeginExecution, bookVars, order
  <2>2. Lengthens(history, history', nextOrderId,
                  Entry(sequence + 1, "accepted", order.remaining))
    BY <1>5, <2>1 DEF OrderStatus
  <2>3. /\ \A x \in DOMAIN history : x \in DOMAIN history' /\ history'[x] = history[x]
        /\ nextOrderId \in DOMAIN history' /\ Len(history'[nextOrderId]) = 1
    BY <1>1, <2>2 DEF Lengthens, Told
  <2>4. Grows
    BY <1>1, <1>4, <2>2 DEF Grows, Lengthens
  <2>5. TakerDue'
    <3>1. taker'.id = nextOrderId
      BY <1>3, <2>1
    <3>2. PICK new : new = nextOrderId
      OBVIOUS
    <3>3. Place(new)' = 2
      BY <1>3, <1>4, <2>1, <3>2 DEF Place
    <3>4. taker'.id = new /\ new \in DOMAIN history' /\ Len(history'[new]) = 1
      BY <2>3, <3>1, <3>2
    <3>5. Len(history'[taker'.id]) + 1 = Place(taker.id)'
      <4>1. Place(taker.id)' = Place(new)'
        BY <3>4 DEF Place
      <4> QED
        BY <3>3, <3>4, <4>1
    <3> QED
      BY <1>4, <3>1, <3>2, <3>4, <3>5 DEF TakerDue
  <2>6. StopsWait'
    BY <1>4, <2>1, <2>3 DEF PriorityOK, StopsWait
  <2> QED
    BY <1>7, <2>4, <2>5, <2>6, PriorityKeeps
<1> QED
  BY <1>8, <1>9, <1>10 DEF Submit

LEMMA PriorityRejectPostOnly ==
  ASSUME BaseInv, BaseInv', PriorityOK, RejectPostOnly
  PROVE  PriorityOK'
<1>1. /\ IsLevels(levels) /\ IsMap(history, Nat, Seq(HistoryEntry)) /\ sequence \in Nat
      /\ taker \in Order /\ taker.id \notin DOMAIN stopOrders /\ pc = "match"
  BY BaseImplies DEF BaseFacts, RejectPostOnly, IndexInv, IndexOK, StopsApart
<1>2. /\ levels' = levels /\ stopOrders' = stopOrders /\ submitted' = submitted
      /\ sequence' = sequence /\ pc' # "match"
      /\ history' = RecordStatus(history, sequence, taker, "rejected")
  BY DEF RejectPostOnly, bookVars, ghostVars
<1>3. Lengthens(history, history', taker.id, Entry(sequence, "rejected", taker.remaining))
  BY <1>1, <1>2, RecordStatusLengthens DEF OrderStatus
<1>4. Thinned(levels', levels)
  BY <1>1, <1>2, ThinSame
<1>5. \A x \in DOMAIN stopOrders' : x \in DOMAIN stopOrders /\ x # taker.id
  BY <1>1, <1>2
<1>6. sequence' >= sequence
  BY <1>1, <1>2
<1> QED
  BY <1>2, <1>3, <1>4, <1>5, <1>6, PriorityTells

LEMMA PriorityFillBest ==
  ASSUME BaseInv, BaseInv', PriorityOK, FillBest
  PROVE  PriorityOK'
<1>1. /\ IsMap(history, Nat, Seq(HistoryEntry)) /\ sequence \in Nat
      /\ pc = "match" /\ CanTrade /\ TypeInv /\ IndexInv /\ QuantityInv
  BY BaseImplies DEF BaseFacts, FillBest
<1>2. /\ BestMaker \in Order /\ NextAmount \in Nat /\ NextAmount <= BestMaker.remaining
  BY <1>1, NextTradeType
<1>3. BestMaker.id # taker.id /\ taker'.id = taker.id
  BY <1>1, TradeParties
<1>4. BestMaker.id \notin DOMAIN stopOrders
  <2>1. BestMaker.id \in DOMAIN orderIndex
    <3>1. BestMaker \in Resting(levels)
      BY <1>1, ActiveFillBest
    <3> QED
      BY <3>1, BaseImplies, RestingIndexed DEF BaseFacts
  <2> QED
    BY <1>1, <2>1 DEF IndexInv, IndexOK, StopsApart
<1> DEFINE left == BestMaker.remaining - NextAmount
           entry == Entry(sequence + 1, IF left = 0 THEN "filled" ELSE "partially_filled", left)
<1>5. left \in Nat
  BY <1>2 DEF Order
<1>6. history' = Record(history, BestMaker.id, entry) /\ sequence' = sequence + 1
  BY DEF FillBest, RecordMakerFill
<1> HIDE DEF left
<1>7. entry \in HistoryEntry
  BY <1>1, <1>5 DEF Entry, HistoryEntry, OrderStatus
<1> HIDE DEF entry
<1>8. Lengthens(history, history', BestMaker.id, entry)
  BY <1>1, <1>6, <1>7, RecordLengthens
<1>9. stopOrders' = stopOrders /\ submitted' = submitted
  BY DEF FillBest
<1>10. PICK id : id = BestMaker.id
  OBVIOUS
<1>11. \A x \in DOMAIN stopOrders' : x \in DOMAIN stopOrders /\ x # id
  BY <1>4, <1>9, <1>10
<1>12. sequence' >= sequence
  BY <1>1, <1>6
<1> QED
  BY <1>1, <1>3, <1>8, <1>9, <1>10, <1>11, <1>12, FillBestThins, PriorityTells

\* The order that rests is the last to have joined its level.
LEMMA PrioritySettle ==
  ASSUME BaseInv, BaseInv', PriorityOK, Settle
  PROVE  PriorityOK'
<1>1. /\ IsLevels(levels) /\ Agree(levels, orderIndex)
      /\ IsMap(history, Nat, Seq(HistoryEntry)) /\ sequence \in Nat
      /\ taker \in Order /\ taker.id \notin DOMAIN stopOrders /\ pc = "match" /\ TypeInv
  BY BaseImplies DEF BaseFacts, Settle, IndexInv, IndexOK, StopsApart
<1> DEFINE status == SettledStatus(levels, taker, fills # <<>>)
           id == taker.id
           entry == Entry(sequence, status, taker.remaining)
<1>2. /\ stopOrders' = stopOrders /\ submitted' = submitted /\ sequence' = sequence
      /\ pc' # "match" /\ history' = RecordStatus(history, sequence, taker, status)
  BY DEF Settle, ghostVars
<1>3. status \in OrderStatus
  BY SettledStatusType
<1> HIDE DEF status
<1>4. Lengthens(history, history', id, entry)
  BY <1>1, <1>2, <1>3, RecordStatusLengthens
<1>5. sequence' >= sequence /\ \A x \in DOMAIN stopOrders' : x \in DOMAIN stopOrders /\ x # id
  BY <1>1, <1>2
<1>6. CASE ~Rests(levels, taker)
  <2>1. levels' = levels
    BY <1>6 DEF Settle
  <2>2. Thinned(levels', levels)
    BY <1>1, <2>1, ThinSame
  <2> HIDE DEF id, entry
  <2> QED
    BY <1>2, <1>4, <1>5, <2>2, PriorityTells
<1>7. CASE Rests(levels, taker)
  <2> DEFINE old == Queue(levels, taker.side, taker.price)
  <2>1. levels' = SetQueue(levels, taker.side, taker.price, Append(old, taker))
    BY <1>7 DEF Settle, Push
  <2>2. taker.side \in Side /\ taker.price \in Price
    BY <1>1, <1>7, RestingHasPrice DEF Order
  <2>3. old \in Seq(Order) /\ Len(old) \in Nat /\ DOMAIN old = 1..Len(old)
    BY <1>1, <2>2, QueueType, LenProperties
  <2>4. \A s \in Side : \A p \in Price :
          Queue(levels', s, p) = IF s = taker.side /\ p = taker.price THEN Append(old, taker)
                                 ELSE Queue(levels, s, p)
    <3>1. \A s \in Side : \A p \in DOMAIN levels[s] : levels[s][p] # <<>>
      BY <1>1 DEF Agree
    <3>2. Append(old, taker) \in Seq(Order)
      BY <1>1, <2>3, AppendProperties
    <3>3. PICK grown \in Seq(Order) : grown = Append(old, taker)
      BY <3>2
    <3>4. levels' = SetQueue(levels, taker.side, taker.price, grown)
      BY <2>1, <3>3
    <3> HIDE DEF old
    <3>5. \A s \in Side : \A p \in Price :
            Queue(levels', s, p) = IF s = taker.side /\ p = taker.price THEN grown
                                   ELSE Queue(levels, s, p)
      BY <1>1, <2>2, <3>1, <3>4, SetQueueLookup
    <3> QED
      BY <3>3, <3>5
  <2>5. /\ Len(Append(old, taker)) = Len(old) + 1
        /\ DOMAIN Append(old, taker) = 1..(Len(old) + 1)
        /\ Append(old, taker)[Len(old) + 1] = taker
        /\ \A i \in 1..Len(old) : Append(old, taker)[i] = old[i]
    BY <1>1, <2>3, AppendProperties, LenProperties
  <2>6. Grows
    <3>1. BaseFacts'
      BY BaseImplies, PTL
    <3> QED
      BY <1>2, <1>4, <1>5, <3>1, BaseImplies DEF BaseFacts, Grows, Lengthens
  <2>7. StopsWait' /\ TakerDue'
    BY <1>2, <1>4, <1>5 DEF PriorityOK, StopsWait, TakerDue, Lengthens
  <2> DEFINE Turn(one, other) == InTurn(one, other)'
  <2>8. \A one, other : InTurn(one, other) => Turn(one, other)
    BY <2>6, InTurnStill
  <2>9. PICK new : new = id
    OBVIOUS
  <2>10. Placed(new)' /\ QueuedAt(new)' = sequence'
    <3>1. new \in DOMAIN submitted /\ new \in DOMAIN history /\ Len(history[new]) + 1 = Place(new)
      BY <1>1, <2>9 DEF PriorityOK, TakerDue
    <3>2. /\ new \in DOMAIN history' /\ Len(history'[new]) = Len(history[new]) + 1
          /\ history'[new][Len(history[new]) + 1] = entry
      BY <1>4, <2>9, <3>1 DEF Lengthens, Told
    <3>3. PICK n \in {2, 3} : n = Place(new)
      BY DEF Place
    <3>4. Place(new)' = n
      BY <1>2, <3>3 DEF Place
    <3>5. QueuedAt(new)' = history'[new][n].sequence
      BY <3>4 DEF QueuedAt, Place
    <3>6. entry.sequence = sequence
      BY DEF Entry
    <3>7. QueuedAt(new)' = sequence
      BY <3>1, <3>2, <3>3, <3>5, <3>6
    <3>8. n <= Len(history'[new])
      BY <3>1, <3>2, <3>3
    <3> QED
      BY <1>1, <1>2, <3>1, <3>2, <3>4, <3>7, <3>8 DEF Placed
  <2>11. \A one : Placed(one) => Turn(one, new)
    <3> TAKE one
    <3> HAVE Placed(one)
    <3>1. Placed(one)'
      BY <2>6, PlacedStill
    <3>2. QueuedAt(one)' <= sequence'
      BY <3>1 DEF Placed
    <3> QED
      BY <2>10, <3>1, <3>2 DEF InTurn
  <2>12. Turn(new, new)
    BY <1>1, <1>2, <2>10 DEF InTurn
  <2> HIDE DEF Turn, id, entry
  <2>13. \A s \in Side : \A p \in Price : \A i, j \in DOMAIN Queue(levels', s, p) :
           i <= j => \A one, other : /\ one = Queue(levels', s, p)[i].id
                                     /\ other = Queue(levels', s, p)[j].id
                                     => Turn(one, other)
    <3> TAKE s \in Side
    <3> TAKE p \in Price
    <3> TAKE i, j \in DOMAIN Queue(levels', s, p)
    <3> HAVE i <= j
    <3> TAKE one, other
    <3> HAVE one = Queue(levels', s, p)[i].id /\ other = Queue(levels', s, p)[j].id
    <3>1. CASE ~(s = taker.side /\ p = taker.price)
      <4>1. Queue(levels', s, p) = Queue(levels, s, p)
        BY <2>4, <3>1
      <4> QED
        BY <2>8, <4>1 DEF PriorityOK, QueuesInTurn
    <3>2. CASE s = taker.side /\ p = taker.price
      <4>1. Queue(levels', s, p) = Append(old, taker)
        BY <2>4, <3>2
      <4>2. \A a, b \in DOMAIN old : a <= b => InTurn(old[a].id, old[b].id)
        BY <3>2 DEF PriorityOK, QueuesInTurn
      <4> HIDE DEF old
      <4>3. i \in 1..(Len(old) + 1) /\ j \in 1..(Len(old) + 1)
        BY <2>5, <4>1
      <4>4. CASE j \in 1..Len(old)
        <5>1. i \in 1..Len(old)
          BY <2>3, <4>3, <4>4
        <5> QED
          BY <2>3, <2>5, <2>8, <4>1, <4>2, <4>4, <5>1
      <4>5. CASE j = Len(old) + 1 /\ i \in 1..Len(old)
        <5>1. InTurn(old[i].id, old[i].id)
          BY <2>3, <4>2, <4>5
        <5>2. Placed(old[i].id)
          BY <5>1 DEF InTurn
        <5> QED
          BY <2>5, <2>9, <2>11, <4>1, <4>5, <5>2 DEF id
      <4>6. CASE j = Len(old) + 1 /\ i = Len(old) + 1
        BY <2>5, <2>9, <2>12, <4>1, <4>6 DEF id
      <4> QED
        BY <2>3, <4>3, <4>4, <4>5, <4>6
    <3> QED
      BY <3>1, <3>2
  <2>14. QueuesInTurn'
    <3> SUFFICES ASSUME NEW s \in Side, NEW p \in Price,
                        NEW i \in DOMAIN Queue(levels', s, p),
                        NEW j \in DOMAIN Queue(levels', s, p), i <= j
                 PROVE  InTurn(Queue(levels, s, p)[i].id, Queue(levels, s, p)[j].id)'
      BY DEF QueuesInTurn
    <3>1. PICK one, other : /\ one = Queue(levels', s, p)[i].id
                            /\ other = Queue(levels', s, p)[j].id
      OBVIOUS
    <3>2. Turn(one, other)
      BY <2>13, <3>1
    <3>3. InTurn(one, other)'
      BY <3>2 DEF Turn
    <3> QED
      BY <3>1, <3>3
  <2> QED
    BY <2>7, <2>14 DEF PriorityOK
<1> QED
  BY <1>6, <1>7

LEMMA PriorityActivateStop ==
  ASSUME BaseInv, BaseInv', PriorityOK, ActivateStop
  PROVE  PriorityOK'
<1>1. /\ UNCHANGED <<levels, history, submitted, sequence>>
      /\ NextTriggered \in DOMAIN stopOrders
      /\ stopOrders' = Without(stopOrders, NextTriggered)
      /\ taker' = Activated(stopOrders[NextTriggered])
  BY DEF ActivateStop, ghostVars
<1>2. PICK id : id = NextTriggered
  OBVIOUS
<1>3. stopOrders[id] \in Order /\ stopOrders[id].id = id
  BY <1>1, <1>2, BaseImplies DEF BaseFacts, IndexInv, IndexOK, StopsApart, IsMap
<1>4. taker'.id = id
  BY <1>1, <1>2, <1>3 DEF Activated, Order
<1>5. /\ id \in DOMAIN submitted /\ IsStopOrder(submitted[id].kind)
      /\ id \in DOMAIN history /\ Len(history[id]) = 2
  BY <1>1, <1>2 DEF PriorityOK, StopsWait
<1>6. Place(taker.id)' = 3
  BY <1>1, <1>4, <1>5 DEF Place
<1>7. TakerDue'
  BY <1>1, <1>4, <1>5, <1>6 DEF TakerDue
<1>8. \A x \in DOMAIN stopOrders' : x \in DOMAIN stopOrders
  BY <1>1 DEF Without, Restrict
<1> QED
  BY <1>1, <1>7, <1>8, PriorityStill

LEMMA PriorityCommands ==
  ASSUME BaseInv, BaseInv', PriorityOK,
         \/ \E id \in ActiveIds : Cancel(id)
         \/ \E id \in ActiveIds : Replace(id)
         \/ \E id \in cancelling : MassCancelOne(id)
  PROVE  PriorityOK'
<1>1. /\ IndexInv /\ cancelling \subseteq ActiveIds /\ sequence \in Nat
      /\ IsMap(history, Nat, Seq(HistoryEntry))
  BY BaseImplies DEF BaseFacts, TypeInv, ControlOK
<1>2. PICK id \in ActiveIds : CancelOrder(id)
  BY <1>1 DEF Cancel, Replace, MassCancelOne
<1>3. pc' # "match" /\ submitted' = submitted
  BY DEF Cancel, Replace, MassCancelOne, Answer, ghostVars
<1>4. PICK order \in ActiveOrders :
        /\ order.id = id
        /\ history' = RecordStatus(history, sequence + 1, order, "cancelled")
        /\ ActiveOrders' = ActiveOrders \ {order}
  BY <1>1, <1>2, ActiveCancelOrder
<1>5. ActiveOK
  BY <1>1, ActiveUnique
<1>6. ActiveOK'
  BY BaseImplies, ActiveUnique, PTL DEF BaseFacts
<1>7. Lengthens(history, history', id, Entry(sequence + 1, "cancelled", order.remaining))
  <2>1. order \in Order /\ sequence + 1 \in Nat
    BY <1>1, <1>5 DEF ActiveOK
  <2> QED
    BY <1>1, <1>4, <2>1, RecordStatusLengthens DEF OrderStatus
<1>8. \A x \in DOMAIN stopOrders' : x \in DOMAIN stopOrders /\ x # id
  <2>1. DOMAIN stopOrders' \subseteq DOMAIN stopOrders
    BY <1>1, <1>2, IndexCancelOrder
  <2>2. id \notin ActiveIds'
    BY <1>4, <1>5, <1>6 DEF ActiveOK
  <2> QED
    BY <2>1, <2>2 DEF ActiveIds
<1>9. sequence' >= sequence
  BY <1>1, <1>2 DEF CancelOrder
<1>10. Thinned(levels', levels)
  BY <1>2, CancelThins
<1> QED
  BY <1>3, <1>7, <1>8, <1>9, <1>10, PriorityTells

LEMMA PriorityOthers ==
  ASSUME BaseInv, BaseInv', PriorityOK,
         SkipStop \/ MassCancel \/ MassCancelDone \/ UNCHANGED vars
  PROVE  PriorityOK'
<1>1. /\ UNCHANGED <<levels, history, submitted, sequence, stopOrders, taker>>
      /\ pc' = "match" => pc = "match"
  BY DEF SkipStop, MassCancel, MassCancelDone, Answer, vars, ghostVars, controlVars, bookVars
<1>2. TakerDue'
  BY <1>1 DEF PriorityOK, TakerDue, Place
<1>3. \A id \in DOMAIN stopOrders' : id \in DOMAIN stopOrders
  BY <1>1
<1> QED
  BY <1>1, <1>2, <1>3, PriorityStill

LEMMA PriorityInit == Init => PriorityOK
<1> SUFFICES ASSUME Init PROVE PriorityOK
  OBVIOUS
<1>1. /\ levels = [side \in Side |-> <<>>] /\ stopOrders = <<>> /\ pc = "idle"
  BY DEF Init, EmptyLevels
<1>2. \A side \in Side : \A price \in Price : DOMAIN Queue(levels, side, price) = {}
  BY <1>1 DEF Queue
<1> QED
  BY <1>1, <1>2 DEF PriorityOK, QueuesInTurn, StopsWait, TakerDue

LEMMA PriorityStep == BaseInv /\ BaseInv' /\ PriorityOK /\ [Next]_vars => PriorityOK'
<1> SUFFICES ASSUME BaseInv, BaseInv', PriorityOK, [Next]_vars PROVE PriorityOK'
  OBVIOUS
<1>1. CASE EngineStep
  BY <1>1, PrioritySubmit, PriorityRejectPostOnly, PriorityFillBest, PrioritySettle,
     PriorityActivateStop, PriorityCommands, PriorityOthers DEF EngineStep
<1>2. CASE Command
  BY <1>2, PrioritySubmit, PriorityCommands, PriorityOthers DEF Command
<1>3. CASE UNCHANGED vars
  BY <1>3, PriorityOthers
<1> QED
  BY <1>1, <1>2, <1>3 DEF Next

\* The trade about to be made is the best one for its taker.
LEMMA BestTrade ==
  ASSUME BaseInv, PriorityOK, FillBest,
         NEW order \in RestingOn(levels, MakerSide), order.id # BestMaker.id,
         Matchable(order, taker.account)
  PROVE  \/ BetterFor(taker.side, BestPrice, order.price)
         \/ order.price = BestPrice /\ QueuedAt(BestMaker.id) <= QueuedAt(order.id)
<1>1. /\ TypeInv /\ IsLevels(levels) /\ Agree(levels, orderIndex) /\ taker \in Order
      /\ pc = "match" /\ CanTrade
  BY BaseImplies DEF BaseFacts, FillBest
<1>2. /\ MakerSide \in Side /\ BestPrice \in DOMAIN levels[MakerSide] /\ BestPrice \in Price
      /\ BestPlace \in DOMAIN levels[MakerSide][BestPrice]
  BY <1>1, NextTradeType
<1>3. /\ BestPrice \in MatchablePrices(levels, taker)
      /\ \A q \in MatchablePrices(levels, taker) \ {BestPrice} :
           BetterFor(taker.side, BestPrice, q)
  BY <1>1, BestMatchableExists DEF CanTrade, BestPrice
<1>4. PICK price \in DOMAIN levels[MakerSide] : order \in ToSet(levels[MakerSide][price])
  BY DEF RestingOn
<1>5. price \in Price /\ Queue(levels, MakerSide, price) = levels[MakerSide][price]
  BY <1>1, <1>2, <1>4 DEF IsLevels, IsMap, Queue
<1>6. order.price = price
  <2>1. order \in ToSet(Queue(levels, MakerSide, price))
    BY <1>4, <1>5
  <2>2. /\ order \in Order
        /\ order.side = MakerSide /\ order.price = price
        /\ order.remaining > 0
        /\ order.id \in DOMAIN orderIndex
        /\ orderIndex[order.id] = [side |-> MakerSide, price |-> price]
    BY <1>1, <1>2, <1>5, <2>1, QueuedInPlace
  <2> QED
    BY <2>2
<1> DEFINE queue == levels[MakerSide][price]
<1>7. PICK j \in DOMAIN queue : queue[j] = order
  BY <1>4 DEF ToSet
<1>8. HasMatchable(queue, taker.account)
  BY <1>7 DEF HasMatchable
<1>9. CASE price \notin MatchablePrices(levels, taker)
  <2>1. taker.kind \in {"limit", "post_only"} /\ ~WithinLimit(taker, price)
    BY <1>4, <1>8, <1>9 DEF MatchablePrices, MakerSide
  <2>2. WithinLimit(taker, BestPrice)
    BY <1>3, <2>1 DEF MatchablePrices
  <2>3. taker.price \in Nat /\ price \in Nat /\ BestPrice \in Nat
    BY <1>1, <1>2, <1>5, ConfigAssumption DEF Order, Price
  <2>4. BetterFor(taker.side, BestPrice, price)
    BY <2>1, <2>2, <2>3 DEF WithinLimit, BetterFor
  <2> QED
    BY <1>6, <2>4
<1>10. CASE price \in MatchablePrices(levels, taker) /\ price # BestPrice
  BY <1>3, <1>6, <1>10
<1>11. CASE price = BestPrice
  <2>1. queue \in Seq(Order) /\ DOMAIN queue = 1..Len(queue) /\ Len(queue) \in Nat
    BY <1>1, <1>2, <1>5, QueueType, LenProperties
  <2>2. /\ BestPlace \in DOMAIN queue
        /\ \A k \in 1..(BestPlace - 1) : ~Matchable(queue[k], taker.account)
    BY <1>8, <1>11, <2>1, FirstMatchableExists DEF BestPlace
  <2>3. BestPlace <= j
    <3>1. ~(j \in 1..(BestPlace - 1))
      BY <1>7, <2>2
    <3> QED
      BY <2>1, <2>2, <3>1
  <2>4. queue[BestPlace] = BestMaker
    BY <1>11 DEF BestMaker
  <2> HIDE DEF queue
  <2>5. InTurn(queue[BestPlace].id, queue[j].id)
    BY <1>2, <1>5, <1>7, <2>2, <2>3 DEF PriorityOK, QueuesInTurn, queue
  <2> QED
    BY <1>6, <1>7, <1>11, <2>4, <2>5 DEF InTurn
<1> QED
  BY <1>9, <1>10, <1>11

LEMMA PriorityOfStep ==
  ASSUME BaseInv, PriorityOK, [Next]_vars, tape' # tape
  PROVE  LET trade == Last(tape')
         IN  \A order \in RestingOn(levels, Opposite(trade.aggressor)) :
               order.id # trade.maker /\ Matchable(order, submitted[trade.taker].account)
                 => \/ BetterFor(trade.aggressor, trade.price, order.price)
                    \/ /\ order.price = trade.price
                       /\ QueuedAt(trade.maker) <= QueuedAt(order.id)
<1>1. FillBest
  BY DEF Next, EngineStep, Command, Submit, RejectInvalid, AcceptStop, RejectFok,
         BeginExecution, RejectPostOnly, Settle, ActivateStop, SkipStop, MassCancelOne,
         MassCancelDone, Cancel, Replace, MassCancel, vars, ghostVars
<1>2. /\ TypeInv /\ pc = "match" /\ CanTrade /\ tape \in Seq(Trade)
      /\ tape' = Append(tape, NextTrade) /\ AccountInv
  BY <1>1, BaseImplies DEF BaseFacts, FillBest
<1>3. Last(tape') = NextTrade
  <2>1. NextTrade \in Trade
    BY <1>2, NextTradeType
  <2>2. Len(tape') = Len(tape) + 1 /\ tape'[Len(tape) + 1] = NextTrade
    BY <1>2, <2>1, AppendProperties
  <2> QED
    BY <2>2 DEF Last
<1>4. submitted[taker.id].account = taker.account
  BY <1>2 DEF AccountInv, AccountsOK, Known
<1>5. /\ NextTrade.aggressor = taker.side /\ NextTrade.maker = BestMaker.id
      /\ NextTrade.taker = taker.id /\ NextTrade.price = BestPrice
  BY DEF NextTrade
<1>6. Opposite(taker.side) = MakerSide
  BY DEF MakerSide
<1> QED
  BY <1>1, <1>3, <1>4, <1>5, <1>6, BestTrade

\* Whoever trades -- a client's order or an activated stop, however often its makers were
\* hit, replaced or hidden from it by self-trade prevention before -- it trades with the
\* best-priced order it may trade with, and among those with the one that has stood
\* there longest (ARCHITECTURE.md:40, matching.rs:8-61, price_level.rs:15-19).
THEOREM BestFirst == Spec => PriceTimePriority
<1>1. BaseInv /\ PriorityOK /\ [Next]_vars =>
        [tape' # tape =>
           LET trade == Last(tape')
           IN  \A order \in RestingOn(levels, Opposite(trade.aggressor)) :
                 order.id # trade.maker /\ Matchable(order, submitted[trade.taker].account)
                   => \/ BetterFor(trade.aggressor, trade.price, order.price)
                      \/ /\ order.price = trade.price
                         /\ QueuedAt(trade.maker) <= QueuedAt(order.id)]_vars
  BY PriorityOfStep
<1> QED
  BY <1>1, BaseInit, BaseStep, PriorityInit, PriorityStep, PTL DEF Spec, PriceTimePriority

(***************************************************************************)
(* The stop orders a trade must activate.                                  *)
(***************************************************************************)

On(stack, id) == \E k \in DOMAIN stack : id \in stack[k]

LEMMA PushPendingHolds ==
  ASSUME NEW stack \in Seq(SUBSET Nat), NEW ids \in SUBSET Nat, NEW id
  PROVE  /\ On(stack, id) => On(PushPending(stack, ids), id)
         /\ id \in ids => On(PushPending(stack, ids), id)
<1>1. CASE ids = {}
  BY <1>1 DEF PushPending
<1>2. CASE ids # {}
  <2>1. PushPending(stack, ids) = <<ids>> \o stack
    BY <1>2 DEF PushPending
  <2>2. <<ids>> \in Seq(SUBSET Nat) /\ Len(<<ids>>) = 1 /\ <<ids>>[1] = ids
    OBVIOUS
  <2>3. /\ <<ids>> \o stack \in Seq(SUBSET Nat)
        /\ Len(<<ids>> \o stack) = 1 + Len(stack)
        /\ \A i \in 1..(1 + Len(stack)) :
             (<<ids>> \o stack)[i] = IF i <= 1 THEN <<ids>>[i] ELSE stack[i - 1]
    BY <2>2, ConcatProperties
  <2>4. PICK more \in Seq(SUBSET Nat) : more = <<ids>> \o stack
    BY <2>3
  <2>5. Len(stack) \in Nat /\ DOMAIN stack = 1..Len(stack) /\ DOMAIN more = 1..Len(more)
    BY <2>4, LenProperties
  <2>6. DOMAIN more = 1..(1 + Len(stack)) /\ 1 \in 1..(1 + Len(stack))
    BY <2>3, <2>4, <2>5
  <2>7. 1 \in DOMAIN more /\ more[1] = ids
    BY <2>2, <2>3, <2>4, <2>6
  <2>8. \A k \in DOMAIN stack : k + 1 \in DOMAIN more /\ more[k + 1] = stack[k]
    <3> TAKE k \in DOMAIN stack
    <3>1. k + 1 \in 1..(1 + Len(stack)) /\ ~(k + 1 <= 1) /\ (k + 1) - 1 = k
      BY <2>5
    <3> QED
      BY <2>3, <2>4, <2>6, <3>1
  <2> QED
    BY <2>1, <2>2, <2>4, <2>7, <2>8 DEF On
<1> QED
  BY <1>1, <1>2

LEMMA PopPendingHolds ==
  ASSUME NEW stack \in Seq(SUBSET Nat), stack # <<>>, NEW id, NEW other, other # id,
         On(stack, other)
  PROVE  On(PopPending(stack, id), other)
<1>1. /\ Head(stack) \in SUBSET Nat /\ Tail(stack) \in Seq(SUBSET Nat)
      /\ Len(Tail(stack)) = Len(stack) - 1
      /\ \A i \in 1..Len(Tail(stack)) : Tail(stack)[i] = stack[i + 1]
  BY HeadTailProperties
<1>2. Head(stack) = stack[1] /\ DOMAIN stack = 1..Len(stack) /\ Len(stack) \in Nat
  BY LenProperties
<1>3. DOMAIN Tail(stack) = 1..(Len(stack) - 1)
  BY <1>1, LenProperties
<1>4. PICK k \in DOMAIN stack : other \in stack[k]
  BY DEF On
<1>5. CASE k = 1
  <2>1. other \in Head(stack) \ {id} /\ Head(stack) \ {id} \in SUBSET Nat
    BY <1>1, <1>2, <1>4, <1>5
  <2> QED
    BY <1>1, <2>1, PushPendingHolds DEF PopPending
<1>6. CASE k # 1
  <2>1. k - 1 \in 1..(Len(stack) - 1) /\ (k - 1) + 1 = k
    BY <1>2, <1>4, <1>6
  <2>2. On(Tail(stack), other)
    BY <1>1, <1>3, <1>4, <2>1 DEF On
  <2>3. Head(stack) \ {id} \in SUBSET Nat
    BY <1>1
  <2> QED
    BY <1>1, <2>2, <2>3, PushPendingHolds DEF PopPending
<1> QED
  BY <1>5, <1>6

\* A dormant stop that the last trade of a taker has crossed is on the call stack, unless
\* that taker is still trading; and no dormant stop has ever traded as a taker.
StopDue ==
  \A id \in DOMAIN stopOrders, i \in DOMAIN tape :
    /\ tape[i].taker # id
    /\ EndsTaker(i) /\ CrossedBy(stopOrders[id], tape[i])
         => On(pending, id) \/ (fills # <<>> /\ i = Len(tape))

TapePast == \A i \in DOMAIN tape : tape[i].sequence <= sequence

\* What the fills of the executing order are to the tape, and when there are any.
FillsFlow ==
  /\ pc # "match" => fills = <<>>
  /\ pc \notin {"match", "trigger"} => pending = <<>>
  /\ pc = "match" /\ fills = <<>> => \A i \in DOMAIN tape : tape[i].taker # taker.id
  /\ pc = "match" /\ fills # <<>> =>
       tape # <<>> /\ Last(fills) = Last(tape) /\ Last(tape).taker = taker.id
  /\ pc = "match" /\ taker.kind = "post_only" => fills = <<>> /\ pending = <<>>

StopsOK == StopDue /\ TapePast /\ FillsFlow

\* Steps that make no trade and lose no stop of the call stack.
LEMMA StopsKeep ==
  ASSUME BaseInv, BaseInv', StopsOK, tape' = tape, sequence' >= sequence,
         \A id \in DOMAIN stopOrders' :
           /\ id \in DOMAIN stopOrders /\ stopOrders'[id] = stopOrders[id]
           /\ On(pending, id) => On(pending', id),
         fills # <<>> => fills' = fills,
         FillsFlow'
  PROVE  StopsOK'
<1>1. \A i : EndsTaker(i)' = EndsTaker(i)
  BY DEF EndsTaker
<1>2. StopDue'
  BY <1>1 DEF StopsOK, StopDue
<1>3. TapePast'
  <2>1. sequence \in Nat /\ tape \in Seq(Trade)
    BY BaseImplies DEF BaseFacts
  <2>2. sequence' \in Nat
    <3>1. BaseFacts'
      BY BaseImplies, PTL
    <3> QED
      BY <3>1 DEF BaseFacts
  <2>3. \A i \in DOMAIN tape : tape[i].sequence \in Nat
    <3> TAKE i \in DOMAIN tape
    <3>1. tape[i] \in Trade
      BY <2>1, LenProperties, ElementOfSeq
    <3> QED
      BY <3>1 DEF Trade
  <2> QED
    BY <2>1, <2>2, <2>3 DEF StopsOK, TapePast
<1> QED
  BY <1>2, <1>3 DEF StopsOK

\* A post-only order that crosses nothing trades with nobody.
LEMMA PostOnlyNeverTrades ==
  ASSUME BaseInv, pc = "match", ~PostOnlyCrosses, CanTrade
  PROVE  taker.kind # "post_only"
<1> SUFFICES ASSUME taker.kind = "post_only" PROVE FALSE
  OBVIOUS
<1>1. ~WouldCross(levels, taker)
  BY DEF PostOnlyCrosses
<1>2. MatchablePrices(levels, taker) = {}
  BY <1>1 DEF WouldCross, MatchablePrices
<1> QED
  BY <1>2 DEF CanTrade

LEMMA StopsSubmit ==
  ASSUME BaseInv, BaseInv', StopsOK, NEW req \in Requests, Submit(req)
  PROVE  StopsOK'
<1>1. /\ TypeInv /\ sequence \in Nat /\ nextOrderId \in Nat /\ tape \in Seq(Trade)
      /\ nextOrderId \notin DOMAIN submitted /\ nextOrderId \notin DOMAIN stopOrders
      /\ \A i \in DOMAIN tape : tape[i].taker # nextOrderId
  <2>1. BaseFacts
    BY BaseImplies
  <2>2. nextOrderId \notin DOMAIN submitted
    BY <2>1 DEF BaseFacts, LedgerInv, LedgerOK
  <2>3. \A i \in DOMAIN tape : tape[i].taker \in DOMAIN submitted
    BY <2>1 DEF BaseFacts, AccountInv, AccountsOK, ApartTrade
  <2> QED
    BY <2>1, <2>2, <2>3 DEF BaseFacts, IndexInv, IndexOK, ActiveIds
<1>2. /\ pc # "match" /\ pc # "trigger" /\ fills = <<>> /\ pending = <<>>
      /\ Create(req) /\ tape' = tape /\ pending' = pending /\ fills' = <<>>
  BY DEF StopsOK, FillsFlow, Submit, RejectInvalid, AcceptStop, RejectFok, BeginExecution,
         AcceptAs, Answer
<1>3. sequence' = sequence + 1 /\ sequence' >= sequence
  BY <1>1, <1>2 DEF Create
<1>4. FillsFlow'
  <2>1. pc' # "match" \/ (pc' = "match" /\ taker'.id = nextOrderId)
    BY <1>1, IncomingType
       DEF Submit, RejectInvalid, AcceptStop, RejectFok, BeginExecution, AcceptAs, Answer
  <2> QED
    BY <1>1, <1>2, <2>1 DEF FillsFlow
<1>5. CASE ~AcceptStop(req)
  <2>1. stopOrders' = stopOrders
    BY <1>5 DEF Submit, RejectInvalid, RejectFok, BeginExecution, bookVars
  <2> QED
    BY <1>2, <1>3, <1>4, <2>1, StopsKeep
<1>6. CASE AcceptStop(req)
  <2>1. PICK new : new = nextOrderId
    OBVIOUS
  <2>2. /\ DOMAIN stopOrders' = DOMAIN stopOrders \cup {new}
        /\ \A id \in DOMAIN stopOrders : stopOrders'[id] = stopOrders[id]
        /\ stopOrders'[new] = Incoming(req)
    BY <1>1, <1>6, <2>1 DEF AcceptStop, Put
  <2>3. Incoming(req).createdAt = sequence + 1
    BY DEF Incoming, MakeOrder
  <2>4. \A i \in DOMAIN tape : ~(tape[i].sequence > sequence + 1)
    <3> TAKE i \in DOMAIN tape
    <3>1. tape[i] \in Trade
      BY <1>1, LenProperties, ElementOfSeq
    <3>2. tape[i].sequence \in Nat /\ tape[i].sequence <= sequence
      BY <3>1 DEF Trade, StopsOK, TapePast
    <3> QED
      BY <1>1, <3>2
  <2>5. \A i : EndsTaker(i)' = EndsTaker(i)
    BY <1>2 DEF EndsTaker
  <2>6. StopDue'
    <3> SUFFICES ASSUME NEW id \in DOMAIN stopOrders', NEW i \in DOMAIN tape'
                 PROVE  /\ tape'[i].taker # id
                        /\ EndsTaker(i)' /\ CrossedBy(stopOrders'[id], tape'[i])
                             => On(pending', id) \/ (fills' # <<>> /\ i = Len(tape'))
      BY DEF StopDue, CrossedBy
    <3>1. CASE id = new
      BY <1>1, <1>2, <2>1, <2>2, <2>3, <2>4, <3>1 DEF CrossedBy
    <3>2. CASE id # new
      BY <1>2, <2>2, <2>5, <3>2 DEF StopsOK, StopDue
    <3> QED
      BY <3>1, <3>2
  <2>7. TapePast'
    <3> SUFFICES ASSUME NEW i \in DOMAIN tape PROVE tape[i].sequence <= sequence + 1
      BY <1>2, <1>3 DEF TapePast
    <3>1. tape[i] \in Trade
      BY <1>1, LenProperties, ElementOfSeq
    <3>2. tape[i].sequence \in Nat /\ tape[i].sequence <= sequence
      BY <3>1 DEF Trade, StopsOK, TapePast
    <3> QED
      BY <1>1, <3>2
  <2> QED
    BY <1>4, <2>6, <2>7 DEF StopsOK
<1> QED
  BY <1>5, <1>6

\* The trade just made is the last of its taker, and the one before it no longer is.
LEMMA StopsFillBest ==
  ASSUME BaseInv, BaseInv', StopsOK, FillBest
  PROVE  StopsOK'
<1>1. /\ TypeInv /\ sequence \in Nat /\ tape \in Seq(Trade) /\ fills \in Seq(Trade)
      /\ QuantityInv /\ taker \in Order /\ pc = "match" /\ ~PostOnlyCrosses /\ CanTrade
      /\ taker.id \notin DOMAIN stopOrders
  BY BaseImplies DEF BaseFacts, FillBest, IndexInv, IndexOK, StopsApart
<1>2. NextTrade \in Trade
  BY <1>1, NextTradeType
<1>3. PICK trade \in Trade : trade = NextTrade
  BY <1>2
<1>4. trade.taker = taker.id /\ trade.sequence = sequence + 1
  BY <1>3 DEF NextTrade
<1>5. /\ tape' = Append(tape, trade) /\ fills' = Append(fills, trade)
      /\ stopOrders' = stopOrders /\ pending' = pending /\ sequence' = sequence + 1
      /\ pc' = "match"
  BY <1>1, <1>3 DEF FillBest
<1>6. taker'.id = taker.id
  BY <1>1, TradeParties
<1>7. taker'.kind = taker.kind
  BY <1>1 DEF FillBest, ReduceTaker, Order
<1> DEFINE n == Len(tape)
<1>8. /\ n \in Nat /\ DOMAIN tape = 1..n /\ Len(tape') = n + 1 /\ DOMAIN tape' = 1..(n + 1)
      /\ tape'[n + 1] = trade /\ \A i \in 1..n : tape'[i] = tape[i]
  BY <1>1, <1>5, LenProperties, AppendProperties
<1>9. Last(tape') = trade /\ tape' # <<>>
  BY <1>8 DEF Last
<1>10. Last(fills') = trade /\ fills' # <<>>
  <2>1. /\ Len(fills') = Len(fills) + 1 /\ fills'[Len(fills) + 1] = trade
        /\ Len(fills) \in Nat
    BY <1>1, <1>5, LenProperties, AppendProperties
  <2> QED
    BY <2>1 DEF Last
<1>11. FillsFlow'
  <2>1. taker.kind # "post_only"
    BY <1>1, PostOnlyNeverTrades
  <2> QED
    BY <1>4, <1>5, <1>6, <1>7, <1>9, <1>10, <2>1 DEF FillsFlow
<1>12. TapePast'
  <2> SUFFICES ASSUME NEW i \in 1..(n + 1) PROVE tape'[i].sequence <= sequence + 1
    BY <1>5, <1>8 DEF TapePast
  <2>1. CASE i = n + 1
    BY <1>1, <1>4, <1>8, <2>1
  <2>2. CASE i \in 1..n
    <3>1. tape[i] \in Trade
      BY <1>1, <1>8, <2>2, ElementOfSeq
    <3>2. tape[i].sequence \in Nat /\ tape[i].sequence <= sequence
      BY <1>8, <2>2, <3>1 DEF Trade, StopsOK, TapePast
    <3> QED
      BY <1>1, <1>8, <2>2, <3>2
  <2> QED
    BY <1>8, <2>1, <2>2
<1>13. StopDue'
  <2> SUFFICES ASSUME NEW id \in DOMAIN stopOrders, NEW i \in 1..(n + 1)
               PROVE  /\ tape'[i].taker # id
                      /\ EndsTaker(i)' /\ CrossedBy(stopOrders[id], tape'[i])
                           => On(pending, id) \/ i = n + 1
    BY <1>5, <1>8, <1>10 DEF StopDue, CrossedBy
  <2>1. CASE i = n + 1
    BY <1>1, <1>4, <1>8, <2>1
  <2>2. CASE i \in 1..n
    <3>1. tape'[i] = tape[i] /\ tape[i].taker # id
      BY <1>8, <2>2 DEF StopsOK, StopDue
    <3>2. EndsTaker(i)' <=> tape'[i + 1].taker # tape'[i].taker
      <4>1. i # Len(tape')
        BY <1>8, <2>2
      <4> QED
        BY <4>1 DEF EndsTaker
    <3>3. CASE i < n
      <4>1. i + 1 \in 1..n
        BY <1>8, <2>2, <3>3
      <4>2. EndsTaker(i)' => EndsTaker(i)
        BY <1>8, <3>1, <3>2, <4>1 DEF EndsTaker
      <4> QED
        BY <1>8, <2>2, <3>1, <3>3, <4>2 DEF StopsOK, StopDue
    <3>4. CASE i = n
      <4>1. tape'[i + 1].taker = taker.id
        BY <1>4, <1>8, <3>4
      <4>2. CASE fills = <<>>
        <5>1. EndsTaker(i)
          BY <3>4 DEF EndsTaker
        <5> QED
          BY <1>8, <2>2, <3>1, <4>2, <5>1 DEF StopsOK, StopDue
      <4>3. CASE fills # <<>>
        <5>1. tape[n].taker = taker.id
          BY <1>1, <4>3 DEF StopsOK, FillsFlow, Last
        <5>2. ~EndsTaker(i)'
          BY <3>1, <3>2, <3>4, <4>1, <5>1
        <5> QED
          BY <3>1, <5>2
      <4> QED
        BY <4>2, <4>3
    <3> QED
      BY <1>8, <2>2, <3>3, <3>4
  <2> QED
    BY <1>8, <2>1, <2>2
<1> QED
  BY <1>11, <1>12, <1>13 DEF StopsOK

LEMMA StopsSettle ==
  ASSUME BaseInv, BaseInv', StopsOK, Settle
  PROVE  StopsOK'
<1>1. /\ pc = "match" /\ pending \in Seq(SUBSET Nat) /\ tape \in Seq(Trade)
      /\ IsMap(stopOrders, Nat, Order)
      /\ tape' = tape /\ stopOrders' = stopOrders /\ sequence' = sequence /\ fills' = <<>>
      /\ pending' = PushPending(pending, StopsTriggered)
      /\ pc' = IF pending' = <<>> THEN "idle" ELSE "trigger"
  BY BaseImplies DEF BaseFacts, Settle, ghostVars
<1>2. StopsTriggered \in SUBSET Nat
  BY <1>1 DEF StopsTriggered, TriggeredStops, IsMap
<1>3. \A id : On(pending, id) => On(pending', id)
  BY <1>1, <1>2, PushPendingHolds
<1>4. FillsFlow'
  <2>1. pc' # "match" /\ (pc' # "trigger" => pending' = <<>>)
    BY <1>1
  <2> QED
    BY <1>1, <2>1 DEF FillsFlow
<1>5. CASE fills = <<>>
  <2>1. sequence' >= sequence
    BY <1>1, BaseImplies DEF BaseFacts
  <2> QED
    BY <1>1, <1>3, <1>4, <1>5, <2>1, StopsKeep
<1>6. CASE fills # <<>>
  <2>1. tape # <<>> /\ Last(fills) = tape[Len(tape)]
    BY <1>1, <1>6 DEF StopsOK, FillsFlow, Last
  <2>2. \A i : EndsTaker(i)' = EndsTaker(i)
    BY <1>1 DEF EndsTaker
  <2>3. StopDue'
    <3> SUFFICES ASSUME NEW id \in DOMAIN stopOrders, NEW i \in DOMAIN tape
                 PROVE  /\ tape[i].taker # id
                        /\ EndsTaker(i) /\ CrossedBy(stopOrders[id], tape[i])
                             => On(pending', id)
      BY <1>1, <2>2 DEF StopDue, CrossedBy
    <3>1. /\ tape[i].taker # id
          /\ EndsTaker(i) /\ CrossedBy(stopOrders[id], tape[i])
               => On(pending, id) \/ i = Len(tape)
      BY DEF StopsOK, StopDue
    <3>2. ASSUME i = Len(tape), CrossedBy(stopOrders[id], tape[i])
          PROVE  On(pending', id)
      <4>1. id \in StopsTriggered
        BY <1>6, <2>1, <3>2 DEF StopsTriggered, TriggeredStops, CrossedBy
      <4> QED
        BY <1>1, <1>2, <4>1, PushPendingHolds
    <3> QED
      BY <1>3, <3>1, <3>2
  <2>4. TapePast'
    BY <1>1 DEF StopsOK, TapePast
  <2> QED
    BY <1>4, <2>3, <2>4 DEF StopsOK
<1> QED
  BY <1>5, <1>6

LEMMA StopsRejectPostOnly ==
  ASSUME BaseInv, BaseInv', StopsOK, RejectPostOnly
  PROVE  StopsOK'
<1>1. /\ pc = "match" /\ taker.kind = "post_only" /\ pc' = "idle"
      /\ UNCHANGED <<tape, sequence, stopOrders, pending, fills>>
  BY DEF RejectPostOnly, PostOnlyCrosses, bookVars, ghostVars
<1>2. FillsFlow'
  BY <1>1 DEF StopsOK, FillsFlow
<1>3. sequence' >= sequence
  BY <1>1, BaseImplies DEF BaseFacts
<1> QED
  BY <1>1, <1>2, <1>3, StopsKeep

\* An activated stop leaves the stack as it leaves stop_orders.
LEMMA StopsActivateStop ==
  ASSUME BaseInv, BaseInv', StopsOK, ActivateStop
  PROVE  StopsOK'
<1>1. /\ pc = "trigger" /\ pc' = "match" /\ UNCHANGED <<tape, sequence, fills>>
      /\ NextTriggered \in DOMAIN stopOrders
      /\ stopOrders' = Without(stopOrders, NextTriggered)
      /\ taker' = Activated(stopOrders[NextTriggered])
      /\ pending' = PopPending(pending, NextTriggered)
  BY DEF ActivateStop, ghostVars
<1>2. pending \in Seq(SUBSET Nat) /\ pending # <<>> /\ sequence \in Nat
  BY <1>1, BaseImplies DEF BaseFacts, TypeInv, ControlOK
<1>3. PICK next : next = NextTriggered
  OBVIOUS
<1>4. stopOrders[next] \in Order /\ stopOrders[next].id = next
      /\ IsStopOrder(stopOrders[next].kind)
  BY <1>1, <1>3, BaseImplies DEF BaseFacts, IndexInv, IndexOK, StopsApart, IsMap
<1>5. taker'.id = next /\ taker'.kind # "post_only"
  BY <1>1, <1>3, <1>4 DEF Activated, Order, IsStopOrder
<1>6. fills = <<>> /\ \A i \in DOMAIN tape : tape[i].taker # next
  BY <1>1, <1>3 DEF StopsOK, FillsFlow, StopDue
<1>7. FillsFlow'
  BY <1>1, <1>5, <1>6 DEF FillsFlow
<1>8. \A id \in DOMAIN stopOrders' :
        id \in DOMAIN stopOrders /\ id # next /\ stopOrders'[id] = stopOrders[id]
  BY <1>1, <1>3 DEF Without, Restrict
<1>9. \A id \in DOMAIN stopOrders' : On(pending, id) => On(pending', id)
  BY <1>1, <1>2, <1>3, <1>8, PopPendingHolds
<1>10. sequence' >= sequence
  BY <1>1, <1>2
<1> QED
  BY <1>1, <1>7, <1>8, <1>9, <1>10, StopsKeep

LEMMA StopsSkipStop ==
  ASSUME BaseInv, BaseInv', StopsOK, SkipStop
  PROVE  StopsOK'
<1>1. /\ pc = "trigger" /\ UNCHANGED <<tape, sequence, fills, stopOrders>>
      /\ NextTriggered \notin DOMAIN stopOrders
      /\ pending' = PopPending(pending, NextTriggered)
      /\ pc' = IF pending' = <<>> THEN "idle" ELSE "trigger"
  BY DEF SkipStop, bookVars, ghostVars
<1>2. pending \in Seq(SUBSET Nat) /\ pending # <<>> /\ sequence \in Nat
  BY <1>1, BaseImplies DEF BaseFacts, TypeInv, ControlOK
<1>3. PICK next : next = NextTriggered
  OBVIOUS
<1>4. FillsFlow'
  BY <1>1 DEF StopsOK, FillsFlow
<1>5. \A id \in DOMAIN stopOrders : On(pending, id) => On(pending', id)
  BY <1>1, <1>2, <1>3, PopPendingHolds
<1>6. sequence' >= sequence
  BY <1>1, <1>2
<1> QED
  BY <1>1, <1>4, <1>5, <1>6, StopsKeep

LEMMA StopsCommands ==
  ASSUME BaseInv, BaseInv', StopsOK,
         \/ \E id \in ActiveIds : Cancel(id)
         \/ \E id \in ActiveIds : Replace(id)
         \/ \E id \in cancelling : MassCancelOne(id)
  PROVE  StopsOK'
<1>1. IndexInv /\ cancelling \subseteq ActiveIds /\ sequence \in Nat
  BY BaseImplies DEF BaseFacts, TypeInv, ControlOK
<1>2. PICK id \in ActiveIds : CancelOrder(id)
  BY <1>1 DEF Cancel, Replace, MassCancelOne
<1>3. /\ pc \notin {"match", "trigger"} /\ pc' \notin {"match", "trigger"}
      /\ UNCHANGED <<tape, fills, pending>>
  BY DEF Cancel, Replace, MassCancelOne, Answer, ghostVars
<1>4. FillsFlow'
  BY <1>3 DEF StopsOK, FillsFlow
<1>5. \A other \in DOMAIN stopOrders' :
        other \in DOMAIN stopOrders /\ stopOrders'[other] = stopOrders[other]
  BY <1>1, <1>2, IndexCancelOrder
<1>6. sequence' >= sequence
  BY <1>1, <1>2 DEF CancelOrder
<1> QED
  BY <1>3, <1>4, <1>5, <1>6, StopsKeep

LEMMA StopsOthers ==
  ASSUME BaseInv, BaseInv', StopsOK, MassCancel \/ MassCancelDone \/ UNCHANGED vars
  PROVE  StopsOK'
<1>1. /\ UNCHANGED <<tape, sequence, fills, stopOrders, pending, taker>>
      /\ pc' = pc \/ (pc \notin {"match", "trigger"} /\ pc' \notin {"match", "trigger"})
  BY DEF MassCancel, MassCancelDone, Answer, vars, ghostVars, controlVars, bookVars
<1>2. FillsFlow'
  BY <1>1 DEF StopsOK, FillsFlow
<1>3. sequence' >= sequence
  BY <1>1, BaseImplies DEF BaseFacts
<1> QED
  BY <1>1, <1>2, <1>3, StopsKeep

LEMMA StopsInit == Init => StopsOK
BY DEF Init, StopsOK, StopDue, TapePast, FillsFlow

LEMMA StopsStep == BaseInv /\ BaseInv' /\ StopsOK /\ [Next]_vars => StopsOK'
<1> SUFFICES ASSUME BaseInv, BaseInv', StopsOK, [Next]_vars PROVE StopsOK'
  OBVIOUS
<1>1. CASE EngineStep
  BY <1>1, StopsSubmit, StopsRejectPostOnly, StopsFillBest, StopsSettle,
     StopsActivateStop, StopsSkipStop, StopsCommands, StopsOthers DEF EngineStep
<1>2. CASE Command
  BY <1>2, StopsSubmit, StopsCommands, StopsOthers DEF Command
<1>3. CASE UNCHANGED vars
  BY <1>3, StopsOthers
<1> QED
  BY <1>1, <1>2, <1>3 DEF Next

\* When a command has ended, no stop order is left dormant that the last trade of any
\* order -- a client's, or a stop's that an inner call of trigger_stop_orders activated --
\* has crossed since it was accepted: the recursion over sorted ids loses none of them,
\* however deep the cascade (book.rs:256-259, 473-496).
THEOREM CrossedStopsActivated == Spec => []StopsActivated
<1>1. BaseInv /\ StopsOK => StopsActivated
  BY DEF StopsOK, StopDue, FillsFlow, StopsActivated, On
<1> QED
  BY <1>1, BaseInit, BaseStep, StopsInit, StopsStep, PTL DEF Spec

(***************************************************************************)
(* The quantity of a finite set of orders.  MapThenSumSet recurses over    *)
(* its subsets and takes some order off each time; any other may be taken. *)
(***************************************************************************)

Quantity(orders) == MapThenSumSet(LAMBDA maker : maker.remaining, orders)

Some(orders) == CHOOSE order \in orders : TRUE

Adds(f, orders) ==
  f[orders] = IF orders = {} THEN 0
              ELSE Some(orders).remaining + f[orders \ {Some(orders)}]

SumsUp(orders, f) ==
  f = [s \in SUBSET orders |-> IF s = {} THEN 0
                               ELSE Some(s).remaining + f[s \ {Some(s)}]]

LEMMA QuantitySum ==
  ASSUME NEW orders
  PROVE  Quantity(orders) = (CHOOSE f : SumsUp(orders, f))[orders]
BY DEF Quantity, MapThenSumSet, MapThenFoldSet, SumsUp, Some

LEMMA SumAdds ==
  ASSUME NEW orders, NEW f, SumsUp(orders, f), NEW s \in SUBSET orders
  PROVE  Adds(f, s)
BY DEF SumsUp, Adds

LEMMA OneOff ==
  ASSUME NEW s, IsFiniteSet(s), NEW x \in s
  PROVE  /\ IsFiniteSet(s \ {x}) /\ Cardinality(s) \in Nat /\ Cardinality(s \ {x}) \in Nat
         /\ Cardinality(s \ {x}) = Cardinality(s) - 1
         /\ Some(s) \in s
<1>1. IsFiniteSet(s \ {x}) /\ Cardinality(s \ {x}) = Cardinality(s) - 1
  BY FS_RemoveElement
<1>2. Cardinality(s) \in Nat /\ Cardinality(s \ {x}) \in Nat
  BY <1>1, FS_CardinalityType
<1>3. Some(s) \in s
  BY DEF Some
<1> QED
  BY <1>1, <1>2, <1>3

\* The recursion has a solution.
LEMMA SumExists ==
  ASSUME NEW orders \in SUBSET Order, IsFiniteSet(orders)
  PROVE  \E f \in [SUBSET orders -> Nat] : SumsUp(orders, f)
<1> DEFINE Small(n) == {s \in SUBSET orders : Cardinality(s) <= n}
           Good(n) == \E f \in [Small(n) -> Nat] : \A s \in Small(n) : Adds(f, s)
           bad == {n \in Nat : ~Good(n)}
<1>1. \A s \in SUBSET orders : IsFiniteSet(s) /\ Cardinality(s) \in Nat
                               /\ Cardinality(s) <= Cardinality(orders)
  BY FS_Subset, FS_CardinalityType
<1>2. Cardinality(orders) \in Nat
  BY FS_CardinalityType
<1>3. ASSUME bad = {} PROVE \E f \in [SUBSET orders -> Nat] : SumsUp(orders, f)
  <2>1. Small(Cardinality(orders)) = SUBSET orders
    BY <1>1
  <2>2. Good(Cardinality(orders))
    BY <1>2, <1>3
  <2> HIDE DEF Small
  <2>3. PICK f \in [SUBSET orders -> Nat] : \A s \in SUBSET orders : Adds(f, s)
    BY <2>1, <2>2
  <2>4. SumsUp(orders, f)
    BY <2>3 DEF SumsUp, Adds
  <2> QED
    BY <2>3, <2>4
<1>4. SUFFICES ASSUME bad # {} PROVE FALSE
  BY <1>3
<1>5. PICK n \in bad : \A m \in bad : n <= m
  <2>1. bad \subseteq Nat
    OBVIOUS
  <2> HIDE DEF bad
  <2> QED
    BY <1>4, <2>1, LeastNatural
<1>6. n \in Nat /\ ~Good(n)
  OBVIOUS
<1>7. CASE n = 0
  <2>1. \A s \in Small(n) : s = {}
    <3> TAKE s \in Small(n)
    <3>1. IsFiniteSet(s) /\ Cardinality(s) = 0
      BY <1>1, <1>7
    <3> QED
      BY <3>1, FS_EmptySet
  <2> DEFINE f == [s \in Small(n) |-> 0]
  <2>2. \A s \in Small(n) : Adds(f, s)
    <3> TAKE s \in Small(n)
    <3>1. s = {} /\ f[s] = 0
      BY <2>1
    <3> HIDE DEF f, Small
    <3> QED
      BY <3>1 DEF Adds
  <2>3. f \in [Small(n) -> Nat]
    OBVIOUS
  <2> HIDE DEF f, Small
  <2> QED
    BY <1>6, <2>2, <2>3
<1>8. CASE n # 0
  <2>1. n - 1 \in Nat
    BY <1>6, <1>8
  <2>2. Good(n - 1)
    <3>1. n - 1 \notin bad
      <4> HIDE DEF bad
      <4> QED
        BY <1>5, <1>6, <2>1
    <3> HIDE DEF Good
    <3> QED
      BY <2>1, <3>1
  <2>3. PICK g \in [Small(n - 1) -> Nat] : \A s \in Small(n - 1) : Adds(g, s)
    BY <2>2
  <2> DEFINE f == [s \in Small(n) |-> IF s \in Small(n - 1) THEN g[s]
                                      ELSE Some(s).remaining + g[s \ {Some(s)}]]
  <2>4. \A s \in Small(n) : s # {} =>
          /\ s \ {Some(s)} \in Small(n - 1) /\ s \ {Some(s)} \in Small(n)
          /\ Some(s).remaining \in Nat
    <3> SUFFICES ASSUME NEW s \in Small(n), s # {}
                 PROVE  /\ s \ {Some(s)} \in Small(n - 1) /\ s \ {Some(s)} \in Small(n)
                        /\ Some(s).remaining \in Nat
      OBVIOUS
    <3>1. Some(s) \in s /\ IsFiniteSet(s) /\ s \in SUBSET orders /\ Cardinality(s) <= n
      BY <1>1 DEF Some
    <3>2. Cardinality(s) \in Nat /\ Cardinality(s \ {Some(s)}) = Cardinality(s) - 1
      BY <3>1, OneOff
    <3>3. Some(s) \in Order
      BY <3>1
    <3> QED
      BY <1>6, <3>1, <3>2, <3>3 DEF Order
  <2>5. {} \in Small(n - 1)
    BY <2>1, FS_EmptySet
  <2>6. \A s \in Small(n) : f[s] \in Nat
    <3> TAKE s \in Small(n)
    <3>1. CASE s \in Small(n - 1)
      <4>1. g[s] \in Nat
        BY <2>3, <3>1
      <4> QED
        BY <3>1, <4>1
    <3>2. CASE s \notin Small(n - 1)
      <4>1. s # {}
        BY <2>5, <3>2
      <4>2. g[s \ {Some(s)}] \in Nat /\ Some(s).remaining \in Nat
        BY <2>3, <2>4, <4>1
      <4> QED
        BY <3>2, <4>2
    <3> QED
      BY <3>1, <3>2
  <2>7. f \in [Small(n) -> Nat]
    BY <2>6
  <2>8. \A s \in Small(n - 1) : s \in Small(n) /\ f[s] = g[s]
    <3> TAKE s \in Small(n - 1)
    <3>1. s \in Small(n)
      BY <1>1, <1>6
    <3> QED
      BY <3>1
  <2>9. \A s \in Small(n) : s \notin Small(n - 1) =>
          f[s] = Some(s).remaining + g[s \ {Some(s)}]
    OBVIOUS
  <2> HIDE DEF f, Small
  <2>10. \A s \in Small(n) : Adds(f, s)
    <3> TAKE s \in Small(n)
    <3>1. CASE s = {}
      <4>1. g[s] = 0
        BY <2>3, <2>5, <3>1 DEF Adds
      <4> QED
        BY <2>5, <2>8, <3>1, <4>1 DEF Adds
    <3>2. CASE s # {} /\ s \in Small(n - 1)
      <4>1. g[s] = Some(s).remaining + g[s \ {Some(s)}]
        BY <2>3, <3>2 DEF Adds
      <4>2. f[s] = g[s] /\ f[s \ {Some(s)}] = g[s \ {Some(s)}]
        BY <2>4, <2>8, <3>2
      <4> QED
        BY <3>2, <4>1, <4>2 DEF Adds
    <3>3. CASE s # {} /\ s \notin Small(n - 1)
      <4>1. f[s \ {Some(s)}] = g[s \ {Some(s)}]
        BY <2>4, <2>8, <3>3
      <4> QED
        BY <2>9, <3>3, <4>1 DEF Adds
    <3> QED
      BY <3>1, <3>2, <3>3
  <2> QED
    BY <1>6, <2>7, <2>10
<1> QED
  BY <1>7, <1>8

\* And only one: on common subsets two recursions agree.
LEMMA SumAgree ==
  ASSUME NEW one, NEW f, SumsUp(one, f), NEW other, NEW g, SumsUp(other, g),
         NEW s \in SUBSET one, s \in SUBSET other, IsFiniteSet(s)
  PROVE  f[s] = g[s]
<1> DEFINE Differ(n) == \E t \in SUBSET s : Cardinality(t) = n /\ f[t] # g[t]
           bad == {n \in Nat : Differ(n)}
<1>1. \A t \in SUBSET s : IsFiniteSet(t) /\ Cardinality(t) \in Nat
  BY FS_Subset, FS_CardinalityType
<1>2. SUFFICES ASSUME bad # {} PROVE FALSE
  <2>1. SUFFICES ASSUME f[s] # g[s] PROVE bad # {}
    OBVIOUS
  <2>2. Cardinality(s) \in bad
    BY <1>1, <2>1
  <2> QED
    BY <2>2
<1>3. PICK n \in bad : \A m \in bad : n <= m
  <2>1. bad \subseteq Nat
    OBVIOUS
  <2> HIDE DEF bad
  <2> QED
    BY <1>2, <2>1, LeastNatural
<1>4. PICK t \in SUBSET s : Cardinality(t) = n /\ f[t] # g[t]
  OBVIOUS
<1>5. Adds(f, t) /\ Adds(g, t)
  <2>1. t \in SUBSET one /\ t \in SUBSET other
    OBVIOUS
  <2> QED
    BY <2>1, SumAdds
<1>6. t # {}
  BY <1>4, <1>5 DEF Adds
<1>7. /\ Some(t) \in t /\ Cardinality(t \ {Some(t)}) \in Nat
      /\ Cardinality(t \ {Some(t)}) = n - 1 /\ n \in Nat
  <2>1. Some(t) \in t /\ IsFiniteSet(t)
    BY <1>1, <1>6 DEF Some
  <2> QED
    BY <1>4, <2>1, OneOff
<1>8. Cardinality(t \ {Some(t)}) \notin bad
  <2> HIDE DEF bad
  <2> QED
    BY <1>3, <1>7
<1>9. f[t \ {Some(t)}] = g[t \ {Some(t)}]
  BY <1>7, <1>8
<1> QED
  BY <1>4, <1>5, <1>6, <1>9 DEF Adds

\* Any element may be taken off first.
LEMMA SumTakes ==
  ASSUME NEW orders \in SUBSET Order, IsFiniteSet(orders),
         NEW f \in [SUBSET orders -> Nat], SumsUp(orders, f)
  PROVE  \A s \in SUBSET orders : \A x \in s : f[s] = x.remaining + f[s \ {x}]
<1> DEFINE Splits(t) == \A y \in t : f[t] = y.remaining + f[t \ {y}]
           Differ(n) == \E t \in SUBSET orders : Cardinality(t) = n /\ ~Splits(t)
           bad == {n \in Nat : Differ(n)}
<1>1. \A t \in SUBSET orders : IsFiniteSet(t) /\ Cardinality(t) \in Nat /\ f[t] \in Nat
  BY FS_Subset, FS_CardinalityType
<1>2. SUFFICES ASSUME bad # {} PROVE FALSE
  <2>1. SUFFICES ASSUME NEW s \in SUBSET orders, ~Splits(s) PROVE bad # {}
    OBVIOUS
  <2>2. Cardinality(s) \in bad
    <3> HIDE DEF Splits
    <3> QED
      BY <1>1, <2>1
  <2> QED
    BY <2>2
<1>3. PICK n \in bad : \A m \in bad : n <= m
  <2>1. bad \subseteq Nat
    OBVIOUS
  <2> HIDE DEF bad
  <2> QED
    BY <1>2, <2>1, LeastNatural
<1>4. PICK t \in SUBSET orders : Cardinality(t) = n /\ ~Splits(t)
  <2> HIDE DEF Splits
  <2> QED
    OBVIOUS
<1>5. PICK y \in t : f[t] # y.remaining + f[t \ {y}]
  BY <1>4
<1> DEFINE c == Some(t)
<1>6. c \in t /\ f[t] = c.remaining + f[t \ {c}]
  <2>1. Adds(f, t)
    BY SumAdds
  <2> QED
    BY <1>5, <2>1 DEF Adds, Some
<1> HIDE DEF c
<1>7. y # c
  BY <1>5, <1>6
<1>8. \A z \in t : Splits(t \ {z})
  <2> TAKE z \in t
  <2>1. /\ IsFiniteSet(t) /\ Cardinality(t \ {z}) \in Nat
        /\ Cardinality(t \ {z}) = Cardinality(t) - 1 /\ Cardinality(t) \in Nat
    BY <1>1, OneOff
  <2>2. Cardinality(t \ {z}) \notin bad
    <3> HIDE DEF bad
    <3> QED
      BY <1>3, <1>4, <2>1
  <2>3. t \ {z} \in SUBSET orders
    OBVIOUS
  <2> HIDE DEF Splits
  <2> QED
    BY <2>1, <2>2, <2>3
<1>9. /\ f[t \ {c}] = y.remaining + f[(t \ {c}) \ {y}]
      /\ f[t \ {y}] = c.remaining + f[(t \ {y}) \ {c}]
  <2>1. y \in t \ {c} /\ c \in t \ {y}
    BY <1>6, <1>7
  <2> QED
    BY <1>6, <1>8, <2>1
<1>10. (t \ {c}) \ {y} = (t \ {y}) \ {c}
  OBVIOUS
<1>11. y.remaining \in Nat /\ c.remaining \in Nat /\ f[(t \ {y}) \ {c}] \in Nat
  <2>1. y \in Order /\ c \in Order
    BY <1>6
  <2> QED
    BY <1>1, <2>1 DEF Order
<1> HIDE DEF Splits
<1>12. PICK rest \in Nat : rest = f[(t \ {y}) \ {c}]
  BY <1>11
<1>13. f[t \ {c}] = y.remaining + rest
  BY <1>9, <1>10, <1>12
<1>14. f[t \ {y}] = c.remaining + rest
  BY <1>9, <1>12
<1>15. f[t] = y.remaining + f[t \ {y}]
  BY <1>6, <1>11, <1>13, <1>14
<1> QED
  BY <1>5, <1>15

LEMMA QuantityEmpty == Quantity({}) = 0
<1> DEFINE f == CHOOSE g : SumsUp({}, g)
<1>1. \E g : SumsUp({}, g)
  BY SumExists, FS_EmptySet
<1>2. SumsUp({}, f)
  BY <1>1
<1> HIDE DEF f
<1>3. f[{}] = 0
  BY <1>2, SumAdds DEF Adds
<1> QED
  BY <1>3, QuantitySum DEF f

LEMMA QuantityTakes ==
  ASSUME NEW orders \in SUBSET Order, IsFiniteSet(orders)
  PROVE  /\ Quantity(orders) \in Nat
         /\ \A x \in orders : /\ Quantity(orders \ {x}) \in Nat /\ x.remaining \in Nat
                              /\ Quantity(orders) = x.remaining + Quantity(orders \ {x})
<1>1. ASSUME NEW some \in SUBSET orders
      PROVE  \A f \in [SUBSET orders -> Nat] : SumsUp(orders, f) => Quantity(some) = f[some]
  <2> TAKE f \in [SUBSET orders -> Nat]
  <2> HAVE SumsUp(orders, f)
  <2>1. some \in SUBSET Order /\ IsFiniteSet(some)
    BY FS_Subset
  <2>2. \E g : SumsUp(some, g)
    BY <2>1, SumExists
  <2> DEFINE g == CHOOSE g : SumsUp(some, g)
  <2>3. SumsUp(some, g)
    BY <2>2
  <2>4. Quantity(some) = g[some]
    BY QuantitySum
  <2> HIDE DEF g
  <2> QED
    BY <2>1, <2>3, <2>4, SumAgree
<1>2. PICK f \in [SUBSET orders -> Nat] : SumsUp(orders, f)
  BY SumExists
<1>3. Quantity(orders) = f[orders] /\ f[orders] \in Nat
  BY <1>1, <1>2
<1>4. ASSUME NEW x \in orders
      PROVE  /\ Quantity(orders \ {x}) \in Nat /\ x.remaining \in Nat
             /\ Quantity(orders) = x.remaining + Quantity(orders \ {x})
  <2>1. Quantity(orders \ {x}) = f[orders \ {x}] /\ f[orders \ {x}] \in Nat
    BY <1>1, <1>2
  <2>2. f[orders] = x.remaining + f[orders \ {x}]
    <3>1. \A s \in SUBSET orders : \A y \in s : f[s] = y.remaining + f[s \ {y}]
      BY <1>2, SumTakes
    <3>2. orders \in SUBSET orders
      OBVIOUS
    <3> QED
      BY <3>1, <3>2
  <2>3. x \in Order
    OBVIOUS
  <2> QED
    BY <1>3, <2>1, <2>2, <2>3 DEF Order
<1> QED
  BY <1>3, <1>4

(***************************************************************************)
(* The orders a taker may trade with.                                      *)
(***************************************************************************)

Suits(order, maker) ==
  /\ Matchable(maker, order.account)
  /\ order.kind \in {"limit", "post_only"} => WithinLimit(order, maker.price)

Makers(book, order) ==
  {maker \in RestingOn(book, Opposite(order.side)) : Suits(order, maker)}

LEMMA DepthOfMakers ==
  ASSUME NEW book, NEW order
  PROVE  MatchableDepth(book, order) = Quantity(Makers(book, order))
BY DEF MatchableDepth, Quantity, Makers, Suits

LEMMA RestingOnSide ==
  ASSUME NEW book, IsLevels(book), NEW index, IsMap(index, Nat, Location),
         Agree(book, index), NEW side \in Side
  PROVE  RestingOn(book, side) = {order \in Resting(book) : order.side = side}
<1>1. \A s \in Side : \A order \in RestingOn(book, s) : order.side = s
  <2> TAKE s \in Side
  <2> TAKE order \in RestingOn(book, s)
  <2>1. PICK price \in DOMAIN book[s] : order \in ToSet(book[s][price])
    BY DEF RestingOn
  <2>2. price \in Price /\ Queue(book, s, price) = book[s][price]
    BY <2>1 DEF IsLevels, IsMap, Queue
  <2>3. order \in {o \in Resting(book) : o.side = s /\ o.price = price}
    BY <2>1, <2>2, RestingOfLevel
  <2> QED
    BY <2>3
<1> QED
  BY <1>1 DEF Resting, Side

LEMMA RestingFinite ==
  ASSUME IndexInv
  PROVE  Resting(levels) \in SUBSET Order /\ IsFiniteSet(Resting(levels))
<1>1. /\ IsLevels(levels) /\ IsMap(orderIndex, Nat, Location) /\ Agree(levels, orderIndex)
      /\ nextOrderId \in Nat /\ \A id \in DOMAIN orderIndex : id \in Nat /\ id <= nextOrderId
  BY DEF IndexInv, IndexOK, TypeInv, TypeOK, IsMap, ActiveIds
<1>2. /\ \A order \in Resting(levels) : order \in Order /\ order.id \in DOMAIN orderIndex
      /\ \A one, other \in Resting(levels) : one.id = other.id => one = other
  BY <1>1, RestingIndexed
<1>3. IsFiniteSet(DOMAIN orderIndex)
  BY <1>1, FS_BoundedSetOfNaturals
<1> DEFINE idOf == [order \in Resting(levels) |-> order.id]
<1>4. idOf \in Injection(Resting(levels), DOMAIN orderIndex)
  <2>1. idOf \in [Resting(levels) -> DOMAIN orderIndex]
    BY <1>2
  <2>2. \A one, other \in Resting(levels) : idOf[one] = idOf[other] => one = other
    BY <1>2
  <2> HIDE DEF idOf
  <2> QED
    BY <2>1, <2>2 DEF Injection, IsInjective
<1> HIDE DEF idOf
<1>5. IsFiniteSet(Resting(levels))
  BY <1>3, <1>4, FS_Injection
<1> QED
  BY <1>2, <1>5

LEMMA MakersFinite ==
  ASSUME IndexInv, NEW order \in Order
  PROVE  /\ Makers(levels, order) \in SUBSET Order /\ IsFiniteSet(Makers(levels, order))
         /\ Makers(levels, order)
              = {maker \in Resting(levels) : /\ maker.side = Opposite(order.side)
                                             /\ Suits(order, maker)}
<1>1. Opposite(order.side) \in Side
  BY OppositeSide DEF Order
<1>2. RestingOn(levels, Opposite(order.side))
        = {maker \in Resting(levels) : maker.side = Opposite(order.side)}
  BY <1>1, RestingOnSide DEF IndexInv, IndexOK, TypeInv, TypeOK
<1>3. Makers(levels, order) = {maker \in Resting(levels) : /\ maker.side = Opposite(order.side)
                                                           /\ Suits(order, maker)}
  BY <1>2 DEF Makers
<1>4. Makers(levels, order) \subseteq Resting(levels)
  BY <1>3
<1> QED
  BY <1>3, <1>4, RestingFinite, FS_Subset

MakersOK ==
  /\ Makers(levels, taker) \in SUBSET Order /\ IsFiniteSet(Makers(levels, taker))
  /\ Makers(levels, taker)
       = {maker \in Resting(levels) : /\ maker.side = Opposite(taker.side)
                                      /\ Suits(taker, maker)}

LEMMA MakersKnown == IndexInv => MakersOK
<1> SUFFICES ASSUME IndexInv PROVE MakersOK
  OBVIOUS
<1>1. taker \in Order
  BY DEF IndexInv, TypeInv, TypeOK
<1> QED
  BY <1>1, MakersFinite DEF MakersOK

\* The maker of the next trade is one of them.
LEMMA BestSuits ==
  ASSUME BaseInv, FillBest
  PROVE  BestMaker \in Makers(levels, taker)
<1>1. /\ TypeInv /\ IsLevels(levels) /\ Agree(levels, orderIndex) /\ taker \in Order
      /\ pc = "match" /\ CanTrade /\ IsMap(orderIndex, Nat, Location)
  BY BaseImplies DEF BaseFacts, FillBest
<1>2. /\ MakerSide \in Side /\ BestPrice \in DOMAIN levels[MakerSide] /\ BestPrice \in Price
      /\ BestPlace \in DOMAIN levels[MakerSide][BestPrice]
  BY <1>1, NextTradeType
<1>3. BestPrice \in MatchablePrices(levels, taker)
  BY <1>1, BestMatchableExists DEF CanTrade, BestPrice
<1>4. /\ taker.kind \in {"limit", "post_only"} => WithinLimit(taker, BestPrice)
      /\ HasMatchable(levels[MakerSide][BestPrice], taker.account)
  BY <1>3 DEF MatchablePrices, MakerSide
<1>5. levels[MakerSide][BestPrice] \in Seq(Order)
  BY <1>1, <1>2 DEF IsLevels, IsMap
<1>6. Matchable(BestMaker, taker.account)
  BY <1>4, <1>5, FirstMatchableExists DEF BestPlace, BestMaker
<1>7. BestMaker \in ToSet(Queue(levels, MakerSide, BestPrice))
  BY <1>2 DEF Queue, ToSet, BestMaker
<1>8. BestMaker \in {o \in Resting(levels) : o.side = MakerSide /\ o.price = BestPrice}
  BY <1>1, <1>2, <1>7, RestingOfLevel
<1>9. BestMaker \in RestingOn(levels, MakerSide)
  BY <1>1, <1>2, <1>8, RestingOnSide
<1> QED
  BY <1>4, <1>6, <1>8, <1>9 DEF Makers, Suits, MakerSide

\* A trade takes its quantity out of the depth of the taker.
LEMMA DepthFillBest ==
  ASSUME BaseInv, BaseInv', FillBest, taker.kind # "market_by_notional"
  PROVE  /\ MatchableDepth(levels, taker) \in Nat /\ NextAmount \in Nat
         /\ MatchableDepth(levels, taker)' = MatchableDepth(levels, taker) - NextAmount
<1>1. /\ IndexInv /\ TypeInv /\ taker \in Order /\ pc = "match" /\ CanTrade
      /\ taker' = ReduceTaker(taker, BestPrice, NextAmount)
  BY BaseImplies DEF BaseFacts, FillBest
<1>2. IndexInv' /\ taker' \in Order
  <2>1. BaseFacts'
    BY BaseImplies, PTL
  <2> QED
    BY <2>1 DEF BaseFacts
<1>3. /\ BestMaker \in Order /\ NextAmount \in Nat /\ NextAmount <= BestMaker.remaining
  BY <1>1, NextTradeType
<1>4. PICK best, amount : best = BestMaker /\ amount = NextAmount
  OBVIOUS
<1> DEFINE makers == Makers(levels, taker)
           after == Makers(levels, taker)'
           left == best.remaining - amount
           reduced == [best EXCEPT !.remaining = left]
<1>5. /\ makers \in SUBSET Order /\ IsFiniteSet(makers)
      /\ makers = {maker \in Resting(levels) : /\ maker.side = Opposite(taker.side)
                                               /\ Suits(taker, maker)}
  BY <1>1, MakersFinite
<1>6. /\ after \in SUBSET Order /\ IsFiniteSet(after)
      /\ after = {maker \in Resting(levels)' : /\ maker.side = Opposite(taker'.side)
                                               /\ Suits(taker', maker)}
  <2>1. MakersOK'
    BY <1>2, MakersKnown, PTL
  <2> QED
    BY <2>1 DEF MakersOK
<1>7. /\ Resting(levels)' = (Resting(levels) \ {best}) \cup
                              (IF left = 0 THEN {} ELSE {reduced})
      /\ best \in Resting(levels) /\ left \in Nat /\ best \in Order
      /\ \A order \in Resting(levels) : order.id = best.id => order = best
  <2>1. left \in Nat /\ (left = 0 <=> best.remaining = amount)
    BY <1>3, <1>4 DEF Order
  <2>2. ActiveOK
    BY <1>1, ActiveUnique
  <2>3. /\ BestMaker \in Resting(levels)
        /\ Resting(levels)' =
             (Resting(levels) \ {BestMaker}) \cup
               (IF BestMaker.remaining = NextAmount THEN {}
                ELSE {[BestMaker EXCEPT !.remaining = BestMaker.remaining - NextAmount]})
    BY <1>1, ActiveFillBest
  <2> QED
    BY <1>3, <1>4, <2>1, <2>2, <2>3 DEF ActiveOK, ActiveOrders
<1>8. /\ taker'.side = taker.side /\ taker'.kind = taker.kind
      /\ taker'.account = taker.account /\ taker'.price = taker.price
  BY <1>1 DEF ReduceTaker, Order
<1>9. \A maker : Suits(taker', maker) <=> Suits(taker, maker)
  BY <1>8 DEF Suits, WithinLimit
<1>10. /\ reduced.side = best.side /\ reduced.price = best.price /\ reduced.id = best.id
       /\ reduced.account = best.account /\ reduced.remaining = left /\ reduced \in Order
  BY <1>7 DEF Order
<1>11. Suits(taker, reduced) <=> Suits(taker, best)
  BY <1>10 DEF Suits, Matchable
<1>12. best \in makers
  BY <1>4, BestSuits
<1> HIDE DEF makers, after, left, reduced
<1>13. after = (makers \ {best}) \cup (IF left = 0 THEN {} ELSE {reduced})
  BY <1>5, <1>6, <1>7, <1>8, <1>9, <1>10, <1>11, <1>12
<1>14. /\ Quantity(makers) \in Nat /\ Quantity(makers \ {best}) \in Nat
       /\ Quantity(makers) = best.remaining + Quantity(makers \ {best})
  BY <1>5, <1>12, QuantityTakes
<1>15. Quantity(after) = left + Quantity(makers \ {best})
  <2>1. CASE left = 0
    BY <1>13, <1>14, <2>1
  <2>2. CASE left # 0
    <3>1. reduced \notin makers \ {best}
      BY <1>5, <1>7, <1>10
    <3>2. after \ {reduced} = makers \ {best} /\ reduced \in after
      BY <1>13, <2>2, <3>1
    <3>3. Quantity(after) = reduced.remaining + Quantity(after \ {reduced})
      BY <1>6, <3>2, QuantityTakes
    <3> QED
      BY <1>10, <3>2, <3>3
  <2> QED
    BY <2>1, <2>2
<1>16. left = best.remaining - amount /\ best.remaining \in Nat /\ amount \in Nat
  BY <1>3, <1>4, <1>7 DEF left, Order
<1>17. Quantity(after) = Quantity(makers) - amount
  BY <1>14, <1>15, <1>16
<1>18. /\ MatchableDepth(levels, taker) = Quantity(makers)
       /\ MatchableDepth(levels, taker)' = Quantity(after)
  BY DepthOfMakers DEF makers, after
<1> QED
  BY <1>3, <1>4, <1>14, <1>17, <1>18

\* The matching loop stops when no maker is left or nothing is left to trade.
LEMMA LoopEnds ==
  ASSUME BaseInv, pc = "match", ~CanTrade, taker.kind # "market_by_notional",
         taker.remaining > 0
  PROVE  MatchablePrices(levels, taker) = {} /\ Makers(levels, taker) = {}
<1>1. /\ IsLevels(levels) /\ Agree(levels, orderIndex) /\ taker \in Order
      /\ IsMap(orderIndex, Nat, Location)
  BY BaseImplies DEF BaseFacts
<1>2. MakerSide \in Side
  BY <1>1, OppositeSide DEF MakerSide, Order
<1>3. MatchablePrices(levels, taker) = {}
  <2> SUFFICES ASSUME MatchablePrices(levels, taker) # {} PROVE FALSE
    OBVIOUS
  <2>1. BestPrice \in MatchablePrices(levels, taker)
    BY <1>1, BestMatchableExists DEF BestPrice
  <2>2. /\ BestPrice \in DOMAIN levels[MakerSide]
        /\ HasMatchable(levels[MakerSide][BestPrice], taker.account)
    BY <2>1 DEF MatchablePrices, MakerSide
  <2>3. BestPrice \in Price /\ levels[MakerSide][BestPrice] \in Seq(Order)
    BY <1>1, <1>2, <2>2 DEF IsLevels, IsMap
  <2>4. BestPlace \in DOMAIN levels[MakerSide][BestPrice]
    BY <2>2, <2>3, FirstMatchableExists DEF BestPlace
  <2>5. BestMaker \in ToSet(Queue(levels, MakerSide, BestPrice))
    BY <2>2, <2>4 DEF Queue, ToSet, BestMaker
  <2>6. /\ BestMaker \in Order
        /\ BestMaker.side = MakerSide /\ BestMaker.price = BestPrice
        /\ BestMaker.remaining > 0
        /\ BestMaker.id \in DOMAIN orderIndex
        /\ orderIndex[BestMaker.id] = [side |-> MakerSide, price |-> BestPrice]
    BY <1>1, <1>2, <2>3, <2>5, QueuedInPlace
  <2>7. NextAmount > 0
    BY <1>1, <2>6 DEF NextAmount, TradeQuantity, Order
  <2> QED
    BY <2>7 DEF CanTrade, HasInterest
<1>4. Makers(levels, taker) = {}
  <2> SUFFICES ASSUME NEW maker \in Makers(levels, taker) PROVE FALSE
    OBVIOUS
  <2>1. maker \in RestingOn(levels, MakerSide) /\ Suits(taker, maker)
    BY DEF Makers, MakerSide
  <2>2. PICK price \in DOMAIN levels[MakerSide] : maker \in ToSet(levels[MakerSide][price])
    BY <2>1 DEF RestingOn
  <2>3. price \in Price /\ maker \in ToSet(Queue(levels, MakerSide, price))
    BY <1>1, <1>2, <2>2 DEF IsLevels, IsMap, Queue
  <2>4. maker \in {o \in Resting(levels) : o.side = MakerSide /\ o.price = price}
    BY <1>1, <1>2, <2>3, RestingOfLevel
  <2>5. price \in MatchablePrices(levels, taker)
    BY <2>1, <2>2, <2>4 DEF Suits, HasMatchable, ToSet, MatchablePrices, MakerSide
  <2> QED
    BY <1>3, <2>5
<1> QED
  BY <1>3, <1>4

\* A fill-or-kill order whose quantity was there when it began leaves nothing.
LEMMA DepthFills ==
  ASSUME BaseInv, pc = "match", ~CanTrade, taker.kind # "market_by_notional",
         taker.remaining <= MatchableDepth(levels, taker)
  PROVE  taker.remaining = 0
<1> SUFFICES ASSUME taker.remaining # 0 PROVE FALSE
  OBVIOUS
<1>1. taker.remaining \in Nat
  BY BaseImplies DEF BaseFacts, Order
<1>2. Makers(levels, taker) = {}
  BY <1>1, LoopEnds
<1> QED
  BY <1>1, <1>2, DepthOfMakers, QuantityEmpty

\* What rests when it settles has no price on the other side within its limit.
LEMMA RestsUncrossed ==
  ASSUME BaseInv, Settle, Rests(levels, taker), taker.tif # "fok"
  PROVE  \A price \in DOMAIN levels[MakerSide] : ~WithinLimit(taker, price)
<1>1. /\ IsLevels(levels) /\ Agree(levels, orderIndex) /\ taker \in Order
      /\ pc = "match" /\ ~PostOnlyCrosses /\ ~CanTrade /\ ~IsStopOrder(taker.kind)
      /\ MakerSide \in Side
  BY BaseImplies, OppositeSide DEF BaseFacts, Settle, TypeInv, ControlOK, MakerSide, Order
<1>2. taker.kind \in {"limit", "post_only"} /\ taker.tif = "gtc" /\ taker.remaining > 0
  BY <1>1 DEF Rests, Discards, IsFilled, IsStopOrder, Order, OrderKind, TimeInForce
<1> SUFFICES ASSUME NEW price \in DOMAIN levels[MakerSide], WithinLimit(taker, price)
             PROVE  FALSE
  OBVIOUS
<1>3. taker.kind = "limit"
  BY <1>1, <1>2 DEF PostOnlyCrosses, WouldCross, MakerSide
<1>4. MatchablePrices(levels, taker) = {}
  BY <1>1, <1>2, LoopEnds
<1>5. levels[MakerSide][price] # <<>> /\ levels[MakerSide][price] \in Seq(Order)
  BY <1>1 DEF IsLevels, IsMap, Agree
<1>6. 1 \in DOMAIN levels[MakerSide][price]
  BY <1>5, LenProperties
<1>7. ~Matchable(levels[MakerSide][price][1], taker.account)
  BY <1>4, <1>6 DEF MatchablePrices, HasMatchable, MakerSide
<1>8. BlockedBySelfTrade(levels, taker)
  BY <1>2, <1>3, <1>6, <1>7
     DEF BlockedBySelfTrade, CrossesOwnLiquidity, Matchable, ToSet, MakerSide
<1> QED
  BY <1>8 DEF Rests, Discards

(***************************************************************************)
(* Fill-or-kill orders and the uncrossed book.                             *)
(***************************************************************************)

\* No client sends a fill-or-kill stop order.  The engine accepts one, and executes it
\* without the depth check of submit when it triggers (book.rs:492): neither theorem
\* holds with them.
NoFokStops == \A req \in Requests : IsStopOrder(req.kind) => req.tif # "fok"

\* Every copy of an order has the time in force of its submission, and what is active
\* is no fill-or-kill order.
TifOK ==
  /\ \A id \in DOMAIN orderIndex : id \in DOMAIN submitted /\ submitted[id].tif # "fok"
  /\ \A id \in DOMAIN stopOrders : /\ id \in DOMAIN submitted /\ submitted[id].tif # "fok"
                                   /\ stopOrders[id].tif = submitted[id].tif
  /\ pc = "match" => taker.id \in DOMAIN submitted /\ taker.tif = submitted[taker.id].tif

\* While a fill-or-kill order executes, what is left of it is there to be had.
DepthOK ==
  pc = "match" /\ taker.tif = "fok" =>
    /\ taker.kind # "market_by_notional" /\ ~IsNotional(taker.id)
    /\ taker.remaining <= MatchableDepth(levels, taker)
    /\ taker.kind = "post_only" => taker.remaining = submitted[taker.id].original

RestOK == TifOK /\ DepthOK /\ FokAllOrNothing /\ NeverCrossed

\* No price is added to either side.
Fewer(after, before) == \A side \in Side : DOMAIN after[side] \subseteq DOMAIN before[side]

LEMMA SetQueueFewer ==
  ASSUME NEW book, IsLevels(book), NEW side \in Side, NEW price \in DOMAIN book[side],
         NEW queue
  PROVE  Fewer(SetQueue(book, side, price, queue), book)
<1>1. DOMAIN book = Side
  BY DEF IsLevels
<1> QED
  BY <1>1 DEF Fewer, SetQueue, Restrict

LEMMA CancelFewer ==
  ASSUME BaseInv, NEW id \in ActiveIds, CancelOrder(id)
  PROVE  Fewer(levels', levels)
<1>1. IsLevels(levels) /\ IsMap(orderIndex, Nat, Location) /\ Agree(levels, orderIndex)
  BY BaseImplies DEF BaseFacts
<1>2. CASE id \in DOMAIN orderIndex
  <2>1. PICK side \in Side, price \in Price : orderIndex[id] = [side |-> side, price |-> price]
    BY <1>1, <1>2 DEF IsMap, Location
  <2>2. levels' = RemoveFromLevel(levels, side, price, id)
    BY <1>2, <2>1 DEF CancelOrder
  <2>3. price \in DOMAIN levels[side]
    BY <1>1, <1>2, <2>1 DEF Agree, Queue
  <2>4. \A queue : Fewer(SetQueue(levels, side, price, queue), levels)
    BY <1>1, <2>3, SetQueueFewer
  <2>5. Fewer(levels, levels)
    BY DEF Fewer
  <2> QED
    BY <2>2, <2>4, <2>5 DEF RemoveFromLevel
<1>3. CASE id \notin DOMAIN orderIndex
  BY <1>3 DEF CancelOrder, Fewer
<1> QED
  BY <1>2, <1>3

\* A step that makes no trade and adds no price.
LEMMA RestKeeps ==
  ASSUME RestOK, TifOK', DepthOK', tape' = tape, Fewer(levels', levels),
         \A id \in DOMAIN submitted :
           id \in DOMAIN submitted' /\ submitted'[id] = submitted[id],
         \A id \in DOMAIN submitted' :
           submitted'[id].tif = "fok" /\ ~Executing(id)' =>
             \/ id \in DOMAIN submitted /\ ~Executing(id)
             \/ Filled(id) \in {0, submitted'[id].original}
  PROVE  RestOK'
<1>1. \A id : Filled(id)' = Filled(id)
  BY DEF Filled
<1>2. FokAllOrNothing'
  <2> SUFFICES ASSUME NEW id \in DOMAIN submitted', submitted'[id].tif = "fok",
                      ~Executing(id)'
               PROVE  /\ id \notin DOMAIN orderIndex'
                      /\ Filled(id)' \in {0, submitted'[id].original}
    BY DEF FokAllOrNothing
  <2>1. id \notin DOMAIN orderIndex'
    BY DEF TifOK
  <2>2. CASE id \in DOMAIN submitted /\ ~Executing(id)
    BY <1>1, <2>1, <2>2 DEF RestOK, FokAllOrNothing
  <2>3. CASE Filled(id) \in {0, submitted'[id].original}
    BY <1>1, <2>1, <2>3
  <2> QED
    BY <2>2, <2>3
<1>3. NeverCrossed'
  BY DEF RestOK, NeverCrossed, Fewer, Side
<1> QED
  BY <1>2, <1>3 DEF RestOK

LEMMA RestSubmit ==
  ASSUME NoFokStops, BaseInv, BaseInv', RestOK, NEW req \in Requests, Submit(req)
  PROVE  RestOK'
<1>1. /\ TypeInv /\ nextOrderId \notin DOMAIN submitted /\ nextOrderId \in Nat
      /\ \A id : id \notin DOMAIN submitted => Filled(id) = 0
      /\ IsMap(submitted, Nat, Order)
  BY BaseImplies DEF BaseFacts, LedgerInv, LedgerOK, QuantityInv, QuantityOK
<1>2. PICK new, order : new = nextOrderId /\ order = Incoming(req)
  OBVIOUS
<1>3. /\ order \in Order /\ order.id = new /\ order.kind = req.kind /\ order.tif = req.tif
      /\ order.remaining = order.original
  BY <1>1, <1>2, IncomingType DEF Incoming, MakeOrder
<1>4. /\ pc # "match" /\ tape' = tape /\ Create(req)
      /\ levels' = levels /\ orderIndex' = orderIndex
  BY DEF Submit, RejectInvalid, AcceptStop, RejectFok, BeginExecution, bookVars
<1>5. /\ DOMAIN submitted' = DOMAIN submitted \cup {new} /\ submitted'[new] = order
      /\ \A id \in DOMAIN submitted : submitted'[id] = submitted[id]
  BY <1>1, <1>2, <1>4 DEF Create, Put
<1>6. \A id \in DOMAIN submitted' :
        (id \in DOMAIN submitted /\ ~Executing(id)) \/ Filled(id) \in {0, submitted'[id].original}
  BY <1>1, <1>2, <1>4, <1>5 DEF Executing
<1>7. Fewer(levels', levels)
  BY <1>4 DEF Fewer
<1>8. \/ stopOrders' = stopOrders
      \/ IsStopOrder(req.kind) /\ stopOrders' = Put(stopOrders, new, order)
  BY <1>2 DEF Submit, RejectInvalid, AcceptStop, RejectFok, BeginExecution, bookVars
<1>9. \/ pc' # "match"
      \/ taker' = order /\ ~KillsFok(req)
  BY <1>2 DEF Submit, RejectInvalid, AcceptStop, RejectFok, BeginExecution, AcceptAs, Answer
<1>10. TifOK'
  <2>1. \A id \in DOMAIN orderIndex' : id \in DOMAIN submitted' /\ submitted'[id].tif # "fok"
    BY <1>4, <1>5 DEF RestOK, TifOK
  <2>2. \A id \in DOMAIN stopOrders' : /\ id \in DOMAIN submitted'
                                       /\ submitted'[id].tif # "fok"
                                       /\ stopOrders'[id].tif = submitted'[id].tif
    <3>1. CASE stopOrders' = stopOrders
      BY <1>5, <3>1 DEF RestOK, TifOK
    <3>2. CASE IsStopOrder(req.kind) /\ stopOrders' = Put(stopOrders, new, order)
      <4>1. order.tif # "fok"
        BY <1>3, <3>2 DEF NoFokStops
      <4> QED
        BY <1>5, <3>2, <4>1 DEF RestOK, TifOK, Put
    <3> QED
      BY <1>8, <3>1, <3>2
  <2>3. pc' = "match" => taker'.id \in DOMAIN submitted'
                         /\ taker'.tif = submitted'[taker'.id].tif
    BY <1>3, <1>5, <1>9
  <2> QED
    BY <2>1, <2>2, <2>3 DEF TifOK
<1>11. DepthOK'
  <2>1. CASE pc' # "match" \/ taker'.tif # "fok"
    BY <2>1 DEF DepthOK
  <2>2. CASE taker' = order /\ ~KillsFok(req) /\ req.tif = "fok"
    <3>1. /\ order.kind # "market_by_notional"
          /\ MatchableDepth(levels, order) >= order.remaining
      BY <1>2, <2>2 DEF KillsFok, CanFullyFill
    <3>2. order.remaining <= MatchableDepth(levels, order)
      <4>1. MatchableDepth(levels, order) \in Nat
        BY <1>3, BaseImplies, MakersFinite, QuantityTakes, DepthOfMakers DEF BaseFacts
      <4> QED
        BY <1>3, <3>1, <4>1 DEF Order
    <3>3. MatchableDepth(levels, taker)' = MatchableDepth(levels, order)
      BY <1>4, <2>2
    <3>4. ~IsNotional(taker.id)'
      BY <1>3, <1>5, <2>2, <3>1 DEF IsNotional
    <3> QED
      BY <1>3, <1>5, <2>2, <3>1, <3>2, <3>3, <3>4 DEF DepthOK
  <2> QED
    BY <1>3, <1>9, <2>1, <2>2
<1> QED
  BY <1>4, <1>5, <1>6, <1>7, <1>10, <1>11, RestKeeps

\* The trade takes from maker and taker; the depth the taker has left shrinks with it.
LEMMA RestFillBest ==
  ASSUME BaseInv, BaseInv', RestOK, FillBest
  PROVE  RestOK'
<1>1. /\ TypeInv /\ QuantityInv /\ IsLevels(levels) /\ tape \in Seq(Trade) /\ taker \in Order
      /\ pc = "match" /\ pc' = "match" /\ CanTrade /\ ~PostOnlyCrosses
      /\ tape' = Append(tape, NextTrade) /\ submitted' = submitted /\ stopOrders' = stopOrders
      /\ taker' = ReduceTaker(taker, BestPrice, NextAmount)
      /\ DOMAIN orderIndex' \subseteq DOMAIN orderIndex
  BY BaseImplies DEF BaseFacts, FillBest, Without, Restrict
<1>2. /\ BestMaker.id # taker.id /\ NextTrade \in Trade /\ taker'.id = taker.id
      /\ BestMaker.id \in DOMAIN submitted
  BY <1>1, TradeParties
<1>3. PICK trade \in Trade : trade = NextTrade
  BY <1>2
<1>4. trade.taker = taker.id /\ trade.maker = BestMaker.id
  BY <1>3 DEF NextTrade
<1>5. BestMaker.id \in DOMAIN orderIndex
  BY <1>1, ActiveFillBest, RestingIndexed, BaseImplies DEF BaseFacts
<1>6. taker'.tif = taker.tif /\ taker'.kind = taker.kind
  BY <1>1 DEF ReduceTaker, Order
<1>7. TifOK'
  BY <1>1, <1>2, <1>6 DEF RestOK, TifOK
<1>8. DepthOK'
  <2>1. CASE taker.tif # "fok"
    BY <1>6, <2>1 DEF DepthOK
  <2>2. CASE taker.tif = "fok"
    <3>1. /\ taker.kind # "market_by_notional" /\ ~IsNotional(taker.id)
          /\ taker.remaining <= MatchableDepth(levels, taker)
      BY <1>1, <2>2 DEF RestOK, DepthOK
    <3>2. /\ MatchableDepth(levels, taker) \in Nat /\ NextAmount \in Nat
          /\ MatchableDepth(levels, taker)' = MatchableDepth(levels, taker) - NextAmount
      BY <1>1, <3>1, DepthFillBest
    <3>3. taker'.remaining = taker.remaining - NextAmount /\ taker.remaining \in Nat
      BY <1>1, <3>1 DEF ReduceTaker, Order
    <3>4. taker'.remaining <= MatchableDepth(levels, taker)'
      BY <3>1, <3>2, <3>3
    <3>5. taker'.kind # "post_only"
      BY <1>1, <1>6, PostOnlyNeverTrades
    <3>6. ~IsNotional(taker.id)'
      BY <1>1, <1>2, <3>1 DEF IsNotional
    <3> QED
      BY <1>6, <3>1, <3>4, <3>5, <3>6 DEF DepthOK
  <2> QED
    BY <2>1, <2>2
<1>9. FokAllOrNothing'
  <2> SUFFICES ASSUME NEW id \in DOMAIN submitted, submitted[id].tif = "fok",
                      ~Executing(id)'
               PROVE  /\ id \notin DOMAIN orderIndex'
                      /\ Filled(id)' \in {0, submitted[id].original}
    BY <1>1 DEF FokAllOrNothing
  <2>1. ~Executing(id) /\ id # taker.id
    BY <1>1, <1>2 DEF Executing
  <2>2. id \notin DOMAIN orderIndex /\ Filled(id) \in {0, submitted[id].original}
    BY <2>1 DEF RestOK, FokAllOrNothing
  <2>3. id \notin {trade.maker, trade.taker}
    BY <1>4, <1>5, <2>1, <2>2
  <2>4. Sums(id) /\ Filled(id)' = Filled(id) + 0
    BY <1>1, <1>3, <2>3, SumsOfTrade
  <2> QED
    BY <1>1, <2>2, <2>4 DEF Sums
<1>10. NeverCrossed'
  <2>1. /\ MakerSide \in Side /\ BestPrice \in DOMAIN levels[MakerSide]
    BY <1>1, NextTradeType
  <2>2. \A queue : Fewer(SetQueue(levels, MakerSide, BestPrice, queue), levels)
    BY <1>1, <2>1, SetQueueFewer
  <2>3. Fewer(levels', levels)
    BY <2>2 DEF FillBest, Deplete
  <2> QED
    BY <2>3 DEF RestOK, NeverCrossed, Fewer, Side
<1> QED
  BY <1>7, <1>8, <1>9, <1>10 DEF RestOK

LEMMA RestSettle ==
  ASSUME BaseInv, BaseInv', RestOK, Settle
  PROVE  RestOK'
<1>1. /\ TypeInv /\ QuantityInv /\ IsLevels(levels) /\ tape \in Seq(Trade) /\ taker \in Order
      /\ pc = "match" /\ pc' # "match" /\ ~CanTrade
      /\ tape' = tape /\ submitted' = submitted /\ stopOrders' = stopOrders
      /\ IsMap(submitted, Nat, Order)
  BY BaseImplies DEF BaseFacts, Settle, ghostVars
<1>2. taker.tif = "fok" => taker.remaining = 0 /\ ~IsNotional(taker.id) /\ ~Rests(levels, taker)
  <2> SUFFICES ASSUME taker.tif = "fok"
               PROVE  taker.remaining = 0 /\ ~IsNotional(taker.id) /\ ~Rests(levels, taker)
    OBVIOUS
  <2>1. /\ taker.kind # "market_by_notional" /\ ~IsNotional(taker.id)
        /\ taker.remaining <= MatchableDepth(levels, taker)
    BY <1>1 DEF RestOK, DepthOK
  <2>2. taker.remaining = 0
    BY <1>1, <2>1, DepthFills
  <2> QED
    BY <2>1, <2>2 DEF Rests, IsFilled
<1>3. taker.id \in DOMAIN submitted /\ taker.tif = submitted[taker.id].tif
  BY <1>1 DEF RestOK, TifOK
<1>4. TifOK'
  <2>1. \A id \in DOMAIN orderIndex' :
          id \in DOMAIN orderIndex \/ (id = taker.id /\ Rests(levels, taker))
    BY DEF Settle, Put
  <2> QED
    BY <1>1, <1>2, <1>3, <2>1 DEF RestOK, TifOK
<1>5. DepthOK'
  BY <1>1 DEF DepthOK
<1>6. ASSUME taker.tif = "fok" PROVE Filled(taker.id) = submitted[taker.id].original
  <2>1. Filled(taker.id) + Left(taker.id) = submitted[taker.id].original
    BY <1>1, <1>2, <1>3, <1>6 DEF QuantityInv, QuantityOK, QuantityConserved
  <2>2. Left(taker.id) = 0
    BY <1>1, <1>2, <1>6 DEF Left, Executing
  <2>3. Filled(taker.id) \in Nat
    BY <1>1, SumsType DEF Sums
  <2> QED
    BY <2>1, <2>2, <2>3
<1>7. \A id \in DOMAIN submitted :
        submitted[id].tif = "fok" => ~Executing(id) \/ Filled(id) = submitted[id].original
  BY <1>3, <1>6 DEF Executing
<1>8. CASE ~Rests(levels, taker)
  <2>1. Fewer(levels', levels)
    BY <1>8 DEF Settle, Fewer
  <2> QED
    BY <1>1, <1>4, <1>5, <1>7, <2>1, RestKeeps
<1>9. CASE Rests(levels, taker)
  <2>1. \A price \in DOMAIN levels[MakerSide] : ~WithinLimit(taker, price)
    BY <1>2, <1>9, RestsUncrossed
  <2>2. levels' = Push(levels, taker) /\ taker.price \in Price /\ taker.side \in Side
    BY <1>1, <1>9, RestingHasPrice DEF Settle, Order
  <2>3. /\ \A side \in Side : side # taker.side => levels'[side] = levels[side]
        /\ DOMAIN levels'[taker.side] \subseteq DOMAIN levels[taker.side] \cup {taker.price}
    BY <1>1, <2>2 DEF Push, SetQueue, Restrict, IsLevels
  <2>4. \A side \in Side : DOMAIN levels[side] \subseteq Nat
    BY <1>1, ConfigAssumption DEF IsLevels, IsMap, Price
  <2>5. taker.price \in Nat
    BY <1>1 DEF Order
  <2>6. NeverCrossed'
    <3> SUFFICES ASSUME NEW bid \in DOMAIN levels'["buy"], NEW ask \in DOMAIN levels'["sell"]
                 PROVE  bid < ask
      BY DEF NeverCrossed
    <3>1. CASE taker.side = "buy"
      <4>1. ask \in DOMAIN levels["sell"] /\ ~(ask <= taker.price)
        BY <2>1, <2>3, <3>1 DEF MakerSide, Opposite, WithinLimit, Side
      <4>2. bid \in DOMAIN levels["buy"] \/ bid = taker.price
        BY <2>3, <3>1
      <4> QED
        BY <2>4, <2>5, <4>1, <4>2 DEF RestOK, NeverCrossed, Side
    <3>2. CASE taker.side = "sell"
      <4>1. bid \in DOMAIN levels["buy"] /\ ~(bid >= taker.price)
        BY <2>1, <2>3, <3>2 DEF MakerSide, Opposite, WithinLimit, Side
      <4>2. ask \in DOMAIN levels["sell"] \/ ask = taker.price
        BY <2>3, <3>2
      <4> QED
        BY <2>4, <2>5, <4>1, <4>2 DEF RestOK, NeverCrossed, Side
    <3> QED
      BY <2>2, <3>1, <3>2 DEF Side
  <2>7. FokAllOrNothing'
    <3>1. \A id : Filled(id)' = Filled(id)
      BY <1>1 DEF Filled
    <3> QED
      BY <1>1, <1>4, <1>7, <3>1 DEF RestOK, FokAllOrNothing, TifOK
  <2> QED
    BY <1>4, <1>5, <2>6, <2>7 DEF RestOK
<1> QED
  BY <1>8, <1>9

\* A post-only order that would cross has traded nothing.
LEMMA RestRejectPostOnly ==
  ASSUME BaseInv, BaseInv', RestOK, RejectPostOnly
  PROVE  RestOK'
<1>1. /\ QuantityInv /\ tape \in Seq(Trade) /\ taker \in Order /\ taker.kind = "post_only"
      /\ pc = "match" /\ pc' # "match" /\ IsMap(submitted, Nat, Order)
      /\ UNCHANGED <<tape, submitted, stopOrders, orderIndex, levels>>
  BY BaseImplies DEF BaseFacts, RejectPostOnly, PostOnlyCrosses, ghostVars, bookVars
<1>2. taker.id \in DOMAIN submitted /\ taker.tif = submitted[taker.id].tif
  BY <1>1 DEF RestOK, TifOK
<1>3. TifOK' /\ DepthOK' /\ Fewer(levels', levels)
  BY <1>1 DEF RestOK, TifOK, DepthOK, Fewer
<1>4. ASSUME taker.tif = "fok" PROVE Filled(taker.id) = 0
  <2>1. /\ ~IsNotional(taker.id) /\ taker.remaining = submitted[taker.id].original
    BY <1>1, <1>4 DEF RestOK, DepthOK
  <2>2. Filled(taker.id) + Left(taker.id) = submitted[taker.id].original
    BY <1>1, <1>2, <2>1 DEF QuantityInv, QuantityOK, QuantityConserved
  <2>3. Left(taker.id) = taker.remaining
    BY <1>1 DEF Left, Executing
  <2>4. Filled(taker.id) \in Nat /\ taker.remaining \in Nat
    BY <1>1, SumsType DEF Sums, Order
  <2> QED
    BY <2>1, <2>2, <2>3, <2>4
<1>5. \A id \in DOMAIN submitted :
        submitted[id].tif = "fok" => ~Executing(id) \/ Filled(id) = 0
  BY <1>2, <1>4 DEF Executing
<1> QED
  BY <1>1, <1>3, <1>5, RestKeeps

LEMMA RestActivateStop ==
  ASSUME BaseInv, BaseInv', RestOK, ActivateStop
  PROVE  RestOK'
<1>1. /\ pc = "trigger" /\ UNCHANGED <<tape, submitted, orderIndex, levels>>
      /\ NextTriggered \in DOMAIN stopOrders
      /\ stopOrders' = Without(stopOrders, NextTriggered)
      /\ taker' = Activated(stopOrders[NextTriggered])
  BY DEF ActivateStop, ghostVars
<1>2. PICK next : next = NextTriggered
  OBVIOUS
<1>3. stopOrders[next] \in Order /\ stopOrders[next].id = next
  BY <1>1, <1>2, BaseImplies DEF BaseFacts, IndexInv, IndexOK, StopsApart, IsMap
<1>4. taker'.id = next /\ taker'.tif = stopOrders[next].tif
  BY <1>1, <1>2, <1>3 DEF Activated, Order
<1>5. /\ next \in DOMAIN submitted /\ submitted[next].tif # "fok"
      /\ stopOrders[next].tif = submitted[next].tif
  BY <1>1, <1>2 DEF RestOK, TifOK
<1>6. TifOK' /\ DepthOK'
  BY <1>1, <1>2, <1>4, <1>5 DEF RestOK, TifOK, DepthOK, Without, Restrict
<1>7. Fewer(levels', levels) /\ \A id \in DOMAIN submitted : ~Executing(id)
  BY <1>1 DEF Fewer, Executing
<1> QED
  BY <1>1, <1>6, <1>7, RestKeeps

LEMMA RestCommands ==
  ASSUME BaseInv, BaseInv', RestOK,
         \/ \E id \in ActiveIds : Cancel(id)
         \/ \E id \in ActiveIds : Replace(id)
         \/ \E id \in cancelling : MassCancelOne(id)
  PROVE  RestOK'
<1>1. IndexInv /\ cancelling \subseteq ActiveIds
  BY BaseImplies DEF BaseFacts, TypeInv, ControlOK
<1>2. PICK id \in ActiveIds : CancelOrder(id)
  BY <1>1 DEF Cancel, Replace, MassCancelOne
<1>3. pc # "match" /\ pc' # "match" /\ UNCHANGED <<tape, submitted>>
  BY DEF Cancel, Replace, MassCancelOne, Answer, ghostVars
<1>4. /\ DOMAIN orderIndex' \subseteq DOMAIN orderIndex
      /\ DOMAIN stopOrders' \subseteq DOMAIN stopOrders
      /\ \A other \in DOMAIN stopOrders' : stopOrders'[other] = stopOrders[other]
  BY <1>1, <1>2, IndexCancelOrder
<1>5. TifOK' /\ DepthOK'
  BY <1>3, <1>4 DEF RestOK, TifOK, DepthOK
<1>6. Fewer(levels', levels) /\ \A other \in DOMAIN submitted : ~Executing(other)
  BY <1>2, <1>3, CancelFewer DEF Executing
<1> QED
  BY <1>3, <1>5, <1>6, RestKeeps

LEMMA RestOthers ==
  ASSUME BaseInv, BaseInv', RestOK,
         SkipStop \/ MassCancel \/ MassCancelDone \/ UNCHANGED vars
  PROVE  RestOK'
<1>1. /\ UNCHANGED <<tape, submitted, orderIndex, levels, stopOrders, taker>>
      /\ (pc' = "match") = (pc = "match")
  BY DEF SkipStop, MassCancel, MassCancelDone, Answer, vars, ghostVars, controlVars, bookVars
<1>2. TifOK' /\ \A id : Executing(id)' <=> Executing(id)
  BY <1>1 DEF RestOK, TifOK, Executing
<1>3. DepthOK'
  <2>1. MatchableDepth(levels, taker)' = MatchableDepth(levels, taker)
    BY <1>1
  <2> QED
    BY <1>1, <2>1 DEF RestOK, DepthOK, IsNotional
<1>4. Fewer(levels', levels)
  BY <1>1 DEF Fewer
<1> QED
  BY <1>1, <1>2, <1>3, <1>4, RestKeeps

LEMMA RestInit == Init => RestOK
<1> SUFFICES ASSUME Init PROVE RestOK
  OBVIOUS
<1>1. levels["buy"] = <<>> /\ submitted = <<>> /\ orderIndex = <<>> /\ stopOrders = <<>>
      /\ pc = "idle"
  BY DEF Init, EmptyLevels, Side
<1> QED
  BY <1>1 DEF RestOK, TifOK, DepthOK, FokAllOrNothing, NeverCrossed

LEMMA RestStep ==
  ASSUME NoFokStops
  PROVE  BaseInv /\ BaseInv' /\ RestOK /\ [Next]_vars => RestOK'
<1> SUFFICES ASSUME BaseInv, BaseInv', RestOK, [Next]_vars PROVE RestOK'
  OBVIOUS
<1>1. CASE EngineStep
  BY <1>1, RestSubmit, RestRejectPostOnly, RestFillBest, RestSettle, RestActivateStop,
     RestCommands, RestOthers DEF EngineStep
<1>2. CASE Command
  BY <1>2, RestSubmit, RestCommands, RestOthers DEF Command
<1>3. CASE UNCHANGED vars
  BY <1>3, RestOthers
<1> QED
  BY <1>1, <1>2, <1>3 DEF Next

\* The best bid is below the best ask in every state (ARCHITECTURE.md:45): what is left of
\* a taker rests only when the loop found no other maker within its limit and none of its
\* own account stands there (matching.rs:8-61, book.rs:213-232).
THEOREM BookStaysUncrossed ==
  ASSUME NoFokStops
  PROVE  Spec => []NeverCrossed
<1>1. RestOK => NeverCrossed
  BY DEF RestOK
<1>2. BaseInv /\ BaseInv' /\ RestOK /\ [Next]_vars => RestOK'
  BY RestStep
<1> QED
  BY <1>1, <1>2, BaseInit, BaseStep, RestInit, PTL DEF Spec

\* A fill-or-kill order that submit lets through (book.rs:172-186) finds its whole
\* quantity, trade by trade, at the makers the depth was counted over: it fills or,
\* post-only, trades nothing, and never rests (ARCHITECTURE.md:43).
THEOREM FillOrKill ==
  ASSUME NoFokStops
  PROVE  Spec => []FokAllOrNothing
<1>1. RestOK => FokAllOrNothing
  BY DEF RestOK
<1>2. BaseInv /\ BaseInv' /\ RestOK /\ [Next]_vars => RestOK'
  BY RestStep
<1> QED
  BY <1>1, <1>2, BaseInit, BaseStep, RestInit, PTL DEF Spec
==============================================================================
