---------------------------- MODULE ActiveProofs ----------------------------
(***************************************************************************)
(* The active orders of the book as a set of records, whatever the levels, *)
(* the index and the stop orders they are kept in: what each step does to  *)
(* that set, and what follows for the histories, for mass cancels and for  *)
(* the open-order limits.                                                  *)
(***************************************************************************)
EXTENDS OrderBookProofs, FiniteSetTheorems

ActiveOrders == Resting(levels) \cup StopsOf(stopOrders)

(***************************************************************************)
(* The orders queued in the levels.                                        *)
(***************************************************************************)

\* An order rests when some queue holds it.
LEMMA RestingQueued ==
  ASSUME NEW book, IsLevels(book), NEW order
  PROVE  order \in Resting(book) <=>
           \E side \in Side : \E price \in Price :
             order \in ToSet(Queue(book, side, price))
<1>1. \A side \in Side : \A price \in DOMAIN book[side] :
        price \in Price /\ Queue(book, side, price) = book[side][price]
  BY DEF IsLevels, IsMap, Queue
<1>2. \A side \in Side : order \in RestingOn(book, side) <=>
        \E price \in DOMAIN book[side] : order \in ToSet(Queue(book, side, price))
  BY <1>1 DEF RestingOn
<1>3. \A side \in Side : \A price \in Price :
        order \in ToSet(Queue(book, side, price)) => price \in DOMAIN book[side]
  BY DEF Queue, ToSet
<1> QED
  BY <1>1, <1>2, <1>3 DEF Resting, Side

\* What a level holds, order by order.
LEMMA QueuedInPlace ==
  ASSUME NEW book, IsLevels(book), NEW index, Agree(book, index),
         NEW side \in Side, NEW price \in Price,
         NEW order \in ToSet(Queue(book, side, price))
  PROVE  /\ order \in Order
         /\ order.side = side /\ order.price = price
         /\ order.remaining > 0
         /\ order.id \in DOMAIN index
         /\ index[order.id] = [side |-> side, price |-> price]
<1> DEFINE queue == Queue(book, side, price)
<1>1. queue \in Seq(Order)
  BY QueueType
<1>2. \A i \in DOMAIN queue : InPlace(queue, i, side, price, index)
  BY DEF Agree
<1> HIDE DEF queue
<1>3. \A i \in DOMAIN queue : queue[i] \in Order
  BY <1>1, LenProperties, ElementOfSeq
<1>4. PICK i \in DOMAIN queue : order = queue[i]
  BY DEF queue, ToSet
<1> QED
  BY <1>2, <1>3, <1>4 DEF InPlace

\* No two places of a level hold orders of one id.
LEMMA QueuedOnce ==
  ASSUME NEW book, NEW index, Agree(book, index), NEW side \in Side, NEW price \in Price,
         NEW i \in DOMAIN Queue(book, side, price),
         NEW j \in DOMAIN Queue(book, side, price),
         Queue(book, side, price)[i].id = Queue(book, side, price)[j].id
  PROVE  i = j
<1>1. InPlace(Queue(book, side, price), i, side, price, index)
  BY DEF Agree
<1> QED
  BY <1>1 DEF InPlace

\* Queued orders are the ones the index knows, one record for each id.
LEMMA RestingIndexed ==
  ASSUME NEW book, IsLevels(book), NEW index, IsMap(index, Nat, Location),
         Agree(book, index)
  PROVE  /\ \A order \in Resting(book) :
              /\ order \in Order
              /\ order.remaining > 0
              /\ order.id \in DOMAIN index
              /\ index[order.id] = [side |-> order.side, price |-> order.price]
         /\ \A one, other \in Resting(book) : one.id = other.id => one = other
         /\ \A id \in DOMAIN index : \E order \in Resting(book) : order.id = id
<1>3. ASSUME NEW order \in Resting(book)
      PROVE  /\ order \in Order
             /\ order.remaining > 0
             /\ order.id \in DOMAIN index
             /\ index[order.id] = [side |-> order.side, price |-> order.price]
  <2>1. PICK side \in Side, price \in Price : order \in ToSet(Queue(book, side, price))
    BY RestingQueued
  <2>2. /\ order \in Order
        /\ order.side = side /\ order.price = price
        /\ order.remaining > 0
        /\ order.id \in DOMAIN index
        /\ index[order.id] = [side |-> side, price |-> price]
    BY <2>1, QueuedInPlace
  <2> QED
    BY <2>2
<1>4. ASSUME NEW one \in Resting(book), NEW other \in Resting(book), one.id = other.id
      PROVE  one = other
  <2>1. PICK s1 \in Side, p1 \in Price : one \in ToSet(Queue(book, s1, p1))
    BY RestingQueued
  <2>2. PICK s2 \in Side, p2 \in Price : other \in ToSet(Queue(book, s2, p2))
    BY RestingQueued
  <2>3. index[one.id] = [side |-> s1, price |-> p1]
    BY <2>1, QueuedInPlace
  <2>4. index[other.id] = [side |-> s2, price |-> p2]
    BY <2>2, QueuedInPlace
  <2>5. s1 = s2 /\ p1 = p2
    BY <1>4, <2>3, <2>4
  <2> QED
    BY <1>4, <2>1, <2>2, <2>5, QueuedOnce DEF ToSet
<1>5. ASSUME NEW id \in DOMAIN index
      PROVE  \E order \in Resting(book) : order.id = id
  <2>1. index[id].side \in Side /\ index[id].price \in Price
    BY DEF IsMap, Location
  <2>2. \E order \in ToSet(Queue(book, index[id].side, index[id].price)) : order.id = id
    BY DEF Agree, ToSet
  <2> QED
    BY <2>1, <2>2, RestingQueued
<1> QED
  BY <1>3, <1>4, <1>5

\* A level holds the resting orders of its side and price.
LEMMA RestingOfLevel ==
  ASSUME NEW book, IsLevels(book), NEW index, IsMap(index, Nat, Location),
         Agree(book, index), NEW side \in Side, NEW price \in Price
  PROVE  ToSet(Queue(book, side, price))
           = {order \in Resting(book) : order.side = side /\ order.price = price}
<1>1. \A s \in Side : \A p \in Price : \A order \in ToSet(Queue(book, s, p)) :
        order.side = s /\ order.price = p
  <2> TAKE s \in Side
  <2> TAKE p \in Price
  <2> TAKE order \in ToSet(Queue(book, s, p))
  <2>1. /\ order \in Order
        /\ order.side = s /\ order.price = p
        /\ order.remaining > 0
        /\ order.id \in DOMAIN index
        /\ index[order.id] = [side |-> s, price |-> p]
    BY QueuedInPlace
  <2> QED
    BY <2>1
<1> QED
  BY <1>1, RestingQueued

\* Setting one queue leaves the orders of the other levels.
LEMMA RestingSetQueue ==
  ASSUME NEW book, IsLevels(book), NEW index, IsMap(index, Nat, Location),
         Agree(book, index), NEW side \in Side, NEW price \in Price,
         NEW queue \in Seq(Order)
  PROVE  Resting(SetQueue(book, side, price, queue))
           = {order \in Resting(book) : ~(order.side = side /\ order.price = price)}
               \cup ToSet(queue)
<1> DEFINE after == SetQueue(book, side, price, queue)
<1>1. \A s \in Side : \A p \in Price :
        Queue(after, s, p) = IF s = side /\ p = price THEN queue ELSE Queue(book, s, p)
  BY SetQueueLookup DEF Agree
<1>2. IsLevels(after)
  BY SetQueueType
<1> HIDE DEF after
<1>3. \A s \in Side : \A p \in Price : \A order \in ToSet(Queue(book, s, p)) :
        order.side = s /\ order.price = p
  <2> TAKE s \in Side
  <2> TAKE p \in Price
  <2> TAKE order \in ToSet(Queue(book, s, p))
  <2>1. /\ order \in Order
        /\ order.side = s /\ order.price = p
        /\ order.remaining > 0
        /\ order.id \in DOMAIN index
        /\ index[order.id] = [side |-> s, price |-> p]
    BY QueuedInPlace
  <2> QED
    BY <2>1
<1>4. ASSUME NEW order
      PROVE  order \in Resting(after) <=>
               \/ order \in ToSet(queue)
               \/ order \in Resting(book) /\ ~(order.side = side /\ order.price = price)
  <2>1. order \in Resting(after) <=>
          \E s \in Side : \E p \in Price : order \in ToSet(Queue(after, s, p))
    BY <1>2, RestingQueued
  <2>2. order \in Resting(book) <=>
          \E s \in Side : \E p \in Price : order \in ToSet(Queue(book, s, p))
    BY RestingQueued
  <2> QED
    BY <1>1, <1>3, <2>1, <2>2
<1> QED
  BY <1>4 DEF after

LEMMA RestingPush ==
  ASSUME NEW book, IsLevels(book), NEW index, IsMap(index, Nat, Location),
         Agree(book, index), NEW order \in Order, order.price \in Price
  PROVE  Resting(Push(book, order)) = Resting(book) \cup {order}
<1> DEFINE queue == Queue(book, order.side, order.price)
<1>1. order.side \in Side
  BY DEF Order
<1>2. queue \in Seq(Order) /\ Append(queue, order) \in Seq(Order)
  BY <1>1, QueueType, AppendProperties
<1>3. ToSet(queue) = {other \in Resting(book) : /\ other.side = order.side
                                                /\ other.price = order.price}
  BY <1>1, RestingOfLevel
<1> HIDE DEF queue
<1>4. ToSet(Append(queue, order)) = ToSet(queue) \cup {order}
  BY <1>2, AppendProperties, LenProperties DEF ToSet
<1> DEFINE longer == Append(queue, order)
<1>5. Resting(SetQueue(book, order.side, order.price, longer))
        = {other \in Resting(book) : ~(other.side = order.side /\ other.price = order.price)}
            \cup ToSet(longer)
  <2> HIDE DEF longer
  <2>1. longer \in Seq(Order)
    BY <1>2 DEF longer
  <2> QED
    BY <1>1, <2>1, RestingSetQueue
<1> QED
  BY <1>3, <1>4, <1>5 DEF Push, queue

LEMMA RestingRemove ==
  ASSUME NEW book, IsLevels(book), NEW index, IsMap(index, Nat, Location),
         Agree(book, index), NEW side \in Side, NEW price \in Price,
         NEW place \in DOMAIN Queue(book, side, price)
  PROVE  /\ Queue(book, side, price)[place] \in Resting(book)
         /\ Resting(SetQueue(book, side, price, RemoveAt(Queue(book, side, price), place)))
              = Resting(book) \ {Queue(book, side, price)[place]}
<1> DEFINE queue == Queue(book, side, price)
           shorter == RemoveAt(queue, place)
<1>1. queue \in Seq(Order)
  BY QueueType
<1>2. DOMAIN queue = 1..Len(queue) /\ Len(queue) \in Nat /\ place \in 1..Len(queue)
  BY <1>1, LenProperties
<1>3. /\ shorter \in Seq(Order)
      /\ DOMAIN shorter = 1..(Len(queue) - 1)
      /\ \A k \in 1..(Len(queue) - 1) :
           shorter[k] = IF k < place THEN queue[k] ELSE queue[k + 1]
  BY <1>1, <1>2, RemoveAtProperties, LenProperties
<1>4. ToSet(queue) = {order \in Resting(book) : order.side = side /\ order.price = price}
  BY RestingOfLevel
<1>5. \A i \in DOMAIN queue : \A j \in DOMAIN queue : queue[i].id = queue[j].id => i = j
  BY QueuedOnce
<1>6. Resting(SetQueue(book, side, price, shorter))
        = {order \in Resting(book) : ~(order.side = side /\ order.price = price)}
            \cup ToSet(shorter)
  BY <1>3, RestingSetQueue
<1> HIDE DEF queue, shorter
<1>7. ToSet(shorter) = ToSet(queue) \ {queue[place]}
  <2>1. \A k \in DOMAIN shorter : \E i \in DOMAIN queue : i # place /\ shorter[k] = queue[i]
    <3> TAKE k \in DOMAIN shorter
    <3>1. CASE k < place
      BY <3>1, <1>2, <1>3
    <3>2. CASE ~(k < place)
      <4>1. k + 1 \in DOMAIN queue /\ k + 1 # place /\ shorter[k] = queue[k + 1]
        BY <3>2, <1>2, <1>3
      <4> QED
        BY <4>1
    <3> QED
      BY <3>1, <3>2
  <2>2. \A i \in DOMAIN queue : i # place => \E k \in DOMAIN shorter : shorter[k] = queue[i]
    <3> SUFFICES ASSUME NEW i \in DOMAIN queue, i # place
                 PROVE  \E k \in DOMAIN shorter : shorter[k] = queue[i]
      OBVIOUS
    <3>1. CASE i < place
      <4>1. i \in DOMAIN shorter /\ shorter[i] = queue[i]
        BY <3>1, <1>2, <1>3
      <4> QED
        BY <4>1
    <3>2. CASE ~(i < place)
      <4>1. i - 1 \in DOMAIN shorter /\ shorter[i - 1] = queue[(i - 1) + 1] /\ (i - 1) + 1 = i
        BY <3>2, <1>2, <1>3
      <4> QED
        BY <4>1
    <3> QED
      BY <3>1, <3>2
  <2>3. \A i \in DOMAIN queue : i # place => queue[i] # queue[place]
    BY <1>2, <1>5
  <2> QED
    BY <2>1, <2>2, <2>3 DEF ToSet
<1>8. queue[place] \in ToSet(queue)
  BY <1>2 DEF ToSet
<1>9. queue[place] \in Resting(book)
  BY <1>4, <1>8
<1>10. Resting(SetQueue(book, side, price, shorter)) = Resting(book) \ {queue[place]}
  BY <1>4, <1>6, <1>7, <1>8
<1> QED
  BY <1>9, <1>10 DEF queue, shorter

LEMMA RestingReduce ==
  ASSUME NEW book, IsLevels(book), NEW index, IsMap(index, Nat, Location),
         Agree(book, index), NEW side \in Side, NEW price \in Price,
         NEW place \in DOMAIN Queue(book, side, price), NEW left \in Nat
  PROVE  LET queue == Queue(book, side, price)
         IN  Resting(SetQueue(book, side, price, [queue EXCEPT ![place].remaining = left]))
               = (Resting(book) \ {queue[place]})
                   \cup {[queue[place] EXCEPT !.remaining = left]}
<1> DEFINE queue == Queue(book, side, price)
           reduced == [queue EXCEPT ![place].remaining = left]
           after == [queue[place] EXCEPT !.remaining = left]
<1>1. queue \in Seq(Order)
  BY QueueType
<1>2. DOMAIN queue = 1..Len(queue) /\ place \in 1..Len(queue)
  BY <1>1, LenProperties
<1>3. queue[place] \in Order
  BY <1>1, <1>2, ElementOfSeq
<1>4. ToSet(queue) = {order \in Resting(book) : order.side = side /\ order.price = price}
  BY RestingOfLevel
<1>5. \A i \in DOMAIN queue : \A j \in DOMAIN queue : queue[i].id = queue[j].id => i = j
  BY QueuedOnce
<1> HIDE DEF queue
<1>6. reduced = [queue EXCEPT ![place] = after] /\ after \in Order
  BY <1>2, <1>3 DEF Order
<1>7. reduced \in Seq(Order)
  BY <1>1, <1>2, <1>6, ExceptSeq
<1> HIDE DEF after
<1>8. /\ DOMAIN reduced = DOMAIN queue
      /\ \A i \in DOMAIN queue : reduced[i] = IF i = place THEN after ELSE queue[i]
  BY <1>6
<1> HIDE DEF reduced
<1>9. \A i \in DOMAIN queue : i # place => queue[i] # queue[place]
  BY <1>2, <1>5
<1>10. ToSet(reduced) = (ToSet(queue) \ {queue[place]}) \cup {after}
  BY <1>2, <1>8, <1>9 DEF ToSet
<1>11. Resting(SetQueue(book, side, price, reduced))
         = {order \in Resting(book) : ~(order.side = side /\ order.price = price)}
             \cup ToSet(reduced)
  BY <1>7, RestingSetQueue
<1>12. queue[place] \in ToSet(queue)
  BY <1>2 DEF ToSet
<1>13. Resting(SetQueue(book, side, price, reduced))
         = (Resting(book) \ {queue[place]}) \cup {after}
  BY <1>4, <1>10, <1>11, <1>12
<1> QED
  BY <1>13 DEF queue, reduced, after

(***************************************************************************)
(* What each step does to the active orders.                               *)
(***************************************************************************)

\* The active orders have the active ids, one record for each.
ActiveOK ==
  /\ \A order \in ActiveOrders : order \in Order
  /\ ActiveIds = {order.id : order \in ActiveOrders}
  /\ \A one, other \in ActiveOrders : one.id = other.id => one = other

LEMMA ActiveUnique == IndexInv => ActiveOK
<1> SUFFICES ASSUME IndexInv PROVE ActiveOK
  OBVIOUS
<1>1. /\ IsLevels(levels) /\ IsMap(orderIndex, Nat, Location)
      /\ Agree(levels, orderIndex)
  BY DEF IndexInv, IndexOK, TypeInv, TypeOK
<1>2. /\ \A order \in Resting(levels) : order \in Order /\ order.id \in DOMAIN orderIndex
      /\ \A one, other \in Resting(levels) : one.id = other.id => one = other
      /\ \A id \in DOMAIN orderIndex : \E order \in Resting(levels) : order.id = id
  BY <1>1, RestingIndexed
<1>3. \A id \in DOMAIN stopOrders :
        stopOrders[id] \in Order /\ stopOrders[id].id = id /\ id \notin DOMAIN orderIndex
  BY DEF IndexInv, IndexOK, StopsApart, TypeInv, TypeOK, IsMap
<1>4. \A order \in StopsOf(stopOrders) :
        /\ order \in Order
        /\ order.id \in DOMAIN stopOrders /\ order = stopOrders[order.id]
        /\ order.id \notin DOMAIN orderIndex
  BY <1>3 DEF StopsOf
<1>5. \A order \in ActiveOrders : order \in Order
  BY <1>2, <1>4 DEF ActiveOrders
<1>6. ActiveIds = {order.id : order \in ActiveOrders}
  <2>1. \A id \in DOMAIN stopOrders : \E order \in StopsOf(stopOrders) : order.id = id
    BY <1>3 DEF StopsOf
  <2> QED
    BY <1>2, <1>4, <2>1 DEF ActiveOrders, ActiveIds
<1>7. \A one, other \in ActiveOrders : one.id = other.id => one = other
  BY <1>2, <1>4 DEF ActiveOrders
<1> QED
  BY <1>5, <1>6, <1>7 DEF ActiveOK

LEMMA ActiveStill ==
  ASSUME UNCHANGED bookVars
  PROVE  ActiveOrders' = ActiveOrders /\ ActiveIds' = ActiveIds
BY DEF bookVars, ActiveOrders, ActiveIds

\* A stop order joins the active ones; its id is new.
LEMMA ActiveAcceptStop ==
  ASSUME IndexInv, NEW req \in Requests, AcceptStop(req)
  PROVE  ActiveOrders' = ActiveOrders \cup {Incoming(req)}
<1>1. nextOrderId \notin DOMAIN stopOrders
  <2>1. nextOrderId \in Nat /\ ActiveIds \subseteq Nat /\ \A id \in ActiveIds : id < nextOrderId
    BY DEF IndexInv, IndexOK, TypeInv, TypeOK, ActiveIds, IsMap
  <2> QED
    BY <2>1 DEF ActiveIds
<1>2. levels' = levels /\ stopOrders' = Put(stopOrders, nextOrderId, Incoming(req))
  BY DEF AcceptStop
<1>3. StopsOf(stopOrders') = StopsOf(stopOrders) \cup {Incoming(req)}
  BY <1>1, <1>2 DEF StopsOf, Put
<1> QED
  BY <1>2, <1>3 DEF ActiveOrders

\* A trade takes from one queued order, which leaves when nothing is left of it.
LEMMA ActiveFillBest ==
  ASSUME IndexInv, FillBest
  PROVE  /\ BestMaker \in Resting(levels)
         /\ BestMaker \in ActiveOrders
         /\ Resting(levels)' =
              (Resting(levels) \ {BestMaker}) \cup
                (IF BestMaker.remaining = NextAmount THEN {}
                 ELSE {[BestMaker EXCEPT !.remaining = BestMaker.remaining - NextAmount]})
         /\ ActiveOrders' =
              (ActiveOrders \ {BestMaker}) \cup
                (IF BestMaker.remaining = NextAmount THEN {}
                 ELSE {[BestMaker EXCEPT !.remaining = BestMaker.remaining - NextAmount]})
<1>1. pc = "match" /\ CanTrade /\ TypeInv
  BY DEF FillBest, IndexInv
<1>2. /\ MakerSide \in Side
      /\ BestPrice \in DOMAIN levels[MakerSide]
      /\ BestPrice \in Price
      /\ BestPlace \in DOMAIN levels[MakerSide][BestPrice]
      /\ BestMaker \in Order
      /\ NextAmount \in Nat /\ NextAmount <= BestMaker.remaining
      /\ IsLevels(levels) /\ IsMap(orderIndex, Nat, Location)
      /\ Agree(levels, orderIndex)
  BY <1>1, NextTradeType DEF TypeInv, TypeOK, IndexInv, IndexOK
<1> DEFINE queue == Queue(levels, MakerSide, BestPrice)
           left == BestMaker.remaining - NextAmount
<1>3. queue = levels[MakerSide][BestPrice] /\ queue[BestPlace] = BestMaker
  BY <1>2 DEF Queue, BestMaker
<1>4. left \in Nat /\ (left = 0 <=> BestMaker.remaining = NextAmount)
  BY <1>2 DEF Order
<1>5. /\ levels' = SetQueue(levels, MakerSide, BestPrice,
                            IF left = 0 THEN RemoveAt(queue, BestPlace)
                                        ELSE [queue EXCEPT ![BestPlace].remaining = left])
      /\ stopOrders' = stopOrders
  BY <1>3 DEF FillBest, Deplete, BestMaker
<1>6. /\ queue[BestPlace] \in Resting(levels)
      /\ Resting(SetQueue(levels, MakerSide, BestPrice, RemoveAt(queue, BestPlace)))
           = Resting(levels) \ {queue[BestPlace]}
  BY <1>2, <1>3, RestingRemove
<1>7. Resting(SetQueue(levels, MakerSide, BestPrice,
                       [queue EXCEPT ![BestPlace].remaining = left]))
        = (Resting(levels) \ {queue[BestPlace]})
            \cup {[queue[BestPlace] EXCEPT !.remaining = left]}
  <2> HIDE DEF left
  <2> QED
    BY <1>2, <1>3, <1>4, RestingReduce
<1> HIDE DEF queue, left
<1>8. Resting(levels') = (Resting(levels) \ {BestMaker}) \cup
        (IF left = 0 THEN {} ELSE {[BestMaker EXCEPT !.remaining = left]})
  BY <1>3, <1>5, <1>6, <1>7
<1>9. BestMaker \notin StopsOf(stopOrders)
  <2>1. BestMaker.id \in DOMAIN orderIndex
    BY <1>2, <1>3, <1>6, RestingIndexed
  <2> QED
    BY <2>1 DEF IndexInv, IndexOK, StopsApart, StopsOf
<1> QED
  BY <1>3, <1>4, <1>5, <1>6, <1>8, <1>9 DEF ActiveOrders, left

\* What is left of the executing order joins the active ones if it may rest.
LEMMA ActiveSettle ==
  ASSUME IndexInv, Settle
  PROVE  ActiveOrders' = ActiveOrders \cup (IF Rests(levels, taker) THEN {taker} ELSE {})
<1>1. /\ pc = "match" /\ TypeInv /\ stopOrders' = stopOrders
      /\ taker \in Order /\ IsLevels(levels) /\ IsMap(orderIndex, Nat, Location)
      /\ Agree(levels, orderIndex)
  BY DEF Settle, IndexInv, IndexOK, TypeInv, TypeOK
<1>2. CASE Rests(levels, taker)
  <2>1. levels' = Push(levels, taker) /\ taker.price \in Price
    BY <1>1, <1>2, RestingHasPrice DEF Settle
  <2>2. Resting(Push(levels, taker)) = Resting(levels) \cup {taker}
    BY <1>1, <2>1, RestingPush
  <2> QED
    BY <1>1, <1>2, <2>1, <2>2 DEF ActiveOrders
<1>3. CASE ~Rests(levels, taker)
  BY <1>1, <1>3 DEF Settle, ActiveOrders
<1> QED
  BY <1>2, <1>3

LEMMA ActiveActivateStop ==
  ASSUME IndexInv, ActivateStop
  PROVE  /\ stopOrders[NextTriggered] \in ActiveOrders
         /\ stopOrders[NextTriggered].id = NextTriggered
         /\ ActiveOrders' = ActiveOrders \ {stopOrders[NextTriggered]}
<1>1. /\ NextTriggered \in DOMAIN stopOrders /\ levels' = levels
      /\ stopOrders' = Without(stopOrders, NextTriggered)
      /\ IsLevels(levels) /\ IsMap(orderIndex, Nat, Location)
      /\ Agree(levels, orderIndex)
  BY DEF ActivateStop, IndexInv, IndexOK, TypeInv, TypeOK
<1>2. \A id \in DOMAIN stopOrders : stopOrders[id].id = id /\ id \notin DOMAIN orderIndex
  BY DEF IndexInv, IndexOK, StopsApart
<1>3. StopsOf(stopOrders') = StopsOf(stopOrders) \ {stopOrders[NextTriggered]}
  BY <1>1, <1>2 DEF StopsOf, Without, Restrict
<1>4. stopOrders[NextTriggered] \notin Resting(levels)
  <2>1. \A order \in Resting(levels) : order.id \in DOMAIN orderIndex
    BY <1>1, RestingIndexed
  <2> QED
    BY <1>1, <1>2, <2>1
<1> QED
  BY <1>1, <1>2, <1>3, <1>4 DEF ActiveOrders, StopsOf

\* cancel(id) finds one order, takes it out and records that it is cancelled.
LEMMA ActiveCancelOrder ==
  ASSUME IndexInv, NEW id \in ActiveIds, CancelOrder(id)
  PROVE  \E order \in ActiveOrders :
           /\ order.id = id
           /\ Cancelled(id) = {order}
           /\ ActiveOrders' = ActiveOrders \ {order}
           /\ history' = RecordStatus(history, sequence + 1, order, "cancelled")
<1>1. /\ IsLevels(levels) /\ IsMap(orderIndex, Nat, Location)
      /\ Agree(levels, orderIndex)
  BY DEF IndexInv, IndexOK, TypeInv, TypeOK
<1>2. \A other \in DOMAIN stopOrders :
        stopOrders[other].id = other /\ other \notin DOMAIN orderIndex
  BY DEF IndexInv, IndexOK, StopsApart
<1>3. ASSUME NEW order, Cancelled(id) = {order}
      PROVE  history' = RecordStatus(history, sequence + 1, order, "cancelled")
  BY <1>3 DEF CancelOrder
<1>4. CASE id \in DOMAIN orderIndex
  <2> DEFINE side == orderIndex[id].side
             price == orderIndex[id].price
             queue == Queue(levels, side, price)
             place == PositionOf(queue, id)
  <2>1. side \in Side /\ price \in Price
    BY <1>1, <1>4 DEF IsMap, Location
  <2>2. queue \in Seq(Order) /\ DOMAIN queue = 1..Len(queue)
    BY <1>1, <2>1, QueueType, LenProperties
  <2>3. \E i \in DOMAIN queue : queue[i].id = id
    BY <1>1, <1>4 DEF Agree
  <2> HIDE DEF side, price, queue
  <2>4. place \in DOMAIN queue /\ queue[place].id = id /\ place # 0
    BY <2>2, <2>3, PositionOfFound
  <2>5. /\ levels' = RemoveFromLevel(levels, side, price, id)
        /\ stopOrders' = stopOrders
    BY <1>4 DEF CancelOrder, side, price
  <2>6. levels' = SetQueue(levels, side, price, RemoveAt(queue, place))
    BY <2>4, <2>5 DEF RemoveFromLevel, queue
  <2> HIDE DEF place
  <2>7. queue[place] \in Resting(levels) /\ Resting(levels') = Resting(levels) \ {queue[place]}
    BY <1>1, <2>1, <2>4, <2>6, RestingRemove DEF queue
  <2>8. Cancelled(id) = {queue[place]}
    <3>1. Cancelled(id) = {queue[i] : i \in {place} \ {0}}
      BY <1>4 DEF Cancelled, queue, side, price, place
    <3> QED
      BY <2>4, <3>1
  <2>9. queue[place] \notin StopsOf(stopOrders)
    BY <1>2, <1>4, <2>4 DEF StopsOf
  <2>10. ActiveOrders' = ActiveOrders \ {queue[place]}
    BY <2>5, <2>7, <2>9 DEF ActiveOrders
  <2> QED
    BY <1>3, <2>4, <2>7, <2>8, <2>10 DEF ActiveOrders
<1>5. CASE id \notin DOMAIN orderIndex
  <2>1. id \in DOMAIN stopOrders
    BY <1>5 DEF ActiveIds
  <2>2. Cancelled(id) = {stopOrders[id]}
    BY <1>5 DEF Cancelled
  <2>3. levels' = levels /\ stopOrders' = Without(stopOrders, id)
    BY <1>5 DEF CancelOrder
  <2>4. StopsOf(stopOrders') = StopsOf(stopOrders) \ {stopOrders[id]}
    BY <1>2, <2>1, <2>3 DEF StopsOf, Without, Restrict
  <2>5. stopOrders[id] \notin Resting(levels)
    <3>1. \A order \in Resting(levels) : order.id \in DOMAIN orderIndex
      BY <1>1, RestingIndexed
    <3> QED
      BY <1>2, <2>1, <3>1
  <2>6. ActiveOrders' = ActiveOrders \ {stopOrders[id]}
    BY <2>3, <2>4, <2>5 DEF ActiveOrders
  <2> QED
    BY <1>2, <1>3, <2>1, <2>2, <2>6 DEF ActiveOrders, StopsOf
<1> QED
  BY <1>4, <1>5

(***************************************************************************)
(* Histories.                                                              *)
(***************************************************************************)

\* An order the book can still do something to.
Live(id) == id \in ActiveIds \/ Executing(id)

\* What HistoryTracksBook needs to be inductive: only ids handed out have a
\* history, and the history of an order that is gone does not end resting.
HistoryOK ==
  /\ \A id \in DOMAIN history : id < nextOrderId /\ history[id] # <<>>
  /\ HistoryTracksBook
  /\ \A id \in DOMAIN history : ~Live(id) => Last(history[id]).status # "resting"

HistoryInv == IndexInv /\ HistoryOK

\* The step ClosedOrdersFrozen allows.
Frozen == \A id \in DOMAIN history : ~Live(id) => history'[id] = history[id]

\* `after' is `before' with one more entry about `id', of that status and quantity.
Records(before, after, id, status, remaining) ==
  /\ DOMAIN after = DOMAIN before \cup {id}
  /\ after[id] # <<>>
  /\ Last(after[id]).status = status
  /\ Last(after[id]).remaining = remaining
  /\ \A x \in DOMAIN before \ {id} : after[x] = before[x]

LEMMA RecordLast ==
  ASSUME NEW book, IsMap(book, Nat, Seq(HistoryEntry)), NEW id, NEW entry \in HistoryEntry
  PROVE  Records(book, Record(book, id, entry), id, entry.status, entry.remaining)
<1>1. CASE id \in DOMAIN book
  <2>1. book[id] \in Seq(HistoryEntry)
    BY <1>1 DEF IsMap
  <2>2. /\ Append(book[id], entry) # <<>>
        /\ Last(Append(book[id], entry)) = entry
    BY <2>1, AppendProperties, LenProperties DEF Last
  <2> QED
    BY <1>1, <2>2 DEF Record, Records
<1>2. CASE id \notin DOMAIN book
  <2>1. Last(<<entry>>) = entry
    BY DEF Last
  <2> QED
    BY <1>2, <2>1 DEF Record, Records
<1> QED
  BY <1>1, <1>2

LEMMA RecordStatusLast ==
  ASSUME NEW book, IsMap(book, Nat, Seq(HistoryEntry)), NEW seq \in Nat,
         NEW order \in Order, NEW status \in OrderStatus
  PROVE  Records(book, RecordStatus(book, seq, order, status),
                 order.id, status, order.remaining)
<1> DEFINE entry == Entry(seq, status, order.remaining)
<1>1. entry \in HistoryEntry /\ entry.status = status /\ entry.remaining = order.remaining
  BY DEF Entry, HistoryEntry, Order
<1>2. RecordStatus(book, seq, order, status) = Record(book, order.id, entry)
  BY DEF RecordStatus
<1> HIDE DEF entry
<1>3. Records(book, Record(book, order.id, entry), order.id, entry.status, entry.remaining)
  BY <1>1, RecordLast
<1> QED
  BY <1>1, <1>2, <1>3

\* A step that records about one live or new order only.
LEMMA HistoryRecord ==
  ASSUME HistoryInv, IndexInv', NEW id, NEW status, NEW remaining,
         Records(history, history', id, status, remaining),
         Live(id) \/ id \notin DOMAIN history,
         nextOrderId \in Nat, nextOrderId' \in Nat, nextOrderId' >= nextOrderId,
         id < nextOrderId',
         \A order \in ActiveOrders' : order.id # id => order \in ActiveOrders,
         \A order \in ActiveOrders' : order.id = id =>
           status \in {"resting", "partially_filled"} /\ remaining = order.remaining,
         status # "resting" \/ id \in ActiveIds',
         \A x : x # id /\ Live(x) => Live(x)'
  PROVE  HistoryInv' /\ Frozen
<1>0. /\ DOMAIN history' = DOMAIN history \cup {id} /\ history'[id] # <<>>
      /\ Last(history'[id]).status = status
      /\ Last(history'[id]).remaining = remaining
      /\ \A x \in DOMAIN history \ {id} : history'[x] = history[x]
  BY DEF Records
<1>1. \A x \in DOMAIN history : x \in Nat
  BY DEF HistoryInv, IndexInv, TypeInv, TypeOK, IsMap
<1>2. \A x \in DOMAIN history' : x < nextOrderId' /\ history'[x] # <<>>
  BY <1>0, <1>1 DEF HistoryInv, HistoryOK
<1>3. \A order \in ActiveOrders' :
        /\ order.id \in DOMAIN history'
        /\ Last(history'[order.id]).status \in {"resting", "partially_filled"}
        /\ Last(history'[order.id]).remaining = order.remaining
  <2> TAKE order \in ActiveOrders'
  <2>1. CASE order.id = id
    BY <1>0, <2>1
  <2>2. CASE order.id # id
    <3>1. order \in ActiveOrders
      BY <2>2
    <3>2. /\ order.id \in DOMAIN history
          /\ Last(history[order.id]).status \in {"resting", "partially_filled"}
          /\ Last(history[order.id]).remaining = order.remaining
      BY <3>1 DEF HistoryInv, HistoryOK, HistoryTracksBook, ActiveOrders
    <3> QED
      BY <1>0, <2>2, <3>2
  <2> QED
    BY <2>1, <2>2
<1>4. HistoryTracksBook'
  BY <1>3 DEF HistoryTracksBook, ActiveOrders
<1>5. \A x \in DOMAIN history' : ~Live(x)' => Last(history'[x]).status # "resting"
  <2> TAKE x \in DOMAIN history'
  <2>1. CASE x = id
    BY <1>0, <2>1 DEF Live
  <2>2. CASE x # id
    BY <1>0, <2>2 DEF HistoryInv, HistoryOK
  <2> QED
    BY <2>1, <2>2
<1>6. Frozen
  BY <1>0 DEF Frozen
<1> QED
  BY <1>2, <1>4, <1>5, <1>6 DEF HistoryInv, HistoryOK

\* A step that records nothing; a triggered stop goes from active to executing.
LEMMA HistoryStill ==
  ASSUME HistoryInv, IndexInv', history' = history, nextOrderId' = nextOrderId,
         ActiveOrders' \subseteq ActiveOrders,
         \A id \in DOMAIN history : Live(id) => Live(id)'
  PROVE  HistoryInv' /\ Frozen
<1>1. HistoryTracksBook'
  BY DEF HistoryInv, HistoryOK, HistoryTracksBook, ActiveOrders
<1> QED
  BY <1>1 DEF HistoryInv, HistoryOK, Frozen

LEMMA HistoryInit == Init => HistoryInv
BY IndexInit
   DEF Init, HistoryInv, HistoryOK, HistoryTracksBook, Resting, RestingOn, EmptyLevels,
       StopsOf, Side
\* What a submission records, all about the id it hands out.
LEMMA SubmitRecords ==
  ASSUME HistoryInv, NEW req \in Requests, NEW status \in OrderStatus,
         \/ AcceptAs(req, status)
         \/ history' = RecordStatus(history, sequence + 1, Incoming(req), status)
  PROVE  Records(history, history', nextOrderId, status, Incoming(req).remaining)
<1>1. /\ IsMap(history, Nat, Seq(HistoryEntry)) /\ sequence + 1 \in Nat
      /\ Incoming(req) \in Order /\ Incoming(req).id = nextOrderId
      /\ "accepted" \in OrderStatus
  BY IncomingType DEF HistoryInv, IndexInv, TypeInv, TypeOK, OrderStatus
<1>2. CASE history' = RecordStatus(history, sequence + 1, Incoming(req), status)
  <2>1. Records(history, RecordStatus(history, sequence + 1, Incoming(req), status),
                Incoming(req).id, status, Incoming(req).remaining)
    BY <1>1, RecordStatusLast
  <2> QED
    BY <1>1, <1>2, <2>1
<1>3. CASE AcceptAs(req, status)
  <2> DEFINE once == RecordStatus(history, sequence + 1, Incoming(req), "accepted")
  <2>1. /\ IsMap(once, Nat, Seq(HistoryEntry))
        /\ Records(history, once, Incoming(req).id, "accepted", Incoming(req).remaining)
    BY <1>1, RecordStatusType, RecordStatusLast
  <2>2. history' = RecordStatus(once, sequence + 1, Incoming(req), status)
    BY <1>3 DEF AcceptAs
  <2> HIDE DEF once
  <2>3. Records(once, history', Incoming(req).id, status, Incoming(req).remaining)
    BY <1>1, <2>1, <2>2, RecordStatusLast
  <2> QED
    BY <1>1, <2>1, <2>3 DEF Records
<1> QED
  BY <1>2, <1>3

LEMMA HistorySubmit ==
  ASSUME HistoryInv, NEW req \in Requests, Submit(req)
  PROVE  HistoryInv' /\ Frozen
<1>1. /\ IndexInv /\ IndexInv' /\ pc \in {"idle", "replace"}
      /\ nextOrderId \in Nat /\ nextOrderId' = nextOrderId + 1
      /\ Incoming(req) \in Order /\ Incoming(req).id = nextOrderId
  BY IndexSubmit, IncomingType
     DEF HistoryInv, IndexInv, TypeInv, TypeOK, Submit, RejectInvalid, AcceptStop,
         RejectFok, BeginExecution, Create
<1>2. nextOrderId \notin DOMAIN history
  BY <1>1 DEF HistoryInv, HistoryOK
<1>3. nextOrderId < nextOrderId' /\ nextOrderId' \in Nat /\ nextOrderId' >= nextOrderId
  BY <1>1
<1>4. \A x : Live(x) => x \in ActiveIds
  BY <1>1 DEF Live, Executing
<1>5. \A order \in ActiveOrders : order.id # nextOrderId
  BY <1>1, ActiveUnique DEF ActiveOK, IndexInv, IndexOK
<1>6. CASE RejectInvalid(req) \/ RejectFok(req)
  <2>1. UNCHANGED bookVars
    BY <1>6 DEF RejectInvalid, RejectFok
  <2>2. \/ AcceptAs(req, "rejected")
        \/ history' = RecordStatus(history, sequence + 1, Incoming(req), "rejected")
    BY <1>6 DEF RejectInvalid, RejectFok
  <2>3. Records(history, history', nextOrderId, "rejected", Incoming(req).remaining)
    BY <2>2, SubmitRecords DEF OrderStatus
  <2>4. ActiveOrders' = ActiveOrders /\ ActiveIds' = ActiveIds
    BY <2>1, ActiveStill
  <2>5. \A x : Live(x) => Live(x)'
    BY <1>4, <2>4 DEF Live
  <2> QED
    BY <1>1, <1>2, <1>3, <1>5, <2>3, <2>4, <2>5, HistoryRecord
<1>7. CASE AcceptStop(req)
  <2>1. Records(history, history', nextOrderId, "resting", Incoming(req).remaining)
    BY <1>7, SubmitRecords DEF AcceptStop, OrderStatus
  <2>2. ActiveOrders' = ActiveOrders \cup {Incoming(req)}
    BY <1>1, <1>7, ActiveAcceptStop
  <2>3. ActiveIds \subseteq ActiveIds' /\ nextOrderId \in ActiveIds'
    <3>1. ActiveOK
      BY <1>1, ActiveUnique
    <3>2. ActiveOK'
      BY <1>1, ActiveUnique, PTL
    <3> QED
      BY <1>1, <2>2, <3>1, <3>2 DEF ActiveOK
  <2>4. \A x : Live(x) => Live(x)'
    BY <1>4, <2>3 DEF Live
  <2> QED
    BY <1>1, <1>2, <1>3, <1>5, <2>1, <2>2, <2>3, <2>4, HistoryRecord
<1>8. CASE BeginExecution(req)
  <2>1. UNCHANGED bookVars
    BY <1>8 DEF BeginExecution
  <2>2. Records(history, history', nextOrderId, "accepted", Incoming(req).remaining)
    BY <1>8, SubmitRecords DEF BeginExecution, OrderStatus
  <2>3. ActiveOrders' = ActiveOrders /\ ActiveIds' = ActiveIds
    BY <2>1, ActiveStill
  <2>4. \A x : Live(x) => Live(x)'
    BY <1>4, <2>3 DEF Live
  <2> QED
    BY <1>1, <1>2, <1>3, <1>5, <2>2, <2>3, <2>4, HistoryRecord
<1> QED
  BY <1>6, <1>7, <1>8 DEF Submit

LEMMA HistoryRejectPostOnly ==
  ASSUME HistoryInv, RejectPostOnly
  PROVE  HistoryInv' /\ Frozen
<1>1. IndexInv /\ IndexInv' /\ pc = "match"
  BY IndexOthers DEF HistoryInv, RejectPostOnly
<1>2. /\ taker \in Order /\ IsMap(history, Nat, Seq(HistoryEntry)) /\ sequence \in Nat
      /\ nextOrderId \in Nat /\ nextOrderId' = nextOrderId
      /\ taker.id < nextOrderId /\ taker.id \notin ActiveIds
  BY <1>1 DEF IndexInv, IndexOK, StopsApart, TypeInv, TypeOK, ActiveIds, RejectPostOnly,
              counterVars
<1>3. history' = RecordStatus(history, sequence, taker, "rejected")
  BY DEF RejectPostOnly
<1>4. Records(history, history', taker.id, "rejected", taker.remaining)
  BY <1>2, <1>3, RecordStatusLast DEF OrderStatus
<1>5. ActiveOrders' = ActiveOrders /\ ActiveIds' = ActiveIds
  BY ActiveStill DEF RejectPostOnly
<1>6. Live(taker.id) /\ \A x : Live(x) /\ x # taker.id => Live(x)'
  BY <1>1, <1>5 DEF Live, Executing
<1>7. \A order \in ActiveOrders : order.id # taker.id
  BY <1>1, <1>2, ActiveUnique DEF ActiveOK
<1> QED
  BY <1>1, <1>2, <1>4, <1>5, <1>6, <1>7, HistoryRecord

LEMMA HistoryFillBest ==
  ASSUME HistoryInv, FillBest
  PROVE  HistoryInv' /\ Frozen
<1>1. /\ IndexInv /\ IndexInv' /\ pc = "match" /\ pc' = "match" /\ CanTrade /\ TypeInv
      /\ nextOrderId' = nextOrderId
  BY IndexFillBest DEF HistoryInv, IndexInv, FillBest
<1>2. /\ BestMaker \in Order /\ NextAmount \in Nat /\ NextAmount <= BestMaker.remaining
      /\ IsMap(history, Nat, Seq(HistoryEntry)) /\ sequence + 1 \in Nat
      /\ nextOrderId \in Nat /\ taker \in Order
  BY <1>1, NextTradeType DEF TypeInv, TypeOK
<1> DEFINE left == BestMaker.remaining - NextAmount
           status == IF left = 0 THEN "filled" ELSE "partially_filled"
           entry == Entry(sequence + 1, status, left)
<1>3. left \in Nat /\ (left = 0 <=> BestMaker.remaining = NextAmount)
  <2>1. BestMaker.remaining \in Nat
    BY <1>2 DEF Order
  <2> QED
    BY <1>2, <2>1
<1>4. history' = Record(history, BestMaker.id, entry)
  BY DEF FillBest, RecordMakerFill
<1> HIDE DEF left
<1>5. entry \in HistoryEntry /\ entry.status = status /\ entry.remaining = left
  BY <1>2, <1>3 DEF Entry, HistoryEntry, OrderStatus
<1> HIDE DEF entry
<1>6. Records(history, history', BestMaker.id, status, left)
  BY <1>2, <1>4, <1>5, RecordLast
<1>7. /\ BestMaker \in ActiveOrders
      /\ ActiveOrders' =
           (ActiveOrders \ {BestMaker}) \cup
             (IF BestMaker.remaining = NextAmount THEN {}
              ELSE {[BestMaker EXCEPT !.remaining = left]})
  BY <1>1, ActiveFillBest DEF left
<1>8. /\ [BestMaker EXCEPT !.remaining = left].id = BestMaker.id
      /\ [BestMaker EXCEPT !.remaining = left].remaining = left
  BY <1>2 DEF Order
<1>9. /\ ActiveIds = {order.id : order \in ActiveOrders}
      /\ ActiveIds' = {order.id : order \in ActiveOrders'}
      /\ \A one, other \in ActiveOrders : one.id = other.id => one = other
  <2>1. ActiveOK
    BY <1>1, ActiveUnique
  <2>2. ActiveOK'
    BY <1>1, ActiveUnique, PTL
  <2> QED
    BY <2>1, <2>2 DEF ActiveOK
<1>10. Live(BestMaker.id) /\ BestMaker.id < nextOrderId'
  BY <1>1, <1>7, <1>9 DEF Live, IndexInv, IndexOK
<1>11. \A x : x # BestMaker.id /\ x \in ActiveIds => x \in ActiveIds'
  <2> TAKE x
  <2> HAVE x # BestMaker.id /\ x \in ActiveIds
  <2>1. PICK order \in ActiveOrders : order.id = x
    BY <1>9
  <2>2. order \in ActiveOrders'
    BY <1>7, <2>1
  <2> QED
    BY <1>9, <2>1, <2>2
<1>12. taker'.id = taker.id
  BY <1>2 DEF FillBest, ReduceTaker, Order
<1>13. \A x : x # BestMaker.id /\ Live(x) => Live(x)'
  BY <1>1, <1>11, <1>12 DEF Live, Executing
<1>14. \A order \in ActiveOrders' :
         /\ order.id # BestMaker.id => order \in ActiveOrders
         /\ order.id = BestMaker.id => left # 0 /\ order.remaining = left
  <2> TAKE order \in ActiveOrders'
  <2>1. CASE order \in ActiveOrders \ {BestMaker}
    BY <1>7, <1>9, <2>1
  <2>2. CASE order \notin ActiveOrders \ {BestMaker}
    BY <1>3, <1>7, <1>8, <2>2
  <2> QED
    BY <2>1, <2>2
<1>15. \A order \in ActiveOrders' : order.id = BestMaker.id =>
         status \in {"resting", "partially_filled"} /\ left = order.remaining
  BY <1>14
<1>16. status # "resting"
  OBVIOUS
<1>17. nextOrderId' \in Nat /\ nextOrderId' >= nextOrderId
  BY <1>1, <1>2
<1> QED
  BY <1>1, <1>2, <1>6, <1>10, <1>13, <1>14, <1>15, <1>16, <1>17, HistoryRecord
\* An order is settled as resting or partially filled when it rests, and only then
\* as resting.
LEMMA SettledStatusRests ==
  ASSUME NEW book, NEW order, NEW traded
  PROVE  IF Rests(book, order)
           THEN SettledStatus(book, order, traded) \in {"resting", "partially_filled"}
           ELSE SettledStatus(book, order, traded) # "resting"
<1>1. CASE IsFilled(order)
  BY <1>1 DEF SettledStatus, Rests
<1>2. CASE ~IsFilled(order) /\ Discards(book, order)
  BY <1>2 DEF SettledStatus, Rests
<1>3. CASE ~IsFilled(order) /\ ~Discards(book, order)
  BY <1>3 DEF SettledStatus, Rests
<1> QED
  BY <1>1, <1>2, <1>3

LEMMA HistorySettle ==
  ASSUME HistoryInv, Settle
  PROVE  HistoryInv' /\ Frozen
<1>1. IndexInv /\ IndexInv' /\ pc = "match"
  BY IndexSettle DEF HistoryInv, Settle
<1>2. /\ taker \in Order /\ IsMap(history, Nat, Seq(HistoryEntry)) /\ sequence \in Nat
      /\ nextOrderId \in Nat /\ nextOrderId' = nextOrderId
      /\ taker.id < nextOrderId /\ taker.id \notin ActiveIds
  BY <1>1 DEF IndexInv, IndexOK, StopsApart, TypeInv, TypeOK, ActiveIds, Settle,
              counterVars
<1> DEFINE status == SettledStatus(levels, taker, fills # <<>>)
<1>3. history' = RecordStatus(history, sequence, taker, status) /\ status \in OrderStatus
  BY SettledStatusType DEF Settle
<1>4. IF Rests(levels, taker) THEN status \in {"resting", "partially_filled"}
                              ELSE status # "resting"
  BY SettledStatusRests
<1> HIDE DEF status
<1>5. Records(history, history', taker.id, status, taker.remaining)
  BY <1>2, <1>3, RecordStatusLast
<1>6. ActiveOrders' = ActiveOrders \cup (IF Rests(levels, taker) THEN {taker} ELSE {})
  BY <1>1, ActiveSettle
<1>7. ActiveOK /\ ActiveOK'
  BY <1>1, ActiveUnique, PTL
<1>8. Live(taker.id) /\ \A x : Live(x) /\ x # taker.id => Live(x)'
  BY <1>1, <1>6, <1>7 DEF Live, Executing, ActiveOK
<1>9. \A order \in ActiveOrders' :
        /\ order.id # taker.id => order \in ActiveOrders
        /\ order.id = taker.id => Rests(levels, taker) /\ order = taker
  BY <1>2, <1>6, <1>7 DEF ActiveOK
<1>10. status = "resting" => taker.id \in ActiveIds'
  BY <1>4, <1>6, <1>7 DEF ActiveOK
<1>11. \A order \in ActiveOrders' : order.id = taker.id =>
         status \in {"resting", "partially_filled"} /\ taker.remaining = order.remaining
  BY <1>4, <1>9
<1> QED
  BY <1>1, <1>2, <1>5, <1>8, <1>9, <1>10, <1>11, HistoryRecord

LEMMA HistoryActivateStop ==
  ASSUME HistoryInv, ActivateStop
  PROVE  HistoryInv' /\ Frozen
<1>1. IndexInv /\ IndexInv' /\ pc = "trigger" /\ pc' = "match"
  BY IndexActivateStop DEF HistoryInv, ActivateStop
<1>2. /\ stopOrders[NextTriggered] \in ActiveOrders
      /\ stopOrders[NextTriggered].id = NextTriggered
      /\ ActiveOrders' = ActiveOrders \ {stopOrders[NextTriggered]}
  BY <1>1, ActiveActivateStop
<1>3. ActiveOK /\ ActiveOK'
  BY <1>1, ActiveUnique, PTL
<1>4. taker'.id = NextTriggered
  <2>1. stopOrders[NextTriggered] \in Order
    BY <1>2, <1>3 DEF ActiveOK
  <2> QED
    BY <1>2, <2>1 DEF ActivateStop, Activated, Order
<1>5. \A x : Live(x) => Live(x)'
  BY <1>1, <1>2, <1>3, <1>4 DEF Live, Executing, ActiveOK
<1>6. history' = history /\ nextOrderId' = nextOrderId
  BY DEF ActivateStop, counterVars
<1> QED
  BY <1>1, <1>2, <1>5, <1>6, HistoryStill

\* A cancel is recorded about the one order it takes out.
LEMMA HistoryCancelOrder ==
  ASSUME HistoryInv, IndexInv', NEW id \in ActiveIds, CancelOrder(id),
         pc \notin {"match"}, nextOrderId' = nextOrderId
  PROVE  /\ HistoryInv' /\ Frozen
         /\ Last(history'[id]).status = "cancelled"
         /\ id \in DOMAIN history'
         /\ \A x \in DOMAIN history \ {id} : x \in DOMAIN history' /\ history'[x] = history[x]
         /\ ActiveIds' = ActiveIds \ {id}
         /\ Cancelled(id) # {}
<1>1. /\ IndexInv /\ nextOrderId \in Nat /\ sequence + 1 \in Nat
      /\ IsMap(history, Nat, Seq(HistoryEntry)) /\ id < nextOrderId
  BY DEF HistoryInv, IndexInv, IndexOK, TypeInv, TypeOK
<1>2. PICK order \in ActiveOrders :
        /\ order.id = id
        /\ Cancelled(id) = {order}
        /\ ActiveOrders' = ActiveOrders \ {order}
        /\ history' = RecordStatus(history, sequence + 1, order, "cancelled")
  BY <1>1, ActiveCancelOrder
<1>3. ActiveOK /\ ActiveOK'
  BY <1>1, ActiveUnique, PTL
<1>4. order \in Order
  BY <1>3 DEF ActiveOK
<1>5. Records(history, history', id, "cancelled", order.remaining)
  <2>1. Records(history, history', order.id, "cancelled", order.remaining)
    BY <1>1, <1>2, <1>4, RecordStatusLast DEF OrderStatus
  <2> QED
    BY <1>2, <2>1
<1>6. \A other \in ActiveOrders' : other.id # id /\ other \in ActiveOrders
  BY <1>2, <1>3 DEF ActiveOK
<1>7. ActiveIds' = ActiveIds \ {id}
  BY <1>2, <1>3 DEF ActiveOK
<1>8. Live(id) /\ \A x : x # id /\ Live(x) => Live(x)'
  BY <1>7 DEF Live, Executing
<1>9. HistoryInv' /\ Frozen
  BY <1>1, <1>5, <1>6, <1>8, HistoryRecord
<1> QED
  BY <1>2, <1>5, <1>7, <1>9 DEF Records

LEMMA HistoryCommands ==
  ASSUME HistoryInv,
         \/ \E id \in ActiveIds : Cancel(id)
         \/ \E id \in ActiveIds : Replace(id)
         \/ \E id \in cancelling : MassCancelOne(id)
  PROVE  HistoryInv' /\ Frozen
<1>1. IndexInv /\ IndexInv' /\ cancelling \subseteq ActiveIds
  BY IndexCommands DEF HistoryInv, IndexInv, TypeInv, ControlOK
<1>2. \E id \in ActiveIds : CancelOrder(id) /\ pc \notin {"match"} /\ nextOrderId' = nextOrderId
  BY <1>1 DEF Cancel, Replace, MassCancelOne, counterVars
<1> QED
  BY <1>1, <1>2, HistoryCancelOrder

\* The steps that leave the histories and the containers alone.
LEMMA HistoryOthers ==
  ASSUME HistoryInv,
         \/ SkipStop \/ MassCancel \/ MassCancelDone \/ UNCHANGED vars
  PROVE  HistoryInv' /\ Frozen
<1>1. IndexInv' /\ UNCHANGED bookVars /\ history' = history /\ nextOrderId' = nextOrderId
  BY IndexOthers
     DEF HistoryInv, SkipStop, MassCancel, MassCancelDone, vars, counterVars
<1>2. ActiveOrders' = ActiveOrders /\ ActiveIds' = ActiveIds
  BY <1>1, ActiveStill
<1>3. (pc = "match" => pc' = pc) /\ (pc = "match" => taker' = taker)
  BY DEF SkipStop, MassCancel, MassCancelDone, vars, controlVars
<1>4. \A x : Live(x) => Live(x)'
  BY <1>2, <1>3 DEF Live, Executing
<1> QED
  BY <1>1, <1>2, <1>4, HistoryStill

LEMMA HistoryStep == HistoryInv /\ [Next]_vars => HistoryInv' /\ Frozen
<1> SUFFICES ASSUME HistoryInv, [Next]_vars PROVE HistoryInv' /\ Frozen
  OBVIOUS
<1>1. CASE EngineStep
  BY <1>1, HistorySubmit, HistoryRejectPostOnly, HistoryFillBest, HistorySettle,
     HistoryActivateStop, HistoryCommands, HistoryOthers DEF EngineStep
<1>2. CASE Command
  BY <1>2, HistorySubmit, HistoryCommands, HistoryOthers DEF Command
<1>3. CASE UNCHANGED vars
  BY <1>3, HistoryOthers
<1> QED
  BY <1>1, <1>2, <1>3 DEF Next

\* What GET /orders and GET /orders/:id/history tell of an active order -- that it
\* rests or is partially filled, and with how much left -- is what the book holds of
\* it, in every reachable state (command.rs:203-214, book.rs:687-700).
THEOREM HistoriesTrackBook == Spec => []HistoryTracksBook
<1>1. Spec => []HistoryInv
  BY HistoryInit, HistoryStep, PTL DEF Spec
<1>2. HistoryInv => HistoryTracksBook
  BY DEF HistoryInv, HistoryOK
<1> QED
  BY <1>1, <1>2, PTL

\* Once an order has left the book no step ever records anything about it again
\* (order_state.rs:7-43).
THEOREM ClosedStayFrozen == Spec => ClosedOrdersFrozen
<1>1. Spec => []HistoryInv
  BY HistoryInit, HistoryStep, PTL DEF Spec
<1>2. HistoryInv /\ [Next]_vars =>
        [\A id \in DOMAIN history :
           id \notin ActiveIds /\ ~Executing(id) => history'[id] = history[id]]_vars
  BY HistoryStep DEF Frozen, Live
<1> QED
  BY <1>1, <1>2, PTL DEF Spec, ClosedOrdersFrozen

(***************************************************************************)
(* Mass cancels.                                                           *)
(***************************************************************************)

Acknowledgement == [order : Order, status : OrderStatus, trades : Seq(Trade)]

Event ==
  [event : {"order"}, ack : Acknowledgement]
    \cup [event : {"trade"}, trade : Trade]
    \cup [event : {"book"}, sequence : Nat]
    \cup [event : {"cancel"}, id : Nat]
    \cup [event : {"mass_cancel"}, ids : Seq(Nat)]
    \cup [event : {"replace"}, cancelled : Nat, ack : Acknowledgement]

NoMassCancel(list) == list # <<>> => list[1].event # "mass_cancel"

\* What MassCancelComplete needs to be inductive: a running mass cancel has every
\* active order still before it and every order it reports behind it, and no other
\* command's events start with a mass cancel.
MassCancelOK ==
  /\ events \in Seq(Event)
  /\ pc # "idle" => NoMassCancel(events)
  /\ pc # "mass_cancel" => cancelled = <<>>
  /\ pc = "mass_cancel" => ActiveIds \subseteq cancelling
  /\ \A id \in ToSet(cancelled) :
       /\ id \in DOMAIN history
       /\ id \notin ActiveIds
       /\ Last(history[id]).status = "cancelled"
  /\ MassCancelComplete

MassCancelInv == HistoryInv /\ MassCancelOK

\* An acknowledgement's events never start with a mass cancel.
LEMMA AckEventsType ==
  ASSUME NEW ack \in Acknowledgement, NEW seq \in Nat, replaced \in Nat
  PROVE  /\ AckEvents(ack, seq) \in Seq(Event)
         /\ AckEvents(ack, seq) # <<>>
         /\ NoMassCancel(AckEvents(ack, seq))
<1> DEFINE front == IF replaced = 0 THEN <<>> ELSE <<ReplaceEvent(replaced, ack)>>
           order == <<OrderEvent(ack)>>
           trades == [i \in DOMAIN ack.trades |-> TradeEvent(ack.trades[i])]
           book == <<BookEvent(seq)>>
<1>1. ReplaceEvent(replaced, ack) \in Event /\ ReplaceEvent(replaced, ack).event = "replace"
  BY DEF ReplaceEvent, Event
<1>2. OrderEvent(ack) \in Event /\ OrderEvent(ack).event = "order"
  BY DEF OrderEvent, Event
<1>3. BookEvent(seq) \in Event
  BY DEF BookEvent, Event
<1>4. /\ front \in Seq(Event)
      /\ front = <<>> \/ (Len(front) = 1 /\ front[1].event = "replace")
  BY <1>1
<1>5. order \in Seq(Event) /\ Len(order) = 1 /\ order[1].event = "order"
  BY <1>2
<1>6. book \in Seq(Event)
  BY <1>3
<1>7. trades \in Seq(Event)
  <2>1. ack.trades \in Seq(Trade)
    BY DEF Acknowledgement
  <2>2. /\ DOMAIN ack.trades = 1..Len(ack.trades) /\ Len(ack.trades) \in Nat
        /\ \A i \in 1..Len(ack.trades) : ack.trades[i] \in Trade
    BY <2>1, LenProperties, ElementOfSeq
  <2>3. \A i \in 1..Len(ack.trades) : TradeEvent(ack.trades[i]) \in Event
    BY <2>2 DEF TradeEvent, Event
  <2> QED
    BY <2>2, <2>3
<1>8. AckEvents(ack, seq) = ((front \o order) \o trades) \o book
  BY DEF AckEvents
<1> HIDE DEF front, order, trades, book
<1>9. /\ front \o order \in Seq(Event)
      /\ Len(front \o order) \in Nat /\ Len(front \o order) > 0
      /\ (front \o order)[1].event # "mass_cancel"
  <2>1. CASE front = <<>>
    <3>1. front \o order = order
      BY <1>5, <2>1, ConcatEmptySeq
    <3> QED
      BY <1>5, <3>1
  <2>2. CASE Len(front) = 1 /\ front[1].event = "replace"
    <3>1. /\ front \o order \in Seq(Event)
          /\ Len(front \o order) = Len(front) + Len(order)
          /\ \A i \in 1..(Len(front) + Len(order)) :
               (front \o order)[i] = IF i <= Len(front) THEN front[i]
                                      ELSE order[i - Len(front)]
      BY <1>4, <1>5, ConcatProperties
    <3>2. (front \o order)[1] = front[1]
      BY <1>5, <2>2, <3>1
    <3> QED
      BY <1>5, <2>2, <3>1, <3>2
  <2> QED
    BY <1>4, <2>1, <2>2
<1> DEFINE more == front \o order
           most == more \o trades
           all == most \o book
<1> HIDE DEF more, most, all
<1>10. /\ most \in Seq(Event) /\ Len(most) \in Nat /\ Len(most) > 0
       /\ most[1].event # "mass_cancel"
  <2>1. /\ most \in Seq(Event)
        /\ Len(most) = Len(more) + Len(trades)
        /\ \A i \in 1..(Len(more) + Len(trades)) :
             most[i] = IF i <= Len(more) THEN more[i] ELSE trades[i - Len(more)]
    BY <1>7, <1>9, ConcatProperties DEF more, most
  <2>2. Len(trades) \in Nat
    BY <1>7, LenProperties
  <2>3. most[1] = more[1]
    BY <1>9, <2>1, <2>2 DEF more
  <2> QED
    BY <1>9, <2>1, <2>2, <2>3 DEF more
<1>11. /\ all \in Seq(Event) /\ Len(all) \in Nat /\ Len(all) > 0
       /\ all[1].event # "mass_cancel"
  <2>1. /\ all \in Seq(Event)
        /\ Len(all) = Len(most) + Len(book)
        /\ \A i \in 1..(Len(most) + Len(book)) :
             all[i] = IF i <= Len(most) THEN most[i] ELSE book[i - Len(most)]
    BY <1>6, <1>10, ConcatProperties DEF all
  <2>2. Len(book) \in Nat
    BY <1>6, LenProperties
  <2>3. all[1] = most[1]
    BY <1>10, <2>1, <2>2
  <2> QED
    BY <1>10, <2>1, <2>2, <2>3
<1>12. AckEvents(ack, seq) = all
  BY <1>8 DEF all, most, more
<1> QED
  BY <1>11, <1>12, EmptySeq DEF NoMassCancel

LEMMA EventsAppend ==
  ASSUME NEW list \in Seq(Event), NoMassCancel(list),
         NEW ack \in Acknowledgement, NEW seq \in Nat, replaced \in Nat
  PROVE  /\ list \o AckEvents(ack, seq) \in Seq(Event)
         /\ NoMassCancel(list \o AckEvents(ack, seq))
<1> DEFINE more == AckEvents(ack, seq)
<1>1. more \in Seq(Event) /\ more # <<>> /\ NoMassCancel(more)
  BY AckEventsType
<1> HIDE DEF more
<1>2. /\ list \o more \in Seq(Event)
      /\ Len(list \o more) = Len(list) + Len(more)
      /\ \A i \in 1..(Len(list) + Len(more)) :
           (list \o more)[i] = IF i <= Len(list) THEN list[i] ELSE more[i - Len(list)]
  BY <1>1, ConcatProperties
<1>3. Len(list) \in Nat /\ Len(more) \in Nat \ {0}
  BY <1>1, LenProperties, EmptySeq
<1>4. CASE list = <<>>
  <2>1. list \o more = more
    BY <1>1, <1>4, ConcatEmptySeq
  <2> QED
    BY <1>1, <2>1 DEF more
<1>5. CASE list # <<>>
  <2>1. Len(list) \in Nat \ {0}
    BY <1>5, EmptySeq
  <2>2. (list \o more)[1] = list[1]
    BY <1>2, <1>3, <2>1
  <2> QED
    BY <1>2, <1>5, <2>2 DEF NoMassCancel, more
<1> QED
  BY <1>4, <1>5
LEMMA MassCancelInit == Init => MassCancelInv
<1> SUFFICES ASSUME Init PROVE MassCancelInv
  OBVIOUS
<1>1. events = <<>> /\ cancelled = <<>> /\ pc = "idle"
  BY DEF Init
<1>2. events \in Seq(Event) /\ ToSet(cancelled) = {}
  BY <1>1, EmptySeq DEF ToSet
<1> QED
  BY <1>1, <1>2, HistoryInit DEF MassCancelInv, MassCancelOK, MassCancelComplete

\* The steps of the other commands.
LEMMA MassCancelAway ==
  ASSUME MassCancelInv, HistoryInv', pc # "mass_cancel", pc' # "mass_cancel",
         cancelled' \in {<<>>, cancelled}, events' \in Seq(Event), NoMassCancel(events')
  PROVE  MassCancelInv'
<1>1. cancelled' = <<>>
  BY DEF MassCancelInv, MassCancelOK
<1>2. ToSet(cancelled') = {}
  BY <1>1 DEF ToSet
<1>3. MassCancelComplete'
  BY DEF MassCancelComplete, NoMassCancel
<1> QED
  BY <1>1, <1>2, <1>3 DEF MassCancelInv, MassCancelOK

LEMMA MassCancelSubmit ==
  ASSUME MassCancelInv, NEW req \in Requests, Submit(req)
  PROVE  MassCancelInv'
<1>1. /\ HistoryInv' /\ pc \in {"idle", "replace"} /\ replaced \in Nat
      /\ sequence + 1 \in Nat /\ Incoming(req) \in Order
  <2>1. HistoryInv' /\ TypeInv /\ pc \in {"idle", "replace"}
    BY HistorySubmit DEF MassCancelInv, HistoryInv, IndexInv, Submit
  <2>2. replaced \in Nat /\ sequence \in Nat
    BY <2>1 DEF TypeInv, TypeOK
  <2>3. Incoming(req) \in Order
    BY <2>1, IncomingType
  <2> QED
    BY <2>1, <2>2, <2>3
<1>2. pc' \in {"idle", "match"} /\ cancelled' \in {<<>>, cancelled}
  BY DEF Submit, RejectInvalid, AcceptStop, RejectFok, AcceptAs, Answer, BeginExecution
<1>3. events' \in Seq(Event) /\ NoMassCancel(events')
  <2>1. CASE RejectInvalid(req) \/ BeginExecution(req)
    <3>1. events' = <<>>
      BY <2>1 DEF RejectInvalid, Answer, BeginExecution
    <3> QED
      BY <3>1, EmptySeq DEF NoMassCancel
  <2>2. ASSUME NEW status \in OrderStatus, AcceptAs(req, status)
        PROVE  events' \in Seq(Event) /\ NoMassCancel(events')
    <3>1. Ack(Incoming(req), status, <<>>) \in Acknowledgement
      BY <1>1, EmptySeq DEF Ack, Acknowledgement
    <3>2. events' = AckEvents(Ack(Incoming(req), status, <<>>), sequence + 1)
      BY <2>2 DEF AcceptAs, Answer
    <3> QED
      BY <1>1, <3>1, <3>2, AckEventsType
  <2> QED
    BY <2>1, <2>2 DEF Submit, AcceptStop, RejectFok, OrderStatus
<1> QED
  BY <1>1, <1>2, <1>3, MassCancelAway

LEMMA MassCancelExecute ==
  ASSUME MassCancelInv,
         RejectPostOnly \/ FillBest \/ Settle \/ ActivateStop \/ SkipStop
  PROVE  MassCancelInv'
<1>1. HistoryInv'
  BY HistoryRejectPostOnly, HistoryFillBest, HistorySettle, HistoryActivateStop,
     HistoryOthers DEF MassCancelInv
<1>2. /\ events \in Seq(Event) /\ NoMassCancel(events)
      /\ taker \in Order /\ fills \in Seq(Trade) /\ replaced \in Nat /\ sequence \in Nat
  BY DEF MassCancelInv, MassCancelOK, HistoryInv, IndexInv, TypeInv, TypeOK,
         RejectPostOnly, FillBest, Settle, ActivateStop, SkipStop
<1>3. /\ pc \in {"match", "trigger"} /\ pc' \in {"idle", "match", "trigger"}
      /\ cancelled' = cancelled
  BY DEF RejectPostOnly, FillBest, Settle, ActivateStop, SkipStop
<1>4. events' \in Seq(Event) /\ NoMassCancel(events')
  <2>1. CASE RejectPostOnly
    <3>1. Ack(taker, "rejected", <<>>) \in Acknowledgement
      BY <1>2, EmptySeq DEF Ack, Acknowledgement, OrderStatus
    <3> QED
      BY <1>2, <2>1, <3>1, EventsAppend DEF RejectPostOnly
  <2>2. CASE Settle
    <3>1. SettledStatus(levels, taker, fills # <<>>) \in OrderStatus
      BY SettledStatusType
    <3>2. Ack(taker, SettledStatus(levels, taker, fills # <<>>), fills) \in Acknowledgement
      BY <1>2, <3>1 DEF Ack, Acknowledgement
    <3> QED
      BY <1>2, <2>2, <3>2, EventsAppend DEF Settle
  <2>3. CASE FillBest \/ ActivateStop \/ SkipStop
    BY <1>2, <2>3 DEF FillBest, ActivateStop, SkipStop
  <2> QED
    BY <2>1, <2>2, <2>3
<1> QED
  BY <1>1, <1>3, <1>4, MassCancelAway

LEMMA MassCancelCommands ==
  ASSUME MassCancelInv,
         \/ \E id \in ActiveIds : Cancel(id)
         \/ \E id \in ActiveIds : Replace(id)
  PROVE  MassCancelInv'
<1>0. HistoryInv
  BY DEF MassCancelInv
<1>1. HistoryInv' /\ sequence + 1 \in Nat /\ ActiveIds \subseteq Nat
  <2>1. HistoryInv'
    BY <1>0, HistoryCommands
  <2>2. sequence + 1 \in Nat /\ ActiveIds \subseteq Nat
    BY <1>0 DEF HistoryInv, IndexInv, TypeInv, TypeOK, ActiveIds, IsMap
  <2> QED
    BY <2>1, <2>2
<1>2. /\ pc = "idle" /\ pc' \in {"idle", "replace"}
      /\ cancelled' \in {<<>>, cancelled}
  BY DEF Cancel, Replace, Answer
<1>3. \A id \in ActiveIds : /\ <<CancelEvent(id), BookEvent(sequence + 1)>> \in Seq(Event)
                            /\ <<CancelEvent(id), BookEvent(sequence + 1)>>[1].event = "cancel"
  <2> TAKE id \in ActiveIds
  <2>1. CancelEvent(id) \in Event /\ CancelEvent(id).event = "cancel"
    BY <1>1 DEF CancelEvent, Event
  <2>2. BookEvent(sequence + 1) \in Event
    BY <1>1 DEF BookEvent, Event
  <2> QED
    BY <2>1, <2>2
<1>4. \/ events' = <<>>
      \/ \E id \in ActiveIds : events' = <<CancelEvent(id), BookEvent(sequence + 1)>>
  BY DEF Cancel, Replace, Answer
<1>5. events' \in Seq(Event) /\ NoMassCancel(events')
  BY <1>3, <1>4, EmptySeq DEF NoMassCancel
<1> QED
  BY <1>1, <1>2, <1>5, MassCancelAway

LEMMA MassCancelBegins ==
  ASSUME MassCancelInv, MassCancel
  PROVE  MassCancelInv'
<1>1. HistoryInv'
  BY HistoryOthers DEF MassCancelInv
<1>2. /\ pc' = "mass_cancel" /\ cancelled' = <<>> /\ events' = <<>>
      /\ cancelling' = ActiveIds /\ ActiveIds' = ActiveIds
  BY ActiveStill DEF MassCancel, MassCancelInv, MassCancelOK
<1>3. events' \in Seq(Event) /\ ToSet(cancelled') = {}
  BY <1>2, EmptySeq DEF ToSet
<1> QED
  BY <1>1, <1>2, <1>3 DEF MassCancelInv, MassCancelOK, NoMassCancel, MassCancelComplete

LEMMA MassCancelContinues ==
  ASSUME MassCancelInv, NEW id \in cancelling, MassCancelOne(id)
  PROVE  MassCancelInv'
<1>1. /\ HistoryInv /\ IndexInv' /\ id \in ActiveIds /\ id \in Nat
      /\ pc = "mass_cancel" /\ pc' = "mass_cancel" /\ CancelOrder(id)
      /\ nextOrderId' = nextOrderId /\ events' = events
      /\ cancelled \in Seq(Nat) /\ ActiveIds \subseteq cancelling
  BY IndexCommands
     DEF MassCancelInv, MassCancelOK, HistoryInv, IndexInv, TypeInv, TypeOK, ControlOK,
         MassCancelOne, counterVars
<1>2. /\ HistoryInv'
      /\ Last(history'[id]).status = "cancelled" /\ id \in DOMAIN history'
      /\ \A x \in DOMAIN history \ {id} : x \in DOMAIN history' /\ history'[x] = history[x]
      /\ ActiveIds' = ActiveIds \ {id}
      /\ Cancelled(id) # {}
  <2>1. /\ HistoryInv' /\ Frozen
        /\ Last(history'[id]).status = "cancelled"
        /\ id \in DOMAIN history'
        /\ \A x \in DOMAIN history \ {id} : x \in DOMAIN history' /\ history'[x] = history[x]
        /\ ActiveIds' = ActiveIds \ {id}
        /\ Cancelled(id) # {}
    BY <1>1, HistoryCancelOrder
  <2> QED
    BY <2>1
<1>3. cancelled' = Append(cancelled, id) /\ ActiveIds' \subseteq cancelling'
  BY <1>1, <1>2 DEF MassCancelOne
<1>4. ToSet(cancelled') = ToSet(cancelled) \cup {id}
  BY <1>1, <1>3, AppendProperties, LenProperties DEF ToSet
<1>5. \A x \in ToSet(cancelled') :
        x \in DOMAIN history' /\ x \notin ActiveIds' /\ Last(history'[x]).status = "cancelled"
  BY <1>2, <1>4 DEF MassCancelInv, MassCancelOK
<1> QED
  BY <1>1, <1>2, <1>3, <1>5 DEF MassCancelInv, MassCancelOK, MassCancelComplete

LEMMA MassCancelEnds ==
  ASSUME MassCancelInv, MassCancelDone
  PROVE  MassCancelInv'
<1>1. HistoryInv /\ HistoryInv'
  BY HistoryOthers DEF MassCancelInv
<1>2. /\ pc = "mass_cancel" /\ pc' = "idle" /\ cancelled' = <<>>
      /\ events' = <<MassCancelEvent(cancelled), BookEvent(sequence)>>
      /\ history' = history /\ ActiveIds = {} /\ ActiveIds' = ActiveIds
      /\ cancelled \in Seq(Nat) /\ sequence \in Nat
  BY ActiveStill
     DEF MassCancelDone, Answer, MassCancelInv, MassCancelOK, HistoryInv, IndexInv,
         TypeInv, TypeOK
<1>3. MassCancelEvent(cancelled) \in Event /\ MassCancelEvent(cancelled).ids = cancelled
  BY <1>2 DEF MassCancelEvent, Event
<1>4. BookEvent(sequence) \in Event
  BY <1>2 DEF BookEvent, Event
<1>5. events' \in Seq(Event) /\ events'[1].ids = cancelled
  BY <1>2, <1>3, <1>4
<1>6. \A id \in DOMAIN history' : Last(history'[id]).status # "resting"
  BY <1>1, <1>2 DEF HistoryInv, HistoryOK, Live, Executing
<1>7. MassCancelComplete'
  BY <1>2, <1>5, <1>6 DEF MassCancelComplete, MassCancelInv, MassCancelOK
<1>8. ToSet(cancelled') = {}
  BY <1>2 DEF ToSet
<1> QED
  BY <1>1, <1>2, <1>5, <1>7, <1>8 DEF MassCancelInv, MassCancelOK

LEMMA MassCancelStep == MassCancelInv /\ [Next]_vars => MassCancelInv'
<1> SUFFICES ASSUME MassCancelInv, [Next]_vars PROVE MassCancelInv'
  OBVIOUS
<1>1. CASE EngineStep
  BY <1>1, MassCancelSubmit, MassCancelExecute, MassCancelContinues, MassCancelEnds
     DEF EngineStep
<1>2. CASE Command
  BY <1>2, MassCancelSubmit, MassCancelCommands, MassCancelBegins DEF Command
<1>3. CASE UNCHANGED vars
  <2>1. HistoryInv'
    BY <1>3, HistoryOthers DEF MassCancelInv
  <2>2. MassCancelOK'
    BY <1>3 DEF MassCancelInv, MassCancelOK, MassCancelComplete, ActiveIds, vars, bookVars,
                controlVars
  <2> QED
    BY <2>1, <2>2 DEF MassCancelInv
<1> QED
  BY <1>1, <1>2, <1>3 DEF Next

\* A mass cancel leaves nothing active, no history ends resting after it, and every id
\* it reports has a history that ends cancelled (ARCHITECTURE.md:87, book.rs:285-296).
THEOREM MassCancelCancelsAll == Spec => []MassCancelComplete
<1>1. Spec => []MassCancelInv
  BY MassCancelInit, MassCancelStep, PTL DEF Spec
<1>2. MassCancelInv => MassCancelComplete
  BY DEF MassCancelInv, MassCancelOK
<1> QED
  BY <1>1, <1>2, PTL

(***************************************************************************)
(* The open-order limits.                                                  *)
(***************************************************************************)

\* One element more or one less.
LEMMA OneMore ==
  ASSUME NEW S, IsFiniteSet(S), NEW x, NEW T, T = S \cup {x}
  PROVE  Cardinality(S) \in Nat /\ Cardinality(T) \in Nat /\ Cardinality(T) <= Cardinality(S) + 1
<1>1. Cardinality(S \cup {x}) = IF x \in S THEN Cardinality(S) ELSE Cardinality(S) + 1
  BY FS_AddElement
<1>2. Cardinality(S) \in Nat
  BY FS_CardinalityType
<1> QED
  BY <1>1, <1>2

LEMMA OneLess ==
  ASSUME NEW S, IsFiniteSet(S), NEW T \in SUBSET S, T # S
  PROVE  Cardinality(S) \in Nat /\ Cardinality(T) \in Nat /\ Cardinality(T) < Cardinality(S)
<1>1. /\ IsFiniteSet(T) /\ Cardinality(T) <= Cardinality(S)
      /\ Cardinality(S) = Cardinality(T) => S = T
  BY FS_Subset
<1>2. Cardinality(S) \in Nat /\ Cardinality(T) \in Nat
  BY <1>1, FS_CardinalityType
<1> QED
  BY <1>1, <1>2

\* The ids of an account's active orders.
IdsOf(account) == {order.id : order \in {o \in ActiveOrders : o.account = account}}

\* The two counts of the risk checks are the sizes of two finite sets of ids.
CountOK ==
  /\ IsFiniteSet(ActiveIds)
  /\ OpenCount = Cardinality(ActiveIds)
  /\ \A account : /\ IdsOf(account) \subseteq ActiveIds
                  /\ OpenCountOf(account) = IF account = NoAccount THEN 0
                                            ELSE Cardinality(IdsOf(account))

LEMMA Counting == IndexInv => CountOK
<1> SUFFICES ASSUME IndexInv PROVE CountOK
  OBVIOUS
<1>1. ActiveOK
  BY ActiveUnique
<1>2. /\ nextOrderId \in Nat /\ DOMAIN orderIndex \subseteq Nat /\ DOMAIN stopOrders \subseteq Nat
      /\ \A id \in DOMAIN orderIndex : id <= nextOrderId
      /\ \A id \in DOMAIN stopOrders : id <= nextOrderId
      /\ DOMAIN orderIndex \cap DOMAIN stopOrders = {}
  BY DEF IndexInv, IndexOK, StopsApart, TypeInv, TypeOK, IsMap, ActiveIds
<1>3. /\ IsFiniteSet(DOMAIN orderIndex) /\ Cardinality(DOMAIN orderIndex) \in Nat
      /\ IsFiniteSet(DOMAIN stopOrders) /\ Cardinality(DOMAIN stopOrders) \in Nat
  BY <1>2, FS_BoundedSetOfNaturals, FS_CardinalityType
<1>4. IsFiniteSet(ActiveIds) /\ OpenCount = Cardinality(ActiveIds)
  <2>1. /\ IsFiniteSet(DOMAIN orderIndex \cup DOMAIN stopOrders)
        /\ Cardinality(DOMAIN orderIndex \cup DOMAIN stopOrders)
             = Cardinality(DOMAIN orderIndex) + Cardinality(DOMAIN stopOrders)
                 - Cardinality(DOMAIN orderIndex \cap DOMAIN stopOrders)
    BY <1>3, FS_Union
  <2> QED
    BY <1>2, <1>3, <2>1, FS_EmptySet DEF ActiveIds, OpenCount
<1>5. ASSUME NEW account PROVE IdsOf(account) \subseteq ActiveIds
  BY <1>1 DEF ActiveOK, IdsOf
<1>6. ASSUME NEW account, account # NoAccount
      PROVE  OpenCountOf(account) = Cardinality(IdsOf(account))
  <2> DEFINE owned == {order \in ActiveOrders : order.account = account}
             idOf == [order \in owned |-> order.id]
  <2>1. IsFiniteSet(IdsOf(account))
    BY <1>4, <1>5, FS_Subset
  <2>2. idOf \in Bijection(owned, IdsOf(account))
    <3>1. idOf \in [owned -> IdsOf(account)]
      BY DEF IdsOf
    <3>2. \A one, other \in owned : idOf[one] = idOf[other] => one = other
      BY <1>1 DEF ActiveOK
    <3>3. \A id \in IdsOf(account) : \E order \in owned : idOf[order] = id
      BY DEF IdsOf
    <3> HIDE DEF owned, idOf
    <3> QED
      BY <3>1, <3>2, <3>3 DEF Bijection, Injection, Surjection, IsInjective
  <2>3. IsFiniteSet(owned) /\ Cardinality(owned) = Cardinality(IdsOf(account))
    <3> HIDE DEF owned, idOf
    <3>1. idOf \in Injection(owned, IdsOf(account)) /\ idOf \in Surjection(owned, IdsOf(account))
      BY <2>2 DEF Bijection
    <3> QED
      BY <2>1, <3>1, FS_Injection
  <2> QED
    BY <1>6, <2>3 DEF OpenCountOf, ActiveOrders
<1> QED
  BY <1>4, <1>5, <1>6 DEF CountOK, OpenCountOf

\* What OpenOrdersBounded needs to be inductive: an order that may come to rest found
\* room when it was admitted, or freed it when it was triggered, and keeps it.
Room(account) ==
  /\ OpenCount < MaxOpenOrders
  /\ account # NoAccount => OpenCountOf(account) < MaxOpenOrdersPerAccount

LimitOK ==
  /\ OpenCount <= MaxOpenOrders
  /\ \A account : OpenCountOf(account) <= MaxOpenOrdersPerAccount
  /\ pc = "match" /\ taker.kind \in {"limit", "post_only"} => Room(taker.account)

LimitInv == IndexInv /\ LimitOK

\* A step that adds no active order.
LEMMA LimitShrinks ==
  ASSUME LimitInv, IndexInv', \A account : IdsOf(account)' \subseteq IdsOf(account),
         ActiveIds' \subseteq ActiveIds,
         pc' = "match" /\ taker'.kind \in {"limit", "post_only"} =>
           Room(taker'.account) \/ Room(taker.account)'
  PROVE  LimitInv'
<1>1. CountOK
  BY Counting DEF LimitInv
<1>2. CountOK'
  BY Counting, PTL
<1>3. OpenCount' <= OpenCount /\ OpenCount \in Nat /\ OpenCount' \in Nat
  BY <1>1, <1>2, FS_Subset, FS_CardinalityType DEF CountOK
<1>4. ASSUME NEW account
      PROVE  /\ OpenCountOf(account)' <= OpenCountOf(account)
             /\ OpenCountOf(account) \in Nat /\ OpenCountOf(account)' \in Nat
  <2>1. IsFiniteSet(IdsOf(account))
    BY <1>1, FS_Subset DEF CountOK
  <2>2. IsFiniteSet(IdsOf(account)')
    BY <1>2, FS_Subset DEF CountOK
  <2>3. /\ Cardinality(IdsOf(account)') <= Cardinality(IdsOf(account))
        /\ Cardinality(IdsOf(account)) \in Nat
        /\ Cardinality(IdsOf(account)') \in Nat
    BY <2>1, <2>2, FS_Subset, FS_CardinalityType
  <2>4. OpenCountOf(account) = IF account = NoAccount THEN 0 ELSE Cardinality(IdsOf(account))
    BY <1>1 DEF CountOK
  <2>5. OpenCountOf(account)' = IF account = NoAccount THEN 0 ELSE Cardinality(IdsOf(account)')
    BY <1>2 DEF CountOK
  <2> QED
    BY <2>3, <2>4, <2>5
<1>5. OpenCount' <= MaxOpenOrders
  BY <1>3, ConfigAssumption DEF LimitInv, LimitOK
<1>6. \A account : OpenCountOf(account)' <= MaxOpenOrdersPerAccount
  <2> TAKE account
  <2>1. OpenCountOf(account) <= MaxOpenOrdersPerAccount
    BY DEF LimitInv, LimitOK
  <2> QED
    BY <1>4, <2>1, ConfigAssumption
<1>7. pc' = "match" /\ taker'.kind \in {"limit", "post_only"} => Room(taker.account)'
  <2> SUFFICES ASSUME pc' = "match", taker'.kind \in {"limit", "post_only"}
               PROVE  Room(taker.account)'
    OBVIOUS
  <2>1. CASE Room(taker'.account)
    BY <1>3, <1>4, <2>1, ConfigAssumption DEF Room
  <2>2. CASE Room(taker.account)'
    BY <2>2
  <2> QED
    BY <2>1, <2>2
<1> QED
  BY <1>5, <1>6, <1>7 DEF LimitInv, LimitOK

\* A step that adds one order, for which there is room.
LEMMA LimitGrows ==
  ASSUME LimitInv, IndexInv', NEW order \in Order, Room(order.account),
         ActiveOrders' = ActiveOrders \cup {order}, pc' # "match"
  PROVE  LimitInv'
<1>1. CountOK /\ ActiveOK
  BY Counting, ActiveUnique DEF LimitInv
<1>2. CountOK'
  BY Counting, PTL
<1>3. ActiveOK'
  BY ActiveUnique, PTL
<1>4. ActiveIds' = ActiveIds \cup {order.id}
  BY <1>1, <1>3 DEF ActiveOK
<1>5. \A account : IdsOf(account)' = IdsOf(account) \cup
                                      (IF account = order.account THEN {order.id} ELSE {})
  BY DEF IdsOf
<1>6. OpenCount' <= OpenCount + 1 /\ OpenCount \in Nat /\ OpenCount' \in Nat
  <2>1. /\ IsFiniteSet(ActiveIds) /\ OpenCount = Cardinality(ActiveIds)
        /\ OpenCount' = Cardinality(ActiveIds')
    BY <1>1, <1>2 DEF CountOK
  <2> QED
    BY <1>4, <2>1, FS_AddElement, FS_CardinalityType
<1>7. OpenCount' <= MaxOpenOrders
  BY <1>6, ConfigAssumption DEF Room
<1>8. ASSUME NEW account PROVE OpenCountOf(account)' <= MaxOpenOrdersPerAccount
  <2>1. /\ IsFiniteSet(IdsOf(account))
        /\ OpenCountOf(account) = IF account = NoAccount THEN 0 ELSE Cardinality(IdsOf(account))
    BY <1>1, FS_Subset DEF CountOK
  <2>2. OpenCountOf(account)' = IF account = NoAccount THEN 0
                                ELSE Cardinality(IdsOf(account)')
    BY <1>2 DEF CountOK
  <2>3. OpenCountOf(account) <= MaxOpenOrdersPerAccount
    BY DEF LimitInv, LimitOK
  <2>4. Cardinality(IdsOf(account)) \in Nat
    BY <2>1, FS_CardinalityType
  <2>5. CASE account = NoAccount
    BY <2>2, <2>5, ConfigAssumption
  <2>6. CASE account # NoAccount /\ account = order.account
    <3>1. Cardinality(IdsOf(account)) < MaxOpenOrdersPerAccount
      BY <2>1, <2>6 DEF Room
    <3>2. IdsOf(account)' = IdsOf(account) \cup {order.id}
      BY <1>5, <2>6
    <3>3. Cardinality(IdsOf(account)') <= Cardinality(IdsOf(account)) + 1
          /\ Cardinality(IdsOf(account)') \in Nat
      BY <2>1, <3>2, OneMore
    <3> QED
      BY <2>2, <2>4, <2>6, <3>1, <3>3, ConfigAssumption
  <2>7. CASE account # order.account
    <3>1. IdsOf(account)' = IdsOf(account)
      BY <1>5, <2>7
    <3> QED
      BY <2>1, <2>2, <2>3, <3>1
  <2> QED
    BY <2>5, <2>6, <2>7
<1> QED
  BY <1>7, <1>8 DEF LimitInv, LimitOK

LEMMA LimitInit == Init => LimitInv
<1> SUFFICES ASSUME Init PROVE LimitInv
  OBVIOUS
<1>1. IndexInv /\ ActiveOrders = {} /\ ActiveIds = {}
  BY IndexInit
     DEF Init, ActiveOrders, ActiveIds, Resting, RestingOn, EmptyLevels, StopsOf, Side
<1>2. CountOK
  BY <1>1, Counting
<1>3. OpenCount = 0
  BY <1>1, <1>2, FS_EmptySet DEF CountOK
<1>4. \A account : OpenCountOf(account) = 0
  BY <1>1, FS_EmptySet DEF OpenCountOf, ActiveOrders
<1> QED
  BY <1>1, <1>3, <1>4, ConfigAssumption DEF LimitInv, LimitOK, Init

LEMMA LimitSubmit ==
  ASSUME LimitInv, NEW req \in Requests, Submit(req)
  PROVE  LimitInv'
<1>1. IndexInv /\ IndexInv' /\ TypeInv
  BY IndexSubmit DEF LimitInv, IndexInv
<1>2. /\ Incoming(req) \in Order /\ Incoming(req).kind = req.kind
      /\ Incoming(req).account = req.account
  BY <1>1, IncomingType DEF Incoming, MakeOrder
<1>3. Admitted(req) /\ req.kind \in {"limit", "post_only", "stop_limit", "stop_market"}
        => Room(req.account)
  BY DEF Admitted, Validates, ValidBase, OpensOrder, Room
<1>4. CASE RejectInvalid(req) \/ RejectFok(req) \/ BeginExecution(req)
  <2>1. UNCHANGED bookVars
    BY <1>4 DEF RejectInvalid, RejectFok, BeginExecution
  <2>2. ActiveOrders' = ActiveOrders /\ ActiveIds' = ActiveIds
    BY <2>1, ActiveStill
  <2>3. \A account : IdsOf(account)' = IdsOf(account)
    BY <2>2 DEF IdsOf
  <2>4. pc' = "match" /\ taker'.kind \in {"limit", "post_only"} => Room(taker'.account)
    BY <1>2, <1>3, <1>4 DEF RejectInvalid, RejectFok, AcceptAs, Answer, BeginExecution
  <2> QED
    BY <1>1, <2>2, <2>3, <2>4, LimitShrinks
<1>5. CASE AcceptStop(req)
  <2>1. ActiveOrders' = ActiveOrders \cup {Incoming(req)}
    BY <1>1, <1>5, ActiveAcceptStop
  <2>2. Room(Incoming(req).account) /\ pc' # "match"
    BY <1>2, <1>3, <1>5 DEF AcceptStop, AcceptAs, Answer, IsStopOrder
  <2> QED
    BY <1>1, <1>2, <2>1, <2>2, LimitGrows
<1> QED
  BY <1>4, <1>5 DEF Submit

LEMMA LimitFillBest ==
  ASSUME LimitInv, FillBest
  PROVE  LimitInv'
<1>1. IndexInv /\ IndexInv' /\ TypeInv /\ pc = "match" /\ pc' = "match" /\ CanTrade
  BY IndexFillBest DEF LimitInv, IndexInv, FillBest
<1> DEFINE left == BestMaker.remaining - NextAmount
<1>2. /\ BestMaker \in Order /\ NextAmount \in Nat /\ NextAmount <= BestMaker.remaining
      /\ taker \in Order
  BY <1>1, NextTradeType DEF TypeInv, TypeOK
<1>3. /\ BestMaker \in ActiveOrders
      /\ ActiveOrders' =
           (ActiveOrders \ {BestMaker}) \cup
             (IF BestMaker.remaining = NextAmount THEN {}
              ELSE {[BestMaker EXCEPT !.remaining = left]})
  BY <1>1, ActiveFillBest
<1> HIDE DEF left
<1>4. /\ [BestMaker EXCEPT !.remaining = left].id = BestMaker.id
      /\ [BestMaker EXCEPT !.remaining = left].account = BestMaker.account
  BY <1>2 DEF Order
<1>5. ASSUME NEW account PROVE IdsOf(account)' \subseteq IdsOf(account)
  <2> SUFFICES ASSUME NEW order \in ActiveOrders', order.account = account
               PROVE  order.id \in IdsOf(account)
    BY DEF IdsOf
  <2>1. CASE order \in ActiveOrders
    BY <2>1 DEF IdsOf
  <2>2. CASE order \notin ActiveOrders
    <3>1. order = [BestMaker EXCEPT !.remaining = left]
      BY <1>3, <2>2
    <3> QED
      BY <1>3, <1>4, <3>1 DEF IdsOf
  <2> QED
    BY <2>1, <2>2
<1>6. ActiveIds' \subseteq ActiveIds
  <2>1. ActiveOK
    BY <1>1, ActiveUnique
  <2>2. ActiveOK'
    BY <1>1, ActiveUnique, PTL
  <2> QED
    BY <1>3, <1>4, <2>1, <2>2 DEF ActiveOK
<1>7. taker'.kind = taker.kind /\ taker'.account = taker.account
  BY <1>2 DEF FillBest, ReduceTaker, Order
<1> QED
  BY <1>1, <1>5, <1>6, <1>7, LimitShrinks DEF LimitInv, LimitOK

LEMMA LimitSettle ==
  ASSUME LimitInv, Settle
  PROVE  LimitInv'
<1>1. IndexInv /\ IndexInv' /\ TypeInv /\ pc = "match" /\ taker \in Order
  BY IndexSettle DEF LimitInv, IndexInv, TypeInv, TypeOK, Settle
<1>2. pc' # "match"
  BY DEF Settle
<1>3. CASE Rests(levels, taker)
  <2>1. ActiveOrders' = ActiveOrders \cup {taker}
    BY <1>1, <1>3, ActiveSettle
  <2>2. taker.kind \in {"limit", "post_only"}
    BY <1>1, <1>3 DEF TypeInv, ControlOK, Order, OrderKind, IsStopOrder, Rests, Discards
  <2>3. Room(taker.account)
    BY <1>1, <2>2 DEF LimitInv, LimitOK
  <2> QED
    BY <1>1, <1>2, <2>1, <2>3, LimitGrows
<1>4. CASE ~Rests(levels, taker)
  <2>1. UNCHANGED bookVars
    BY <1>4 DEF Settle, bookVars
  <2>2. ActiveOrders' = ActiveOrders /\ ActiveIds' = ActiveIds
    BY <2>1, ActiveStill
  <2>3. \A account : IdsOf(account)' = IdsOf(account)
    BY <2>2 DEF IdsOf
  <2> QED
    BY <1>1, <1>2, <2>2, <2>3, LimitShrinks
<1> QED
  BY <1>3, <1>4

\* The place a triggered stop order leaves is there for the order it becomes.
LEMMA LimitActivateStop ==
  ASSUME LimitInv, ActivateStop
  PROVE  LimitInv'
<1>1. IndexInv /\ IndexInv' /\ TypeInv /\ NextTriggered \in DOMAIN stopOrders
  BY IndexActivateStop DEF LimitInv, IndexInv, ActivateStop
<1> DEFINE stop == stopOrders[NextTriggered]
<1>2. /\ stop \in ActiveOrders /\ stop.id = NextTriggered
      /\ ActiveOrders' = ActiveOrders \ {stop}
  BY <1>1, ActiveActivateStop
<1>3. stop \in Order /\ taker'.account = stop.account
  BY <1>1 DEF TypeInv, TypeOK, IsMap, ActivateStop, Activated, Order
<1> HIDE DEF stop
<1>4. CountOK /\ ActiveOK
  BY <1>1, Counting, ActiveUnique
<1>5. CountOK' /\ ActiveOK'
  BY <1>1, Counting, ActiveUnique, PTL
<1>6. ActiveIds' = ActiveIds \ {stop.id} /\ stop.id \in ActiveIds
  BY <1>2, <1>4, <1>5 DEF ActiveOK
<1>7. \A account : IdsOf(account)' \subseteq IdsOf(account)
  BY <1>2 DEF IdsOf
<1>0. PICK account : account = stop.account
  OBVIOUS
<1>8. stop.id \in IdsOf(account) /\ stop.id \notin IdsOf(account)'
  BY <1>0, <1>2, <1>4 DEF ActiveOK, IdsOf
<1>9. OpenCount' < MaxOpenOrders
  <2>1. /\ IsFiniteSet(ActiveIds) /\ Cardinality(ActiveIds) <= MaxOpenOrders
        /\ OpenCount' = Cardinality(ActiveIds')
    BY <1>4, <1>5 DEF CountOK, LimitInv, LimitOK
  <2> QED
    BY <1>6, <2>1, ConfigAssumption, OneLess
<1>10. account # NoAccount => OpenCountOf(account)' < MaxOpenOrdersPerAccount
  <2> HAVE account # NoAccount
  <2> DEFINE before == IdsOf(account)
             after == IdsOf(account)'
  <2>1. /\ IsFiniteSet(before) /\ OpenCountOf(account) = Cardinality(before)
    BY <1>4, FS_Subset DEF CountOK
  <2>2. OpenCountOf(account)' = Cardinality(after)
    BY <1>5 DEF CountOK
  <2>3. Cardinality(before) <= MaxOpenOrdersPerAccount
    BY <2>1 DEF LimitInv, LimitOK
  <2>4. after \subseteq before /\ after # before
    BY <1>7, <1>8
  <2> HIDE DEF before, after
  <2>5. /\ Cardinality(after) < Cardinality(before)
        /\ Cardinality(after) \in Nat /\ Cardinality(before) \in Nat
    BY <2>1, <2>4, OneLess
  <2> QED
    BY <2>2, <2>3, <2>5, ConfigAssumption
<1>11. Room(taker.account)'
  BY <1>0, <1>3, <1>9, <1>10 DEF Room
<1> QED
  BY <1>1, <1>6, <1>7, <1>11, LimitShrinks

\* The steps that take orders out, or leave the containers alone, and start no order.
LEMMA LimitOthers ==
  ASSUME LimitInv,
         \/ \E id \in ActiveIds : Cancel(id)
         \/ \E id \in ActiveIds : Replace(id)
         \/ \E id \in cancelling : MassCancelOne(id)
         \/ RejectPostOnly \/ SkipStop \/ MassCancel \/ MassCancelDone
         \/ UNCHANGED vars
  PROVE  LimitInv'
<1>1. IndexInv /\ IndexInv' /\ cancelling \subseteq ActiveIds
  <2>1. IndexInv
    BY DEF LimitInv
  <2>2. IndexInv'
    BY <2>1, IndexCommands, IndexOthers
  <2> QED
    BY <2>1, <2>2 DEF IndexInv, TypeInv, ControlOK
<1>2. ActiveOK
  BY <1>1, ActiveUnique
<1>3. ActiveOK'
  BY <1>1, ActiveUnique, PTL
<1>4. ActiveOrders' \subseteq ActiveOrders
  <2>1. CASE \E id \in ActiveIds : CancelOrder(id)
    BY <1>1, <2>1, ActiveCancelOrder
  <2>2. CASE UNCHANGED bookVars
    BY <2>2, ActiveStill
  <2> QED
    BY <1>1, <2>1, <2>2
       DEF Cancel, Replace, MassCancelOne, RejectPostOnly, SkipStop, MassCancel,
           MassCancelDone, vars
<1>5. ActiveIds' \subseteq ActiveIds
  BY <1>2, <1>3, <1>4 DEF ActiveOK
<1>6. \A account : IdsOf(account)' \subseteq IdsOf(account)
  BY <1>4 DEF IdsOf
<1>7. pc' = "match" /\ taker'.kind \in {"limit", "post_only"} => Room(taker'.account)
  BY DEF LimitInv, LimitOK, Cancel, Replace, MassCancelOne, Answer, RejectPostOnly,
         SkipStop, MassCancel, MassCancelDone, vars, controlVars
<1> QED
  BY <1>1, <1>5, <1>6, <1>7, LimitShrinks

LEMMA LimitStep == LimitInv /\ [Next]_vars => LimitInv'
<1> SUFFICES ASSUME LimitInv, [Next]_vars PROVE LimitInv'
  OBVIOUS
<1>1. CASE EngineStep
  BY <1>1, LimitSubmit, LimitFillBest, LimitSettle, LimitActivateStop, LimitOthers
     DEF EngineStep
<1>2. CASE Command
  BY <1>2, LimitSubmit, LimitOthers DEF Command
<1>3. CASE UNCHANGED vars
  BY <1>3, LimitOthers
<1> QED
  BY <1>1, <1>2, <1>3 DEF Next

\* The open-order limits of the whole book and of each account hold at all times,
\* whatever the limits are, although they are checked only when an order is admitted
\* and a triggered stop order may come to rest later (reject_reason.rs:43-56).
THEOREM LimitsHold == Spec => []OpenOrdersBounded
<1>1. Spec => []LimitInv
  BY LimitInit, LimitStep, PTL DEF Spec
<1>2. LimitInv => OpenOrdersBounded
  BY DEF LimitInv, LimitOK, OpenOrdersBounded
<1> QED
  BY <1>1, <1>2, PTL
=============================================================================
