--------------------------- MODULE RecoveryProofs ---------------------------
(***************************************************************************)
(* What snapshots and replay give back, for every instance: a restored     *)
(* snapshot is the book it was taken of, and the journal replayed from the *)
(* latest checkpoint is the book the engine has, as long as the engine     *)
(* does nothing its events do not tell.                                    *)
(***************************************************************************)
EXTENDS Recovery, ActiveProofs

(***************************************************************************)
(* The folds of restore and replay.                                        *)
(***************************************************************************)

Join(left, right) == left \o right

\* No relation is asked for: the lemmas cited do not use it.
Unrelated(base, after) == FALSE

Restoring == INSTANCE FoldProofs WITH Op <- RestActive, Rel <- Unrelated
Joining   == INSTANCE FoldProofs WITH Op <- Join, Rel <- Unrelated

LEMMA RestoreFolds ==
  ASSUME NEW base, NEW orders
  PROVE  FoldLeft(RestActive, base, orders) = Restoring!Fold(base, orders)
BY DEF FoldLeft, MapThenFoldSet, Max, Restoring!Fold, Restoring!Recursion, Restoring!Greatest

LEMMA JoinFolds ==
  ASSUME NEW base, NEW parts
  PROVE  FoldLeft(\o, base, parts) = Joining!Fold(base, parts)
BY DEF FoldLeft, MapThenFoldSet, Max, Joining!Fold, Joining!Recursion, Joining!Greatest, Join

(***************************************************************************)
(* One queue, changed twice.                                               *)
(***************************************************************************)

\* One side of the book with another queue at a price.
WithQueue(side, price, queue) ==
  IF queue = <<>>
    THEN Restrict(side, DOMAIN side \ {price})
    ELSE [p \in DOMAIN side \cup {price} |-> IF p = price THEN queue ELSE side[p]]

LEMMA SetQueueIs ==
  ASSUME NEW book, DOMAIN book = Side, NEW side \in Side, NEW price, NEW queue
  PROVE  SetQueue(book, side, price, queue)
           = [s \in Side |-> IF s = side THEN WithQueue(book[s], price, queue) ELSE book[s]]
<1>1. DOMAIN SetQueue(book, side, price, queue) = Side
  BY DEF SetQueue
<1>2. \A s \in Side : SetQueue(book, side, price, queue)[s]
                        = IF s = side THEN WithQueue(book[s], price, queue) ELSE book[s]
  BY DEF SetQueue, WithQueue
<1>3. SetQueue(book, side, price, queue)
        = [s \in DOMAIN SetQueue(book, side, price, queue) |->
             SetQueue(book, side, price, queue)[s]]
  BY DEF SetQueue
<1> QED
  BY <1>1, <1>2, <1>3

\* The queue set last is the one that stays.
LEMMA WithQueueTwice ==
  ASSUME NEW side, NEW price, NEW first, NEW last
  PROVE  /\ WithQueue(WithQueue(side, price, first), price, last)
              = WithQueue(side, price, last)
         /\ LET after == WithQueue(side, price, first)
            IN  (IF price \in DOMAIN after THEN after[price] ELSE <<>>) = first
<1> DEFINE after == WithQueue(side, price, first)
<1>1. /\ DOMAIN after = IF first = <<>> THEN DOMAIN side \ {price}
                                        ELSE DOMAIN side \cup {price}
      /\ \A p \in DOMAIN after : after[p] = IF p = price THEN first ELSE side[p]
  BY DEF WithQueue, Restrict
<1> HIDE DEF after
<1>2. CASE last = <<>>
  <2>1. DOMAIN after \ {price} = DOMAIN side \ {price}
    BY <1>1
  <2>2. WithQueue(after, price, last) = WithQueue(side, price, last)
    BY <1>1, <1>2, <2>1 DEF WithQueue, Restrict
  <2> QED
    BY <1>1, <2>2 DEF after
<1>3. CASE last # <<>>
  <2>1. DOMAIN after \cup {price} = DOMAIN side \cup {price}
    BY <1>1
  <2>2. WithQueue(after, price, last) = WithQueue(side, price, last)
    BY <1>1, <1>3, <2>1 DEF WithQueue
  <2> QED
    BY <1>1, <2>2 DEF after
<1> QED
  BY <1>2, <1>3

LEMMA SetQueueTwice ==
  ASSUME NEW book, DOMAIN book = Side, NEW side \in Side, NEW price, NEW first, NEW last
  PROVE  LET after == SetQueue(book, side, price, first)
         IN  /\ DOMAIN after = Side
             /\ Queue(after, side, price) = first
             /\ SetQueue(after, side, price, last) = SetQueue(book, side, price, last)
<1> DEFINE after == SetQueue(book, side, price, first)
<1>1. /\ DOMAIN after = Side
      /\ \A s \in Side : after[s] = IF s = side THEN WithQueue(book[s], price, first)
                                                ELSE book[s]
  BY SetQueueIs
<1> HIDE DEF after
<1>2. Queue(after, side, price) = first
  <2> DEFINE level == WithQueue(book[side], price, first)
  <2>1. after[side] = level
    BY <1>1
  <2>2. (IF price \in DOMAIN level THEN level[price] ELSE <<>>) = first
    BY WithQueueTwice
  <2> HIDE DEF level
  <2> QED
    BY <2>1, <2>2 DEF Queue
<1>3. SetQueue(after, side, price, last)
        = [s \in Side |-> IF s = side THEN WithQueue(after[s], price, last) ELSE after[s]]
  BY <1>1, SetQueueIs
<1>4. SetQueue(book, side, price, last)
        = [s \in Side |-> IF s = side THEN WithQueue(book[s], price, last) ELSE book[s]]
  BY SetQueueIs
<1>5. WithQueue(after[side], price, last) = WithQueue(book[side], price, last)
  BY <1>1, WithQueueTwice
<1>6. \A s \in Side :
        (IF s = side THEN WithQueue(after[s], price, last) ELSE after[s])
          = (IF s = side THEN WithQueue(book[s], price, last) ELSE book[s])
  BY <1>1, <1>5
<1>7. SetQueue(after, side, price, last) = SetQueue(book, side, price, last)
  BY <1>3, <1>4, <1>6
<1> QED
  BY <1>1, <1>2, <1>7 DEF after

\* Changes on different sides do not meet.
LEMMA SetQueueApart ==
  ASSUME NEW book, DOMAIN book = Side, NEW one \in Side, NEW two \in Side, one # two,
         NEW p, NEW q, NEW first, NEW second
  PROVE  /\ SetQueue(SetQueue(book, one, p, first), two, q, second)
              = SetQueue(SetQueue(book, two, q, second), one, p, first)
         /\ Queue(SetQueue(book, one, p, first), two, q) = Queue(book, two, q)
         /\ SetQueue(book, one, p, first)[two] = book[two]
<1> DEFINE a == SetQueue(book, one, p, first)
           b == SetQueue(book, two, q, second)
<1>1. /\ DOMAIN a = Side
      /\ \A s \in Side : a[s] = IF s = one THEN WithQueue(book[s], p, first) ELSE book[s]
  BY SetQueueIs
<1>2. /\ DOMAIN b = Side
      /\ \A s \in Side : b[s] = IF s = two THEN WithQueue(book[s], q, second) ELSE book[s]
  BY SetQueueIs
<1> HIDE DEF a, b
<1>3. SetQueue(a, two, q, second)
        = [s \in Side |-> IF s = two THEN WithQueue(a[s], q, second) ELSE a[s]]
  BY <1>1, SetQueueIs
<1>4. SetQueue(b, one, p, first)
        = [s \in Side |-> IF s = one THEN WithQueue(b[s], p, first) ELSE b[s]]
  BY <1>2, SetQueueIs
<1>5. SetQueue(a, two, q, second) = SetQueue(b, one, p, first)
  BY <1>1, <1>2, <1>3, <1>4
<1>6. a[two] = book[two] /\ Queue(a, two, q) = Queue(book, two, q)
  BY <1>1 DEF Queue
<1> QED
  BY <1>5, <1>6 DEF a, b

(***************************************************************************)
(* A snapshot, restored.  What is asked of the book is that its containers *)
(* agree and that no stop order rests in a level.  The orders go back      *)
(* level by level: in between the book is the part of the whole one that   *)
(* the levels restored so far make up.                                     *)
(***************************************************************************)

\* No resting order waits for a stop price.
RestingKinds ==
  \A side \in Side : \A price \in DOMAIN levels[side] : \A i \in DOMAIN levels[side][price] :
    ~IsStopOrder(levels[side][price][i].kind)

WholeBook ==
  /\ IsLevels(levels) /\ levels = [side \in Side |-> levels[side]]
  /\ IsMap(orderIndex, Nat, Location) /\ Agree(levels, orderIndex)
  /\ IsMap(stopOrders, Nat, Order)
  /\ \A id \in DOMAIN stopOrders :
       /\ stopOrders[id].id = id /\ IsStopOrder(stopOrders[id].kind)
       /\ id < nextOrderId
  /\ nextOrderId \in Nat
  /\ RestingKinds

\* The book value with these containers, and the rest as it is.
Value(books, index, stops) ==
  [nextOrderId |-> nextOrderId, nextTradeId |-> nextTradeId, sequence |-> sequence,
   levels |-> books, orderIndex |-> index, stopOrders |-> stops,
   history |-> history, recentTrades |-> recentTrades]

LEMMA RestStop ==
  ASSUME NEW books, NEW index, NEW stops, NEW order, IsStopOrder(order.kind)
  PROVE  RestActive(Value(books, index, stops), order)
           = Value(books, index, Put(stops, order.id, order))
BY DEF RestActive, Value

LEMMA RestOrder ==
  ASSUME NEW books, NEW index, NEW stops, NEW order,
         ~IsStopOrder(order.kind), order.price # None
  PROVE  RestActive(Value(books, index, stops), order)
           = Value(Push(books, order),
                   Put(index, order.id, [side |-> order.side, price |-> order.price]), stops)
BY DEF RestActive, Value

\* The levels at the places P, and the orders known to be there.
LevelsAt(P) ==
  [s \in Side |-> Restrict(levels[s], {p \in DOMAIN levels[s] : [side |-> s, price |-> p] \in P})]

KnownAt(P) == {id \in DOMAIN orderIndex : orderIndex[id] \in P}

Part(P) == Value(LevelsAt(P), Restrict(orderIndex, KnownAt(P)), stopOrders)

\* The queue of a place holds the orders the index knows there.
LEMMA QueueKnown ==
  ASSUME WholeBook, NEW side \in Side, NEW price \in Price
  PROVE  LET queue == Queue(levels, side, price)
         IN  /\ queue \in Seq(Order) /\ DOMAIN queue = 1..Len(queue) /\ Len(queue) \in Nat
             /\ \A i \in DOMAIN queue :
                  /\ queue[i] \in Order
                  /\ queue[i].side = side /\ queue[i].price = price
                  /\ ~IsStopOrder(queue[i].kind)
                  /\ queue[i].id \in DOMAIN orderIndex
                  /\ orderIndex[queue[i].id] = [side |-> side, price |-> price]
             /\ KnownAt({[side |-> side, price |-> price]}) = {queue[i].id : i \in DOMAIN queue}
             /\ queue = <<>> <=> price \notin DOMAIN levels[side]
<1> DEFINE queue == Queue(levels, side, price)
<1>0. IsLevels(levels)
  BY DEF WholeBook
<1>1. queue \in Seq(Order) /\ DOMAIN queue = 1..Len(queue) /\ Len(queue) \in Nat
  <2>1. queue \in Seq(Order)
    BY <1>0, QueueType
  <2> HIDE DEF queue
  <2> QED
    BY <2>1, LenProperties
<1>2. \A i \in DOMAIN queue : InPlace(queue, i, side, price, orderIndex)
  BY DEF WholeBook, Agree
<1>3. queue = <<>> <=> price \notin DOMAIN levels[side]
  BY DEF WholeBook, Agree, Queue
<1>4. \A i \in DOMAIN queue : ~IsStopOrder(queue[i].kind)
  BY <1>3 DEF WholeBook, RestingKinds, Queue
<1>5. \A i \in DOMAIN queue : queue[i] \in Order
  BY <1>1, ElementOfSeq
<1>6. \A id \in DOMAIN orderIndex :
        orderIndex[id] = [side |-> side, price |-> price] => \E i \in DOMAIN queue : queue[i].id = id
  <2>1. Agree(levels, orderIndex)
    BY DEF WholeBook
  <2> QED
    BY <2>1 DEF Agree
<1> HIDE DEF queue
<1>7. KnownAt({[side |-> side, price |-> price]}) = {queue[i].id : i \in DOMAIN queue}
  BY <1>2, <1>6 DEF KnownAt, InPlace
<1> QED
  BY <1>1, <1>2, <1>3, <1>4, <1>5, <1>7 DEF InPlace, queue

\* One more level.
LEMMA RestoreQueue ==
  ASSUME WholeBook, NEW side \in Side, NEW price \in Price, NEW P,
         [side |-> side, price |-> price] \notin P
  PROVE  Restoring!Fold(Part(P), Queue(levels, side, price))
           = Part(P \cup {[side |-> side, price |-> price]})
<1> DEFINE queue == Queue(levels, side, price)
           place == [side |-> side, price |-> price]
           before == LevelsAt(P)
           front(n) == SubSeq(queue, 1, n)
           books(n) == SetQueue(before, side, price, front(n))
           ids(n) == KnownAt(P) \cup {queue[i].id : i \in 1..n}
           acc == [n \in 0..Len(queue) |->
                     Value(books(n), Restrict(orderIndex, ids(n)), stopOrders)]
<1>1. /\ queue \in Seq(Order) /\ DOMAIN queue = 1..Len(queue) /\ Len(queue) \in Nat
      /\ \A i \in DOMAIN queue :
           /\ queue[i] \in Order
           /\ queue[i].side = side /\ queue[i].price = price
           /\ ~IsStopOrder(queue[i].kind)
           /\ queue[i].id \in DOMAIN orderIndex
           /\ orderIndex[queue[i].id] = place
      /\ KnownAt({place}) = {queue[i].id : i \in DOMAIN queue}
      /\ queue = <<>> <=> price \notin DOMAIN levels[side]
  BY QueueKnown
<1>2. price \in DOMAIN levels[side] => queue = levels[side][price]
  BY DEF Queue
<1>3. /\ DOMAIN before = Side
      /\ \A s \in Side : /\ DOMAIN before[s] = {p \in DOMAIN levels[s] :
                                                   [side |-> s, price |-> p] \in P}
                         /\ \A p \in DOMAIN before[s] : before[s][p] = levels[s][p]
                         /\ before[s] = [p \in DOMAIN before[s] |-> before[s][p]]
  BY DEF LevelsAt, Restrict
<1>4. front(0) = <<>> /\ front(Len(queue)) = queue
  BY <1>1
<1>5. \A n \in 1..Len(queue) : front(n) = Append(front(n - 1), queue[n])
  BY <1>1
<1>6. price \in Nat /\ price # None
  BY ConfigAssumption DEF Price, None
<1> HIDE DEF queue, before, front
<1>7. acc[0] = Part(P)
  <2>1. books(0) = before
    <3>1. WithQueue(before[side], price, <<>>) = before[side]
      <4>1. DOMAIN before[side] \ {price} = DOMAIN before[side]
        BY <1>3
      <4> QED
        BY <1>3, <4>1 DEF WithQueue, Restrict
    <3>2. books(0) = [s \in Side |-> IF s = side THEN WithQueue(before[s], price, <<>>)
                                                 ELSE before[s]]
      BY <1>3, <1>4, SetQueueIs
    <3>3. books(0) = [s \in Side |-> before[s]]
      BY <3>1, <3>2
    <3>4. before = [s \in Side |-> before[s]]
      BY DEF before, LevelsAt
    <3> QED
      BY <3>3, <3>4
  <2>2. ids(0) = KnownAt(P)
    OBVIOUS
  <2>3. acc[0] = Value(books(0), Restrict(orderIndex, ids(0)), stopOrders)
    BY <1>1
  <2> HIDE DEF acc, books, ids
  <2> QED
    BY <2>1, <2>2, <2>3 DEF Part, before
<1>8. acc[Len(queue)] = Part(P \cup {place})
  <2> DEFINE after == LevelsAt(P \cup {place})
  <2>1. /\ DOMAIN after = Side
        /\ \A s \in Side : /\ DOMAIN after[s] = {p \in DOMAIN levels[s] :
                                         [side |-> s, price |-> p] \in P \cup {place}}
                           /\ \A p \in DOMAIN after[s] : after[s][p] = levels[s][p]
                           /\ after[s] = [p \in DOMAIN after[s] |-> after[s][p]]
        /\ after = [s \in Side |-> after[s]]
    BY DEF LevelsAt, Restrict
  <2> HIDE DEF after
  <2>2. \A s \in Side \ {side} : after[s] = before[s]
    <3> TAKE s \in Side \ {side}
    <3>1. DOMAIN after[s] = DOMAIN before[s]
      BY <1>3, <2>1
    <3> QED
      BY <1>3, <2>1, <3>1
  <2>3. WithQueue(before[side], price, queue) = after[side]
    <3>0. /\ \A p : [side |-> side, price |-> p] \in P \cup {place}
                    <=> [side |-> side, price |-> p] \in P \/ p = price
          /\ [side |-> side, price |-> price] \notin P
      OBVIOUS
    <3>a. /\ DOMAIN before[side] = {p \in DOMAIN levels[side] : [side |-> side, price |-> p] \in P}
          /\ \A p \in DOMAIN before[side] : before[side][p] = levels[side][p]
          /\ before[side] = [p \in DOMAIN before[side] |-> before[side][p]]
      BY <1>3
    <3>b. /\ DOMAIN after[side] = {p \in DOMAIN levels[side] :
                                     [side |-> side, price |-> p] \in P \cup {place}}
          /\ \A p \in DOMAIN after[side] : after[side][p] = levels[side][p]
          /\ after[side] = [p \in DOMAIN after[side] |-> after[side][p]]
      BY <2>1
    <3> DEFINE old == before[side]
               new == after[side]
    <3> HIDE DEF place, old, new
    <3>1. CASE queue = <<>>
      <4>1. DOMAIN new = DOMAIN old \ {price}
        BY <1>1, <3>0, <3>a, <3>b, <3>1 DEF old, new
      <4>2. \A p \in DOMAIN new : new[p] = old[p]
        BY <3>a, <3>b, <4>1 DEF old, new
      <4>3. new = [p \in DOMAIN new |-> new[p]]
        BY <3>b DEF new
      <4>4. WithQueue(old, price, queue) = new
        BY <3>1, <4>1, <4>2, <4>3 DEF WithQueue, Restrict
      <4> QED
        BY <4>4 DEF old, new
    <3>2. CASE queue # <<>>
      <4>1. DOMAIN new = DOMAIN old \cup {price}
        BY <1>1, <3>0, <3>a, <3>b, <3>2 DEF old, new
      <4>2. new[price] = queue
        BY <1>1, <1>2, <3>b, <3>2, <4>1 DEF new
      <4>3. \A p \in DOMAIN new : new[p] = IF p = price THEN queue ELSE old[p]
        BY <3>a, <3>b, <4>1, <4>2 DEF old, new
      <4>4. new = [p \in DOMAIN new |-> new[p]]
        BY <3>b DEF new
      <4>5. WithQueue(old, price, queue) = new
        BY <3>2, <4>1, <4>3, <4>4 DEF WithQueue
      <4> QED
        BY <4>5 DEF old, new
    <3> QED
      BY <3>1, <3>2
  <2>4. books(Len(queue)) = after
    <3>1. books(Len(queue)) = [s \in Side |-> IF s = side THEN WithQueue(before[s], price, queue)
                                                          ELSE before[s]]
      BY <1>3, <1>4, SetQueueIs
    <3>2. books(Len(queue)) = [s \in Side |-> after[s]]
      BY <2>2, <2>3, <3>1
    <3> QED
      BY <2>1, <3>2
  <2>5. ids(Len(queue)) = KnownAt(P \cup {place})
    <3>1. KnownAt(P \cup {place}) = KnownAt(P) \cup KnownAt({place})
      BY DEF KnownAt
    <3> QED
      BY <1>1, <3>1
  <2>6. acc[Len(queue)]
          = Value(books(Len(queue)), Restrict(orderIndex, ids(Len(queue))), stopOrders)
    BY <1>1
  <2> HIDE DEF acc, books, ids, place
  <2> QED
    BY <2>4, <2>5, <2>6 DEF Part, after
<1>9. \A n \in 1..Len(queue) : acc[n] = RestActive(acc[n - 1], queue[n])
  <2> TAKE n \in 1..Len(queue)
  <2>1. n \in DOMAIN queue /\ n - 1 \in 0..Len(queue) /\ n \in 0..Len(queue)
    BY <1>1
  <2>2. Push(books(n - 1), queue[n]) = books(n)
    <3>1. Push(books(n - 1), queue[n])
            = SetQueue(books(n - 1), side, price,
                       Append(Queue(books(n - 1), side, price), queue[n]))
      BY <1>1, <2>1 DEF Push
    <3>2. /\ Queue(books(n - 1), side, price) = front(n - 1)
          /\ SetQueue(books(n - 1), side, price, front(n)) = books(n)
      BY <1>3, SetQueueTwice
    <3> QED
      BY <1>5, <3>1, <3>2
  <2>3. Put(Restrict(orderIndex, ids(n - 1)), queue[n].id, place)
          = Restrict(orderIndex, ids(n))
    <3>1. ids(n) = ids(n - 1) \cup {queue[n].id}
      <4>1. \A i : i \in 1..n <=> i \in 1..(n - 1) \/ i = n
        BY <1>1, <2>1
      <4> QED
        BY <4>1
    <3>2. orderIndex[queue[n].id] = place
      BY <1>1, <2>1
    <3> HIDE DEF ids, place
    <3> QED
      BY <3>1, <3>2 DEF Put, Restrict
  <2>4. ~IsStopOrder(queue[n].kind) /\ queue[n].price # None
        /\ place = [side |-> queue[n].side, price |-> queue[n].price]
    BY <1>1, <1>6, <2>1
  <2>5. acc[n - 1] = Value(books(n - 1), Restrict(orderIndex, ids(n - 1)), stopOrders)
        /\ acc[n] = Value(books(n), Restrict(orderIndex, ids(n)), stopOrders)
    BY <2>1
  <2> HIDE DEF acc, books, ids, place
  <2> QED
    BY <2>2, <2>3, <2>4, <2>5, RestOrder
<1>10. Restoring!Steps(Part(P), queue, acc)
  <2> HIDE DEF acc
  <2> QED
    BY <1>7, <1>9 DEF Restoring!Steps
<1>11. Restoring!Fold(Part(P), queue) = acc[Len(queue)]
  <2> HIDE DEF acc
  <2> QED
    BY <1>1, <1>10, Restoring!FoldIs
<1> HIDE DEF acc
<1> QED
  BY <1>8, <1>11 DEF queue

\* The places of one side with the n best prices.
BestPlaces(side, n) == {[side |-> side, price |-> PriceAt(side, i)] : i \in 1..n}

\* Every price has its turn, once.
LEMMA PricesInTurn ==
  ASSUME NEW side \in Side
  PROVE  /\ \A i \in Price : PriceAt(side, i) \in Price
         /\ \A i, j \in Price : PriceAt(side, i) = PriceAt(side, j) => i = j
         /\ BestPlaces(side, MaxOrderNotional) = {[side |-> side, price |-> p] : p \in Price}
<1>1. MaxOrderNotional \in Nat
  BY ConfigAssumption
<1>2. \A i \in Price : PriceAt(side, i) \in Price
  BY <1>1 DEF PriceAt, Price
<1>3. \A i, j \in Price : PriceAt(side, i) = PriceAt(side, j) => i = j
  BY <1>1 DEF PriceAt, Price
<1>4. \A p \in Price : PriceAt(side, PriceAt(side, p)) = p
  BY <1>1 DEF PriceAt, Price
<1>5. BestPlaces(side, MaxOrderNotional) = {[side |-> side, price |-> p] : p \in Price}
  BY <1>2, <1>4 DEF BestPlaces, Price
<1> QED
  BY <1>2, <1>3, <1>5

\* One side, level by level from its best price.
LEMMA RestoreSide ==
  ASSUME WholeBook, NEW side \in Side, NEW P, \A p \in Price : [side |-> side, price |-> p] \notin P
  PROVE  /\ ByPriority(side) \in Seq(Order)
         /\ Restoring!Fold(Part(P), ByPriority(side))
              = Part(P \cup {[side |-> side, price |-> p] : p \in Price})
<1> DEFINE queues == [i \in Price |-> Queue(levels, side, PriceAt(side, i))]
           joined(n) == Joining!Fold(<<>>, SubSeq(queues, 1, n))
           Right(n) == /\ joined(n) \in Seq(Order)
                       /\ Restoring!Fold(Part(P), joined(n)) = Part(P \cup BestPlaces(side, n))
           bad == {n \in 0..MaxOrderNotional : ~Right(n)}
<1>1. MaxOrderNotional \in Nat /\ Price = 1..MaxOrderNotional
  BY ConfigAssumption DEF Price
<1>2. \A i \in Price : queues[i] = Queue(levels, side, PriceAt(side, i)) /\ queues[i] \in Seq(Order)
  BY PricesInTurn, QueueKnown
<1>3. /\ queues \in Seq(Seq(Order)) /\ Len(queues) = MaxOrderNotional
      /\ SubSeq(queues, 1, MaxOrderNotional) = queues /\ SubSeq(queues, 1, 0) = <<>>
  <2>1. DOMAIN queues = 1..MaxOrderNotional
    BY <1>1
  <2>2. queues = [i \in 1..MaxOrderNotional |-> queues[i]]
    BY <1>1
  <2>3. \A i \in 1..MaxOrderNotional : queues[i] \in Seq(Order)
    BY <1>1, <1>2
  <2> HIDE DEF queues
  <2>4. queues \in [1..MaxOrderNotional -> Seq(Order)]
    BY <2>2, <2>3
  <2>5. queues \in Seq(Seq(Order)) /\ Len(queues) = MaxOrderNotional
    BY <1>1, <2>4, SeqDef, LenProperties
  <2> QED
    BY <1>1, <2>5
<1>4. ByPriority(side) = Joining!Fold(<<>>, queues)
  BY JoinFolds DEF ByPriority
<1> HIDE DEF queues
<1>5. bad = {}
  <2>1. SUFFICES ASSUME bad # {} PROVE FALSE
    OBVIOUS
  <2>2. PICK n \in bad : \A m \in bad : n <= m
    <3>1. bad \subseteq Nat
      BY <1>1
    <3> HIDE DEF bad
    <3> QED
      BY <2>1, <3>1, LeastNatural
  <2>3. n \in 0..MaxOrderNotional /\ ~Right(n)
    OBVIOUS
  <2>4. Right(0)
    <3>1. joined(0) = <<>>
      BY <1>3, Joining!FoldEmpty
    <3>2. BestPlaces(side, 0) = {}
      BY DEF BestPlaces
    <3>3. P \cup BestPlaces(side, 0) = P
      BY <3>2
    <3>4. Restoring!Fold(Part(P), joined(0)) = Part(P)
      BY <3>1, Restoring!FoldEmpty
    <3> HIDE DEF joined
    <3> QED
      BY <3>1, <3>3, <3>4, EmptySeq
  <2>5. n \in 1..MaxOrderNotional /\ Right(n - 1)
    <3>1. n # 0
      BY <2>3, <2>4
    <3>2. n \in 1..MaxOrderNotional /\ n - 1 \in 0..MaxOrderNotional /\ n - 1 < n
      BY <1>1, <2>3, <3>1
    <3>3. n - 1 \notin bad
      BY <1>1, <2>2, <3>2
    <3> QED
      BY <3>2, <3>3
  <2> DEFINE place == [side |-> side, price |-> PriceAt(side, n)]
             one == SubSeq(queues, 1, n - 1)
  <2>6. joined(n) = joined(n - 1) \o queues[n]
    <3>1. one \in Seq(Seq(Order)) /\ queues[n] \in Seq(Order)
          /\ SubSeq(queues, 1, n) = Append(one, queues[n])
      BY <1>1, <1>2, <1>3, <2>5
    <3> HIDE DEF one
    <3>2. Joining!Fold(<<>>, Append(one, queues[n])) = Join(Joining!Fold(<<>>, one), queues[n])
      BY <3>1, Joining!FoldAppend
    <3> QED
      BY <3>1, <3>2 DEF Join, one
  <2>7. joined(n - 1) \in Seq(Order) /\ queues[n] \in Seq(Order)
    BY <1>1, <1>2, <2>5
  <2>8. place \notin P \cup BestPlaces(side, n - 1)
    <3>1. PriceAt(side, n) \in Price /\ place \notin P
      BY <1>1, <2>5, PricesInTurn
    <3>2. \A i \in 1..(n - 1) : i \in Price /\ n \in Price /\ i # n
      BY <1>1, <2>5
    <3>3. \A i \in 1..(n - 1) : PriceAt(side, i) # PriceAt(side, n)
      BY <3>2, PricesInTurn
    <3> QED
      BY <3>1, <3>3 DEF BestPlaces
  <2>9. P \cup BestPlaces(side, n) = (P \cup BestPlaces(side, n - 1)) \cup {place}
    <3>1. \A i : i \in 1..n <=> i \in 1..(n - 1) \/ i = n
      BY <1>1, <2>5
    <3> QED
      BY <3>1 DEF BestPlaces
  <2>10. Restoring!Fold(Part(P), joined(n))
           = Restoring!Fold(Part(P \cup BestPlaces(side, n - 1)), queues[n])
    <3> HIDE DEF joined
    <3>1. Restoring!Fold(Part(P), joined(n - 1) \o queues[n])
            = Restoring!Fold(Restoring!Fold(Part(P), joined(n - 1)), queues[n])
      BY <2>7, Restoring!FoldConcat
    <3> QED
      BY <2>5, <2>6, <3>1
  <2>11. Restoring!Fold(Part(P \cup BestPlaces(side, n - 1)), queues[n])
           = Part((P \cup BestPlaces(side, n - 1)) \cup {place})
    <3>1. PriceAt(side, n) \in Price /\ queues[n] = Queue(levels, side, PriceAt(side, n))
      BY <1>1, <1>2, <2>5, PricesInTurn
    <3> QED
      BY <2>8, <3>1, RestoreQueue
  <2>12. joined(n) \in Seq(Order)
    BY <2>6, <2>7, ConcatProperties
  <2> HIDE DEF joined, place
  <2>13. Restoring!Fold(Part(P), joined(n)) = Part(P \cup BestPlaces(side, n))
    BY <2>9, <2>10, <2>11
  <2> QED
    BY <2>3, <2>12, <2>13
<1>6. Right(MaxOrderNotional)
  <2> HIDE DEF Right
  <2>1. MaxOrderNotional \in 0..MaxOrderNotional
    BY <1>1
  <2> QED
    BY <1>5, <2>1
<1>7. joined(MaxOrderNotional) = ByPriority(side)
  BY <1>3, <1>4
<1>8. BestPlaces(side, MaxOrderNotional) = {[side |-> side, price |-> p] : p \in Price}
  BY PricesInTurn
<1> HIDE DEF joined
<1> QED
  BY <1>6, <1>7, <1>8

LEMMA EmptyFunction ==
  ASSUME NEW f
  PROVE  Restrict(f, {}) = <<>>
<1>1. <<>> = [x \in DOMAIN <<>> |-> <<>>[x]] /\ DOMAIN <<>> = {}
  OBVIOUS
<1>2. Restrict(f, {}) = [x \in {} |-> f[x]]
  BY DEF Restrict
<1> QED
  BY <1>1, <1>2

\* The stop orders of the book as a sequence, in any order.
LEMMA StopsListed ==
  ASSUME WholeBook
  PROVE  LET list == SetToSeq(StopsOf(stopOrders))
         IN  /\ list \in Seq(StopsOf(stopOrders))
             /\ StopsOf(stopOrders) \subseteq Order
             /\ \A order \in StopsOf(stopOrders) :
                  /\ IsStopOrder(order.kind)
                  /\ order.id \in DOMAIN stopOrders /\ stopOrders[order.id] = order
             /\ \A id \in DOMAIN stopOrders : \E i \in DOMAIN list : list[i].id = id
<1> DEFINE stops == StopsOf(stopOrders)
           n == Cardinality(stops)
           list == SetToSeq(stops)
<1>1. /\ stops \subseteq Order
      /\ \A order \in stops :
           /\ IsStopOrder(order.kind)
           /\ order.id \in DOMAIN stopOrders /\ stopOrders[order.id] = order
      /\ \A id \in DOMAIN stopOrders : stopOrders[id] \in stops /\ stopOrders[id].id = id
  BY DEF WholeBook, StopsOf, IsMap
<1>2. IsFiniteSet(stops)
  <2> DEFINE ids == DOMAIN stopOrders
             f == [id \in ids |-> stopOrders[id]]
  <2>1. ids \subseteq 0..nextOrderId /\ nextOrderId \in Nat
    BY DEF WholeBook, IsMap
  <2>2. IsFiniteSet(ids)
    <3>1. IsFiniteSet(0..nextOrderId)
      BY <2>1, FS_Interval
    <3> QED
      BY <2>1, <3>1, FS_Subset
  <2>3. f \in Surjection(ids, stops)
    BY DEF Surjection, StopsOf
  <2> HIDE DEF f, ids, stops
  <2> QED
    BY <2>2, <2>3, FS_Surjection
<1>3. n \in Nat /\ ExistsBijection(1..n, stops)
  BY <1>2, FS_CardinalityType
<1>4. list \in [1..n -> stops] /\ IsInjective(list)
  <2>1. \E f \in [1..n -> stops] : IsInjective(f)
    BY <1>3 DEF ExistsBijection, Bijection, Injection
  <2> HIDE DEF stops
  <2> QED
    BY <2>1 DEF SetToSeq
<1> HIDE DEF list, stops, n
<1>5. list \in Surjection(1..n, stops)
  <2>1. list \in Injection(1..n, stops)
    BY <1>4 DEF Injection
  <2>2. Cardinality(1..n) = n
    BY <1>3, FS_Interval
  <2>3. Cardinality(1..n) = Cardinality(stops)
    BY <2>2 DEF n
  <2> QED
    BY <1>2, <2>1, <2>3, FS_Injection
<1>6. \A order \in stops : \E i \in 1..n : list[i] = order
  BY <1>5 DEF Surjection
<1>7. DOMAIN list = 1..n
  BY <1>4
<1>8. list \in Seq(stops)
  BY <1>3, <1>4, SeqDef
<1>9. \A id \in DOMAIN stopOrders : \E i \in DOMAIN list : list[i].id = id
  BY <1>1, <1>6, <1>7
<1> QED
  BY <1>1, <1>8, <1>9 DEF list, stops

LEMMA RestoreStops ==
  ASSUME WholeBook
  PROVE  Restoring!Fold(Value(EmptyLevels, <<>>, <<>>), SetToSeq(StopsOf(stopOrders))) = Part({})
<1> DEFINE list == SetToSeq(StopsOf(stopOrders))
           ids(n) == {list[i].id : i \in 1..n}
           acc == [n \in 0..Len(list) |->
                     Value(EmptyLevels, <<>>, Restrict(stopOrders, ids(n)))]
<1>1. /\ list \in Seq(StopsOf(stopOrders))
      /\ \A order \in StopsOf(stopOrders) :
           /\ IsStopOrder(order.kind)
           /\ order.id \in DOMAIN stopOrders /\ stopOrders[order.id] = order
      /\ \A id \in DOMAIN stopOrders : \E i \in DOMAIN list : list[i].id = id
  BY StopsListed
<1>2. /\ Len(list) \in Nat /\ DOMAIN list = 1..Len(list)
      /\ \A i \in 1..Len(list) : list[i] \in StopsOf(stopOrders)
  BY <1>1, LenProperties, ElementOfSeq
<1> HIDE DEF list
<1>3. acc[0] = Value(EmptyLevels, <<>>, <<>>)
  <2>1. ids(0) = {}
    OBVIOUS
  <2>2. acc[0] = Value(EmptyLevels, <<>>, Restrict(stopOrders, ids(0)))
    BY <1>2
  <2> HIDE DEF acc, ids
  <2> QED
    BY <2>1, <2>2, EmptyFunction
<1>4. \A n \in 1..Len(list) : acc[n] = RestActive(acc[n - 1], list[n])
  <2> TAKE n \in 1..Len(list)
  <2>1. n - 1 \in 0..Len(list) /\ n \in 0..Len(list)
    BY <1>2
  <2>2. ids(n) = ids(n - 1) \cup {list[n].id}
    <3>1. \A i : i \in 1..n <=> i \in 1..(n - 1) \/ i = n
      BY <1>2
    <3> QED
      BY <3>1
  <2>3. acc[n - 1] = Value(EmptyLevels, <<>>, Restrict(stopOrders, ids(n - 1)))
        /\ acc[n] = Value(EmptyLevels, <<>>, Restrict(stopOrders, ids(n)))
    BY <2>1
  <2>4. IsStopOrder(list[n].kind) /\ stopOrders[list[n].id] = list[n]
    BY <1>1, <1>2
  <2> HIDE DEF acc, ids
  <2>5. Put(Restrict(stopOrders, ids(n - 1)), list[n].id, list[n]) = Restrict(stopOrders, ids(n))
    BY <2>2, <2>4 DEF Put, Restrict
  <2> DEFINE stops == Restrict(stopOrders, ids(n - 1))
             order == list[n]
  <2> HIDE DEF stops, order
  <2>6. RestActive(Value(EmptyLevels, <<>>, stops), order)
          = Value(EmptyLevels, <<>>, Put(stops, order.id, order))
    <3>1. IsStopOrder(order.kind)
      BY <2>4 DEF order
    <3> QED
      BY <3>1, RestStop
  <2> QED
    BY <2>3, <2>5, <2>6 DEF stops, order
<1>5. acc[Len(list)] = Part({})
  <2>1. ids(Len(list)) = DOMAIN stopOrders
    <3>1. \A i \in 1..Len(list) : list[i].id \in DOMAIN stopOrders
      BY <1>1, <1>2
    <3>2. \A id \in DOMAIN stopOrders : \E i \in 1..Len(list) : list[i].id = id
      BY <1>1, <1>2
    <3> QED
      BY <3>1, <3>2
  <2>2. Restrict(stopOrders, DOMAIN stopOrders) = stopOrders
    BY DEF WholeBook, IsMap, Restrict
  <2>3. acc[Len(list)] = Value(EmptyLevels, <<>>, Restrict(stopOrders, ids(Len(list))))
    BY <1>2
  <2> HIDE DEF acc, ids
  <2>4. LevelsAt({}) = EmptyLevels
    <3>1. \A s \in Side : {p \in DOMAIN levels[s] : [side |-> s, price |-> p] \in {}} = {}
      OBVIOUS
    <3> QED
      BY <3>1, EmptyFunction DEF LevelsAt, EmptyLevels
  <2>5. KnownAt({}) = {}
    BY DEF KnownAt
  <2> QED
    BY <2>1, <2>2, <2>3, <2>4, <2>5, EmptyFunction DEF Part
<1>6. Restoring!Steps(Value(EmptyLevels, <<>>, <<>>), list, acc)
  <2> HIDE DEF acc
  <2> QED
    BY <1>3, <1>4 DEF Restoring!Steps
<1> HIDE DEF acc
<1>7. Restoring!Fold(Value(EmptyLevels, <<>>, <<>>), list) = acc[Len(list)]
  BY <1>1, <1>6, Restoring!FoldIs
<1> QED
  BY <1>5, <1>7 DEF list

\* Restoring what was just captured gives back the book it was captured of.
LEMMA RestoreWhole ==
  ASSUME WholeBook
  PROVE  Restored(Captured) = LiveBook
<1> DEFINE stops == SetToSeq(StopsOf(stopOrders))
           bids == ByPriority("buy")
           asks == ByPriority("sell")
           places(side) == {[side |-> side, price |-> p] : p \in Price}
           base == Value(EmptyLevels, <<>>, <<>>)
<1>1. Restored(Captured) = Restoring!Fold(base, stops \o bids \o asks)
  <2>1. base = [EmptyBook EXCEPT !.sequence = sequence, !.nextOrderId = nextOrderId,
                                 !.nextTradeId = nextTradeId, !.recentTrades = recentTrades,
                                 !.history = history]
    <3> DEFINE cleared == [EmptyBook EXCEPT !.sequence = sequence, !.nextOrderId = nextOrderId,
                              !.nextTradeId = nextTradeId, !.recentTrades = recentTrades,
                              !.history = history]
               fields == {"nextOrderId", "nextTradeId", "sequence", "levels", "orderIndex",
                          "stopOrders", "history", "recentTrades"}
    <3>1. DOMAIN cleared = fields /\ DOMAIN base = fields
      BY DEF Value, EmptyBook
    <3>2. /\ cleared["nextOrderId"] = base["nextOrderId"]
          /\ cleared["nextTradeId"] = base["nextTradeId"]
          /\ cleared["sequence"] = base["sequence"]
          /\ cleared["history"] = base["history"]
          /\ cleared["recentTrades"] = base["recentTrades"]
      BY DEF Value, EmptyBook
    <3>6. /\ cleared["levels"] = base["levels"]
          /\ cleared["orderIndex"] = base["orderIndex"]
          /\ cleared["stopOrders"] = base["stopOrders"]
      BY DEF Value, EmptyBook
    <3>3. cleared = [x \in DOMAIN cleared |-> cleared[x]]
      BY DEF EmptyBook
    <3>4. base = [x \in DOMAIN base |-> base[x]]
      BY DEF Value
    <3> HIDE DEF cleared, base
    <3>5. cleared = base
      BY <3>1, <3>2, <3>3, <3>4, <3>6
    <3> QED
      BY <3>5 DEF cleared
  <2> HIDE DEF base, stops, bids, asks
  <2>2. Restored(Captured) = FoldLeft(RestActive, base, stops \o bids \o asks)
    BY <2>1 DEF Restored, Captured, stops, bids, asks
  <2> QED
    BY <2>2, RestoreFolds
<1>2. "buy" \in Side /\ "sell" \in Side
  BY DEF Side
<1>3. stops \in Seq(Order)
  <2>1. stops \in Seq(StopsOf(stopOrders)) /\ StopsOf(stopOrders) \subseteq Order
    BY StopsListed
  <2> HIDE DEF stops
  <2> QED
    BY <2>1, SeqDef, LenProperties, ElementOfSeq
<1>4. Restoring!Fold(base, stops) = Part({})
  BY RestoreStops
<1>5. bids \in Seq(Order) /\ Restoring!Fold(Part({}), bids) = Part({} \cup places("buy"))
  BY <1>2, RestoreSide
<1>6. \A p \in Price : [side |-> "sell", price |-> p] \notin {} \cup places("buy")
  OBVIOUS
<1>7. /\ asks \in Seq(Order)
      /\ Restoring!Fold(Part({} \cup places("buy")), asks)
           = Part(({} \cup places("buy")) \cup places("sell"))
  <2> DEFINE P == {} \cup places("buy")
  <2>1. \A p \in Price : [side |-> "sell", price |-> p] \notin P
    BY <1>6
  <2> HIDE DEF P
  <2>2. asks \in Seq(Order) /\ Restoring!Fold(Part(P), asks) = Part(P \cup places("sell"))
    BY <1>2, <2>1, RestoreSide
  <2> QED
    BY <2>2 DEF P
<1>8. ({} \cup places("buy")) \cup places("sell") = Location
  <2>1. \A x \in Location : /\ x.side \in {"buy", "sell"} /\ x.price \in Price
                             /\ x = [side |-> x.side, price |-> x.price]
    BY DEF Location, Side
  <2>2. Location \subseteq places("buy") \cup places("sell")
    BY <2>1
  <2>3. places("buy") \cup places("sell") \subseteq Location
    BY DEF Location, Side
  <2> QED
    BY <2>2, <2>3
<1>9. Part(Location) = LiveBook
  <2>1. /\ DOMAIN levels = Side
        /\ \A s \in Side : /\ DOMAIN levels[s] \subseteq Price
                           /\ levels[s] = [p \in DOMAIN levels[s] |-> levels[s][p]]
    BY DEF WholeBook, IsLevels, IsMap
  <2>2. \A s \in Side : {p \in DOMAIN levels[s] : [side |-> s, price |-> p] \in Location}
                          = DOMAIN levels[s]
    BY <2>1 DEF Location
  <2>3. \A s \in Side : Restrict(levels[s], DOMAIN levels[s]) = levels[s]
    BY <2>1 DEF Restrict
  <2>4. LevelsAt(Location) = [s \in Side |-> levels[s]]
    BY <2>2, <2>3 DEF LevelsAt
  <2>5. levels = [s \in Side |-> levels[s]]
    BY DEF WholeBook
  <2>6. KnownAt(Location) = DOMAIN orderIndex
    BY DEF WholeBook, IsMap, KnownAt
  <2>7. Restrict(orderIndex, DOMAIN orderIndex) = orderIndex
    BY DEF WholeBook, IsMap, Restrict
  <2> QED
    BY <2>4, <2>5, <2>6, <2>7 DEF Part, Value, LiveBook
<1> HIDE DEF stops, bids, asks, base, places
<1>10. Restoring!Fold(base, stops \o bids) = Restoring!Fold(Part({}), bids)
  BY <1>3, <1>4, <1>5, Restoring!FoldConcat
<1>11. stops \o bids \in Seq(Order)
  BY <1>3, <1>5, ConcatProperties
<1>12. Restoring!Fold(base, (stops \o bids) \o asks)
         = Restoring!Fold(Restoring!Fold(base, stops \o bids), asks)
  <2> DEFINE both == stops \o bids
  <2>1. both \in Seq(Order) /\ asks \in Seq(Order)
    BY <1>7, <1>11
  <2> HIDE DEF both
  <2>2. Restoring!Fold(base, both \o asks) = Restoring!Fold(Restoring!Fold(base, both), asks)
    BY <2>1, Restoring!FoldConcat
  <2> QED
    BY <2>2 DEF both
<1> QED
  BY <1>1, <1>5, <1>7, <1>8, <1>9, <1>10, <1>12

(***************************************************************************)
(* The engine keeps stop orders out of the levels, so that its book can    *)
(* always be captured and restored.                                        *)
(***************************************************************************)

NoStops(queue) == \A i \in DOMAIN queue : ~IsStopOrder(queue[i].kind)

\* No stop order in a level, and nothing but the two sides in the book.
Kinds(book) ==
  /\ book = [side \in Side |-> book[side]]
  /\ \A side \in Side : \A price \in DOMAIN book[side] : NoStops(book[side][price])

KindsInv == IndexInv /\ Kinds(levels)

LEMMA KindsSet ==
  ASSUME NEW book, Kinds(book), NEW side \in Side, NEW price, NEW queue, NoStops(queue)
  PROVE  Kinds(SetQueue(book, side, price, queue))
<1> DEFINE after == SetQueue(book, side, price, queue)
<1>1. DOMAIN book = Side
  BY DEF Kinds
<1>2. after = [s \in Side |-> IF s = side THEN WithQueue(book[s], price, queue) ELSE book[s]]
  BY <1>1, SetQueueIs
<1> HIDE DEF after
<1>3. after = [s \in Side |-> after[s]]
  BY <1>2
<1>4. ASSUME NEW s \in Side, NEW p \in DOMAIN after[s]
      PROVE  NoStops(after[s][p])
  <2>1. CASE s = side
    BY <1>2, <1>4, <2>1 DEF WithQueue, Restrict, Kinds
  <2>2. CASE s # side
    BY <1>2, <1>4, <2>2 DEF Kinds
  <2> QED
    BY <2>1, <2>2
<1> QED
  BY <1>3, <1>4 DEF Kinds, after

LEMMA KindsQueue ==
  ASSUME NEW book, Kinds(book), NEW side \in Side, NEW price
  PROVE  NoStops(Queue(book, side, price))
BY DEF Kinds, Queue, NoStops

LEMMA KindsRemove ==
  ASSUME NEW queue \in Seq(Order), NoStops(queue), NEW i \in DOMAIN queue
  PROVE  NoStops(RemoveAt(queue, i))
<1> DEFINE rest == RemoveAt(queue, i)
<1>1. DOMAIN queue = 1..Len(queue) /\ Len(queue) \in Nat /\ i \in 1..Len(queue)
  BY LenProperties
<1>2. /\ rest \in Seq(Order) /\ Len(rest) = Len(queue) - 1
      /\ \A k \in 1..(Len(queue) - 1) : rest[k] = IF k < i THEN queue[k] ELSE queue[k + 1]
  BY ONLY queue \in Seq(Order), <1>1, RemoveAtProperties
<1>3. DOMAIN rest = 1..(Len(queue) - 1)
  BY <1>2, LenProperties
<1> HIDE DEF rest
<1>4. \A k \in DOMAIN rest : \E j \in DOMAIN queue : rest[k] = queue[j]
  <2> TAKE k \in DOMAIN rest
  <2>1. k \in DOMAIN queue /\ k + 1 \in DOMAIN queue
    BY <1>1, <1>3
  <2>2. rest[k] = queue[k] \/ rest[k] = queue[k + 1]
    BY <1>2, <1>3
  <2> QED
    BY <2>1, <2>2
<1>5. NoStops(rest)
  BY <1>4 DEF NoStops
<1> QED
  BY <1>5 DEF rest

LEMMA KindsFillBest ==
  ASSUME KindsInv, FillBest
  PROVE  Kinds(levels')
<1>1. pc = "match" /\ CanTrade /\ TypeInv
  BY DEF FillBest, KindsInv, IndexInv
<1>2. /\ MakerSide \in Side
      /\ BestPrice \in DOMAIN levels[MakerSide]
      /\ BestPrice \in Price
      /\ BestPlace \in DOMAIN levels[MakerSide][BestPrice]
      /\ IsLevels(levels)
  BY <1>1, NextTradeType DEF TypeInv, TypeOK
<1> DEFINE queue == Queue(levels, MakerSide, BestPrice)
           left == BestMaker.remaining - NextAmount
<1>3. queue = levels[MakerSide][BestPrice] /\ queue \in Seq(Order) /\ NoStops(queue)
  BY <1>2, QueueType, KindsQueue DEF Queue, KindsInv
<1>4. levels' = SetQueue(levels, MakerSide, BestPrice,
                         IF left = 0 THEN RemoveAt(queue, BestPlace)
                                     ELSE [queue EXCEPT ![BestPlace].remaining = left])
  BY <1>3 DEF FillBest, Deplete, BestMaker
<1> HIDE DEF queue, left
<1>5. NoStops(RemoveAt(queue, BestPlace))
  BY <1>2, <1>3, KindsRemove
<1>6. NoStops([queue EXCEPT ![BestPlace].remaining = left])
  <2>1. \A i \in DOMAIN queue : queue[i] \in Order
    BY <1>3, LenProperties, ElementOfSeq
  <2> QED
    BY <1>3, <2>1 DEF NoStops, Order
<1> QED
  BY <1>2, <1>4, <1>5, <1>6, KindsSet DEF KindsInv

LEMMA KindsSettle ==
  ASSUME KindsInv, Settle
  PROVE  Kinds(levels')
<1>1. /\ taker.side \in Side /\ ~IsStopOrder(taker.kind) /\ IsLevels(levels)
      /\ taker \in Order
  BY DEF KindsInv, IndexInv, TypeInv, TypeOK, ControlOK, Settle, Order
<1>2. CASE Rests(levels, taker)
  <2> DEFINE queue == Queue(levels, taker.side, taker.price)
  <2>1. /\ levels' = SetQueue(levels, taker.side, taker.price, Append(queue, taker))
        /\ queue \in Seq(Order) /\ NoStops(queue)
    <3>1. taker.price \in Price
      BY <1>2, RestingHasPrice DEF KindsInv, IndexInv, Settle
    <3> QED
      BY <1>1, <1>2, <3>1, QueueType, KindsQueue DEF Settle, Push, KindsInv
  <2> HIDE DEF queue
  <2>2. NoStops(Append(queue, taker))
    BY <1>1, <2>1, AppendProperties, LenProperties DEF NoStops
  <2> QED
    BY <1>1, <2>1, <2>2, KindsSet DEF KindsInv
<1>3. CASE ~Rests(levels, taker)
  BY <1>3 DEF Settle, KindsInv
<1> QED
  BY <1>2, <1>3

LEMMA KindsCancelOrder ==
  ASSUME KindsInv, NEW id \in ActiveIds, CancelOrder(id)
  PROVE  Kinds(levels')
<1>1. CASE id \in DOMAIN orderIndex
  <2> DEFINE side == orderIndex[id].side
             price == orderIndex[id].price
             queue == Queue(levels, side, price)
             place == PositionOf(queue, id)
  <2>1. side \in Side /\ price \in Price /\ IsLevels(levels)
    BY <1>1 DEF KindsInv, IndexInv, TypeInv, TypeOK, IsMap, Location
  <2>2. queue \in Seq(Order) /\ NoStops(queue)
    BY <2>1, QueueType, KindsQueue DEF KindsInv
  <2>3. levels' = IF place = 0 THEN levels
                  ELSE SetQueue(levels, side, price, RemoveAt(queue, place))
    BY <1>1 DEF CancelOrder, RemoveFromLevel
  <2>4. \E i \in DOMAIN queue : queue[i].id = id
    BY <1>1 DEF KindsInv, IndexInv, IndexOK, Agree
  <2> HIDE DEF side, price, queue
  <2>5. place \in DOMAIN queue
    BY <2>2, <2>4, PositionOfFound
  <2> HIDE DEF place
  <2>6. NoStops(RemoveAt(queue, place))
    BY <2>2, <2>5, KindsRemove
  <2> QED
    BY <2>1, <2>3, <2>6, KindsSet DEF KindsInv
<1>2. CASE id \notin DOMAIN orderIndex
  BY <1>2 DEF CancelOrder, KindsInv
<1> QED
  BY <1>1, <1>2

LEMMA KindsStep == KindsInv /\ [Next]_vars => KindsInv'
<1> SUFFICES ASSUME KindsInv, [Next]_vars PROVE KindsInv'
  OBVIOUS
<1>1. IndexInv'
  BY IndexStep DEF KindsInv
<1>2. CASE FillBest
  BY <1>1, <1>2, KindsFillBest DEF KindsInv
<1>3. CASE Settle
  BY <1>1, <1>3, KindsSettle DEF KindsInv
<1>4. CASE \E id \in ActiveIds : CancelOrder(id)
  BY <1>1, <1>4, KindsCancelOrder DEF KindsInv
<1>5. CASE levels' = levels
  BY <1>1, <1>5 DEF KindsInv
<1>6. CASE EngineStep
  <2>1. \A req \in Requests : Submit(req) => levels' = levels
    BY DEF Submit, RejectInvalid, AcceptStop, RejectFok, BeginExecution, bookVars
  <2>2. \A id \in cancelling : MassCancelOne(id) => CancelOrder(id) /\ id \in ActiveIds
    BY DEF MassCancelOne, KindsInv, IndexInv, TypeInv, ControlOK
  <2>3. RejectPostOnly \/ ActivateStop \/ SkipStop \/ MassCancelDone => levels' = levels
    BY DEF RejectPostOnly, ActivateStop, SkipStop, MassCancelDone, bookVars
  <2> QED
    BY <1>2, <1>3, <1>4, <1>5, <1>6, <2>1, <2>2, <2>3 DEF EngineStep
<1>7. CASE Command
  <2>1. \A req \in Requests : Submit(req) => levels' = levels
    BY DEF Submit, RejectInvalid, AcceptStop, RejectFok, BeginExecution, bookVars
  <2>2. \A id \in ActiveIds : Cancel(id) \/ Replace(id) => CancelOrder(id)
    BY DEF Cancel, Replace
  <2>3. MassCancel => levels' = levels
    BY DEF MassCancel, bookVars
  <2> QED
    BY <1>4, <1>5, <1>7, <2>1, <2>2, <2>3 DEF Command
<1>8. CASE UNCHANGED vars
  BY <1>5, <1>8 DEF vars, bookVars
<1> QED
  BY <1>6, <1>7, <1>8 DEF Next

LEMMA KindsInit == Init => KindsInv
BY IndexInit DEF Init, KindsInv, Kinds, EmptyLevels

LEMMA KindsWhole == KindsInv => WholeBook
<1> SUFFICES ASSUME KindsInv PROVE WholeBook
  OBVIOUS
<1>1. /\ IsLevels(levels) /\ levels = [side \in Side |-> levels[side]]
      /\ IsMap(orderIndex, Nat, Location) /\ Agree(levels, orderIndex)
      /\ IsMap(stopOrders, Nat, Order) /\ nextOrderId \in Nat
  BY DEF KindsInv, IndexInv, IndexOK, TypeInv, TypeOK, Kinds
<1>2. \A id \in DOMAIN stopOrders :
        /\ stopOrders[id].id = id /\ IsStopOrder(stopOrders[id].kind)
        /\ id < nextOrderId
  BY DEF KindsInv, IndexInv, IndexOK, StopsApart, TypeInv, ControlOK, ActiveIds
<1>3. RestingKinds
  BY DEF KindsInv, Kinds, RestingKinds, NoStops
<1> QED
  BY <1>1, <1>2, <1>3 DEF WholeBook

\* Whatever the engine does, and in the middle of a command too, restoring a snapshot of
\* its book gives back the very same book: every order in its place in its queue, every
\* counter, trade and history entry (book.rs:338-377; what RestoreIsExact asks of a
\* book that is replayed and restored besides).
THEOREM RestoresExactly == Spec => []SnapshotExact
<1>1. KindsInv => SnapshotExact
  BY KindsWhole, RestoreWhole DEF SnapshotExact
<1>2. Spec => []KindsInv
  BY KindsInit, KindsStep, PTL DEF Spec
<1> QED
  BY <1>1, <1>2, PTL

(***************************************************************************)
(* Replay.  A book value is named by its containers and counters: the      *)
(* history a replay rebuilds is another one, so a lemma about one event    *)
(* says which book it makes of which, but for the history.                 *)
(***************************************************************************)

BookOf(orderId, tradeId, seq, books, index, stops, record, trades) ==
  [nextOrderId |-> orderId, nextTradeId |-> tradeId, sequence |-> seq,
   levels |-> books, orderIndex |-> index, stopOrders |-> stops,
   history |-> record, recentTrades |-> trades]

\* b is this book, with some history.
BookIs(b, orderId, tradeId, seq, books, index, stops, trades) ==
  \E record : /\ IsMap(record, Nat, Seq(HistoryEntry))
              /\ b = BookOf(orderId, tradeId, seq, books, index, stops, record, trades)

LEMMA StopRemoved ==
  ASSUME NEW b, NEW orderId, NEW tradeId, NEW seq, NEW books, NEW index, NEW stops, NEW trades,
         BookIs(b, orderId, tradeId, seq, books, index, stops, trades),
         NEW id \in DOMAIN stops
  PROVE  BookIs(RemoveActive(b, id), orderId, tradeId, seq, books, index,
                Without(stops, id), trades)
<1>1. PICK record :
        /\ IsMap(record, Nat, Seq(HistoryEntry))
        /\ b = BookOf(orderId, tradeId, seq, books, index, stops, record, trades)
  BY DEF BookIs
<1>2. RemoveActive(b, id)
        = BookOf(orderId, tradeId, seq, books, index, Without(stops, id), record, trades)
  BY <1>1 DEF RemoveActive, BookOf
<1> QED
  BY <1>1, <1>2 DEF BookIs

LEMMA OrderRemoved ==
  ASSUME NEW b, NEW orderId, NEW tradeId, NEW seq, NEW books, NEW index, NEW stops, NEW trades,
         BookIs(b, orderId, tradeId, seq, books, index, stops, trades),
         NEW id \in DOMAIN index, id \notin DOMAIN stops
  PROVE  BookIs(RemoveActive(b, id), orderId, tradeId, seq,
                RemoveFromLevel(books, index[id].side, index[id].price, id),
                Without(index, id), stops, trades)
<1>1. PICK record :
        /\ IsMap(record, Nat, Seq(HistoryEntry))
        /\ b = BookOf(orderId, tradeId, seq, books, index, stops, record, trades)
  BY DEF BookIs
<1>2. RemoveActive(b, id)
        = BookOf(orderId, tradeId, seq,
                 RemoveFromLevel(books, index[id].side, index[id].price, id),
                 Without(index, id), stops, record, trades)
  BY <1>1 DEF RemoveActive, BookOf
<1> QED
  BY <1>1, <1>2 DEF BookIs

LEMMA SequenceAdvanced ==
  ASSUME NEW b, NEW orderId, NEW tradeId, NEW seq \in Nat, NEW books, NEW index, NEW stops,
         NEW trades, BookIs(b, orderId, tradeId, seq, books, index, stops, trades),
         NEW later \in Nat, seq <= later
  PROVE  BookIs(AdvanceTo(b, later), orderId, tradeId, later, books, index, stops, trades)
<1>1. PICK record :
        /\ IsMap(record, Nat, Seq(HistoryEntry))
        /\ b = BookOf(orderId, tradeId, seq, books, index, stops, record, trades)
  BY DEF BookIs
<1>2. Greater(seq, later) = later
  BY DEF Greater
<1>3. AdvanceTo(b, later) = BookOf(orderId, tradeId, later, books, index, stops, record, trades)
  BY <1>1, <1>2 DEF AdvanceTo, BookOf
<1> QED
  BY <1>1, <1>3 DEF BookIs

\* An acknowledgement tells the order's id and when it was created, and its status.
Seen(b, ack) ==
  LET seq == Greater(b.sequence, ack.order.createdAt)
  IN  [b EXCEPT !.sequence = seq,
                !.nextOrderId = Greater(@, ack.order.id + 1),
                !.history = RecordStatus(@, seq, ack.order, ack.status)]

LEMMA OrderSeen ==
  ASSUME NEW b, NEW tradeId, NEW seq \in Nat, NEW books, NEW index, NEW stops, NEW trades,
         NEW order \in Order, NEW status \in OrderStatus, NEW fillsOf,
         BookIs(b, order.id, tradeId, seq, books, index, stops, trades),
         seq <= order.createdAt
  PROVE  BookIs(Seen(b, Ack(order, status, fillsOf)), order.id + 1, tradeId,
                order.createdAt, books, index, stops, trades)
<1>1. PICK record :
        /\ IsMap(record, Nat, Seq(HistoryEntry))
        /\ b = BookOf(order.id, tradeId, seq, books, index, stops, record, trades)
  BY DEF BookIs
<1>2. order.id \in Nat /\ order.createdAt \in Nat
  BY DEF Order
<1>3. Greater(seq, order.createdAt) = order.createdAt /\ Greater(order.id, order.id + 1) = order.id + 1
  BY <1>2 DEF Greater
<1>4. IsMap(RecordStatus(record, order.createdAt, order, status), Nat, Seq(HistoryEntry))
  BY <1>1, <1>2, RecordStatusType
<1> DEFINE ack == Ack(order, status, fillsOf)
           after == RecordStatus(record, order.createdAt, order, status)
           id == order.id + 1
           time == order.createdAt
<1>5. ack.order = order /\ ack.status = status
  BY DEF Ack
<1>6. b.sequence = seq /\ b.nextOrderId = order.id /\ b.history = record
  BY <1>1 DEF BookOf
<1> HIDE DEF ack
<1>7. Seen(b, ack) = [b EXCEPT !.sequence = time, !.nextOrderId = id, !.history = after]
  BY <1>3, <1>5, <1>6 DEF Seen
<1> HIDE DEF after, id, time
<1>8. Seen(b, ack) = BookOf(id, tradeId, time, books, index, stops, after, trades)
  BY <1>1, <1>7 DEF BookOf
<1> QED
  BY <1>4, <1>8 DEF BookIs, after, id, time, ack

\* Does replay put the order of an acknowledgement back into a level?
RestsAgain(order, status) ==
  status \in {"resting", "partially_filled"} /\ order.remaining > 0 /\ order.price # None

At(order) == [side |-> order.side, price |-> order.price]

LEMMA AckGone ==
  ASSUME NEW b, NEW tradeId, NEW seq \in Nat, NEW books, NEW index, NEW stops, NEW trades,
         NEW order \in Order, NEW status \in OrderStatus, NEW fillsOf,
         BookIs(b, order.id, tradeId, seq, books, index, stops, trades),
         seq <= order.createdAt,
         ~RestsAgain(order, status), ~IsStopOrder(order.kind) \/ status = "rejected"
  PROVE  BookIs(ReplayOrderAck(b, Ack(order, status, fillsOf)), order.id + 1, tradeId,
                order.createdAt, books, index, stops, trades)
<1> DEFINE ack == Ack(order, status, fillsOf)
<1>1. BookIs(Seen(b, ack), order.id + 1, tradeId, order.createdAt, books, index, stops, trades)
  BY OrderSeen
<1>2. ReplayOrderAck(b, ack) = IF status \in {"resting", "partially_filled"} /\ order.remaining > 0
                                 THEN RestActive(Seen(b, ack), order) ELSE Seen(b, ack)
  BY DEF ReplayOrderAck, Ack, Seen
<1>3. ~IsStopOrder(order.kind) /\ order.price = None => RestActive(Seen(b, ack), order) = Seen(b, ack)
  BY DEF RestActive
<1> QED
  BY <1>1, <1>2, <1>3 DEF RestsAgain

LEMMA AckRests ==
  ASSUME NEW b, NEW tradeId, NEW seq \in Nat, NEW books, NEW index, NEW stops, NEW trades,
         NEW order \in Order, NEW status \in OrderStatus, NEW fillsOf,
         BookIs(b, order.id, tradeId, seq, books, index, stops, trades),
         seq <= order.createdAt,
         RestsAgain(order, status), ~IsStopOrder(order.kind)
  PROVE  BookIs(ReplayOrderAck(b, Ack(order, status, fillsOf)), order.id + 1, tradeId,
                order.createdAt, Push(books, order), Put(index, order.id, At(order)),
                stops, trades)
<1> DEFINE ack == Ack(order, status, fillsOf)
           seen == Seen(b, ack)
<1>1. BookIs(seen, order.id + 1, tradeId, order.createdAt, books, index, stops, trades)
  BY OrderSeen
<1>2. ReplayOrderAck(b, ack) = RestActive(seen, order)
  BY DEF ReplayOrderAck, Ack, Seen, RestsAgain
<1> HIDE DEF seen
<1>3. PICK record :
        /\ IsMap(record, Nat, Seq(HistoryEntry))
        /\ seen = BookOf(order.id + 1, tradeId, order.createdAt, books, index, stops, record, trades)
  BY <1>1 DEF BookIs
<1>4. RestActive(seen, order)
        = BookOf(order.id + 1, tradeId, order.createdAt, Push(books, order),
                 Put(index, order.id, At(order)), stops, record, trades)
  BY <1>3 DEF RestActive, BookOf, RestsAgain, At
<1> QED
  BY <1>2, <1>3, <1>4 DEF BookIs

LEMMA AckSleeps ==
  ASSUME NEW b, NEW tradeId, NEW seq \in Nat, NEW books, NEW index, NEW stops, NEW trades,
         NEW order \in Order, NEW fillsOf,
         BookIs(b, order.id, tradeId, seq, books, index, stops, trades),
         seq <= order.createdAt, order.remaining > 0, IsStopOrder(order.kind)
  PROVE  BookIs(ReplayOrderAck(b, Ack(order, "resting", fillsOf)), order.id + 1, tradeId,
                order.createdAt, books, index, Put(stops, order.id, order), trades)
<1> DEFINE ack == Ack(order, "resting", fillsOf)
           seen == Seen(b, ack)
<1>0. "resting" \in OrderStatus
  BY DEF OrderStatus
<1>1. BookIs(seen, order.id + 1, tradeId, order.createdAt, books, index, stops, trades)
  BY <1>0, OrderSeen
<1>2. ReplayOrderAck(b, ack) = RestActive(seen, order)
  BY DEF ReplayOrderAck, Ack, Seen
<1> HIDE DEF seen
<1>3. PICK record :
        /\ IsMap(record, Nat, Seq(HistoryEntry))
        /\ seen = BookOf(order.id + 1, tradeId, order.createdAt, books, index, stops, record, trades)
  BY <1>1 DEF BookIs
<1>4. RestActive(seen, order)
        = BookOf(order.id + 1, tradeId, order.createdAt, books, index,
                 Put(stops, order.id, order), record, trades)
  BY <1>3 DEF RestActive, BookOf
<1> QED
  BY <1>2, <1>3, <1>4 DEF BookIs

\* A trade with a maker that stands in the book.
LEMMA TradeReplayed ==
  ASSUME NEW b, NEW orderId, NEW seq \in Nat, NEW books, NEW index, NEW stops, NEW trades,
         NEW trade \in Trade,
         BookIs(b, orderId, trade.id, seq, books, index, stops, trades),
         seq <= trade.sequence, NEW side, NEW price, NEW i, i # 0,
         trade.maker \in DOMAIN index,
         index[trade.maker] = [side |-> side, price |-> price],
         PositionOf(Queue(books, side, price), trade.maker) = i,
         NEW remaining \in Nat, Queue(books, side, price)[i].remaining = remaining,
         trade.quantity <= remaining
  PROVE  BookIs(ReplayTrade(b, trade), orderId, trade.id + 1, trade.sequence,
                Deplete(books, side, price, i, trade.quantity),
                IF remaining = trade.quantity THEN Without(index, trade.maker) ELSE index,
                stops, RetainRecent(trades, trade))
<1>1. PICK record :
        /\ IsMap(record, Nat, Seq(HistoryEntry))
        /\ b = BookOf(orderId, trade.id, seq, books, index, stops, record, trades)
  BY DEF BookIs
<1>2. trade.id \in Nat /\ trade.sequence \in Nat /\ trade.quantity \in Nat /\ trade.maker \in Nat
  BY DEF Trade
<1>3. Greater(seq, trade.sequence) = trade.sequence /\ Greater(trade.id, trade.id + 1) = trade.id + 1
  BY <1>2 DEF Greater
<1> DEFINE seen == BookOf(orderId, trade.id + 1, trade.sequence, books, index, stops, record, trades)
           left == remaining - trade.quantity
           after == RecordMakerFill(record, trade.sequence, trade.maker, left)
<1>4. [AdvanceTo(b, trade.sequence) EXCEPT !.nextTradeId = Greater(@, trade.id + 1)] = seen
  <2> DEFINE time == trade.sequence
             id == trade.id + 1
             known == trade.id
  <2>1. b.sequence = seq /\ b.nextTradeId = trade.id
    BY <1>1 DEF BookOf
  <2>2. AdvanceTo(b, time) = [b EXCEPT !.sequence = time]
    BY <1>3, <2>1 DEF AdvanceTo
  <2>3. AdvanceTo(b, time) = BookOf(orderId, known, time, books, index, stops, record, trades)
    <3>1. b = BookOf(orderId, known, seq, books, index, stops, record, trades)
      BY <1>1
    <3> HIDE DEF time, known
    <3> QED
      BY <2>2, <3>1 DEF BookOf
  <2>4. AdvanceTo(b, time).nextTradeId = known
    BY <2>3 DEF BookOf
  <2>5. [AdvanceTo(b, time) EXCEPT !.nextTradeId = Greater(@, id)]
          = [AdvanceTo(b, time) EXCEPT !.nextTradeId = id]
    BY <1>3, <2>4
  <2>6. [AdvanceTo(b, time) EXCEPT !.nextTradeId = id]
          = BookOf(orderId, id, time, books, index, stops, record, trades)
    <3> HIDE DEF time, id, known
    <3> QED
      BY <2>3 DEF BookOf
  <2> QED
    BY <2>5, <2>6
<1>5. left \in Nat /\ (left = 0 <=> remaining = trade.quantity)
  BY <1>2
<1>6. IsMap(after, Nat, Seq(HistoryEntry))
  BY <1>1, <1>2, <1>5, RecordMakerFillType
<1>7. (IF remaining < trade.quantity THEN remaining ELSE trade.quantity) = trade.quantity
  BY <1>2
<1>8. ReduceActive(seen, trade.maker, trade.quantity)
        = BookOf(orderId, trade.id + 1, trade.sequence,
                 Deplete(books, side, price, i, trade.quantity),
                 IF left = 0 THEN Without(index, trade.maker) ELSE index,
                 stops, after, trades)
  <2> DEFINE queue == Queue(books, side, price)
             reduced == Deplete(books, side, price, i, trade.quantity)
             known == IF left = 0 THEN Without(index, trade.maker) ELSE index
  <2>1. /\ seen.orderIndex = index /\ seen.levels = books /\ seen.sequence = trade.sequence
        /\ seen.history = record
    BY DEF BookOf
  <2>2. ReduceActive(seen, trade.maker, trade.quantity)
          = [seen EXCEPT !.levels = reduced, !.orderIndex = known, !.history = after]
    <3> DEFINE maker == trade.maker
               quantity == trade.quantity
               time == trade.sequence
    <3>1. /\ maker \in DOMAIN seen.orderIndex
          /\ seen.orderIndex[maker].side = side /\ seen.orderIndex[maker].price = price
          /\ Queue(seen.levels, side, price) = queue
          /\ PositionOf(queue, maker) = i /\ i # 0 /\ queue[i].remaining = remaining
      BY <2>1
    <3>2. (IF remaining < quantity THEN remaining ELSE quantity) = quantity
      BY <1>7
    <3>3. left = remaining - quantity
      OBVIOUS
    <3>4. /\ reduced = Deplete(seen.levels, side, price, i, quantity)
          /\ known = IF left = 0 THEN Without(seen.orderIndex, maker) ELSE seen.orderIndex
          /\ after = RecordMakerFill(seen.history, seen.sequence, maker, left)
      BY <2>1
    <3> HIDE DEF seen, queue, reduced, known, after, left, maker, quantity
    <3>5. ReduceActive(seen, maker, quantity)
            = [seen EXCEPT !.levels = Deplete(@, side, price, i, quantity),
                           !.orderIndex = IF left = 0 THEN Without(@, maker) ELSE @,
                           !.history = RecordMakerFill(@, seen.sequence, maker, left)]
      BY <3>1, <3>2, <3>3, Zenon DEF ReduceActive
    <3> QED
      BY <3>4, <3>5 DEF maker, quantity
  <2> HIDE DEF reduced, known, after, left
  <2>3. seen = BookOf(orderId, trade.id + 1, trade.sequence, books, index, stops, record, trades)
    OBVIOUS
  <2> DEFINE id == trade.id + 1
             time == trade.sequence
  <2> HIDE DEF seen, id, time
  <2>4. seen = BookOf(orderId, id, time, books, index, stops, record, trades)
    BY <2>3 DEF id, time
  <2>5. ReduceActive(seen, trade.maker, trade.quantity)
          = BookOf(orderId, id, time, reduced, known, stops, after, trades)
    BY <2>2, <2>4 DEF BookOf
  <2> QED
    BY <2>5 DEF reduced, known, id, time
<1>9. ReplayTrade(b, trade)
        = [ReduceActive(seen, trade.maker, trade.quantity) EXCEPT
             !.recentTrades = RetainRecent(@, trade)]
  BY <1>4 DEF ReplayTrade
<1> HIDE DEF seen, left, after
<1>10. ReplayTrade(b, trade)
         = BookOf(orderId, trade.id + 1, trade.sequence,
                  Deplete(books, side, price, i, trade.quantity),
                  IF left = 0 THEN Without(index, trade.maker) ELSE index,
                  stops, after, RetainRecent(trades, trade))
  BY <1>8, <1>9 DEF BookOf
<1> QED
  BY <1>5, <1>6, <1>10 DEF BookIs
Replaying == INSTANCE FoldProofs WITH Op <- ApplyReplayEvent, Rel <- Unrelated
Removing  == INSTANCE FoldProofs WITH Op <- RemoveActive, Rel <- Unrelated

LEMMA ReplayFolds ==
  ASSUME NEW b, NEW recorded
  PROVE  Replayed(b, recorded) = Replaying!Fold(b, recorded)
BY DEF Replayed, FoldLeft, MapThenFoldSet, Max, Replaying!Fold, Replaying!Recursion,
       Replaying!Greatest

LEMMA RemoveFolds ==
  ASSUME NEW b, NEW ids
  PROVE  FoldLeft(RemoveActive, b, ids) = Removing!Fold(b, ids)
BY DEF FoldLeft, MapThenFoldSet, Max, Removing!Fold, Removing!Recursion, Removing!Greatest

LEMMA EventsApply ==
  ASSUME NEW b, NEW x
  PROVE  /\ ApplyReplayEvent(b, OrderEvent(x)) = ReplayOrderAck(b, x)
         /\ ApplyReplayEvent(b, TradeEvent(x)) = ReplayTrade(b, x)
         /\ ApplyReplayEvent(b, CancelEvent(x)) = RemoveActive(b, x)
         /\ ApplyReplayEvent(b, MassCancelEvent(x)) = Removing!Fold(b, x)
         /\ ApplyReplayEvent(b, BookEvent(x)) = AdvanceTo(b, x)
         /\ \A ack : ApplyReplayEvent(b, ReplaceEvent(x, ack)) = RemoveActive(b, x)
<1>1. ApplyReplayEvent(b, OrderEvent(x)) = ReplayOrderAck(b, x)
  BY DEF ApplyReplayEvent, OrderEvent
<1>2. ApplyReplayEvent(b, TradeEvent(x)) = ReplayTrade(b, x)
  BY DEF ApplyReplayEvent, TradeEvent
<1>3. ApplyReplayEvent(b, CancelEvent(x)) = RemoveActive(b, x)
  BY DEF ApplyReplayEvent, CancelEvent
<1>4. ApplyReplayEvent(b, MassCancelEvent(x)) = Removing!Fold(b, x)
  <2>1. ApplyReplayEvent(b, MassCancelEvent(x)) = FoldLeft(RemoveActive, b, x)
    BY DEF ApplyReplayEvent, MassCancelEvent
  <2> QED
    BY <2>1, RemoveFolds
<1>5. ApplyReplayEvent(b, BookEvent(x)) = AdvanceTo(b, x)
  BY DEF ApplyReplayEvent, BookEvent
<1>6. \A ack : ApplyReplayEvent(b, ReplaceEvent(x, ack)) = RemoveActive(b, x)
  BY DEF ApplyReplayEvent, ReplaceEvent
<1> QED
  BY <1>1, <1>2, <1>3, <1>4, <1>5, <1>6

LEMMA OneReplayed ==
  ASSUME NEW b, NEW event \in Event
  PROVE  Replaying!Fold(b, <<event>>) = ApplyReplayEvent(b, event)
<1>1. <<>> \in Seq(Event) /\ <<event>> = Append(<<>>, event)
  OBVIOUS
<1>2. Replaying!Fold(b, Append(<<>>, event))
        = ApplyReplayEvent(Replaying!Fold(b, <<>>), event)
  <2> DEFINE none == <<>>
  <2>1. none \in Seq(Event)
    OBVIOUS
  <2> HIDE DEF none
  <2>2. Replaying!Fold(b, Append(none, event))
          = ApplyReplayEvent(Replaying!Fold(b, none), event)
    BY <2>1, Replaying!FoldAppend
  <2> QED
    BY <2>2 DEF none
<1>3. Replaying!Fold(b, <<>>) = b
  BY Replaying!FoldEmpty
<1> QED
  BY <1>1, <1>2, <1>3

(***************************************************************************)
(* What one command's events replay to.                                    *)
(***************************************************************************)

TradeEvents(list) == [i \in DOMAIN list |-> TradeEvent(list[i])]

\* The book before the order of an acknowledgement arrives.
Led(b) == IF replaced = 0 THEN b ELSE RemoveActive(b, replaced)

LEMMA TradeEventsType ==
  ASSUME NEW list \in Seq(Trade)
  PROVE  /\ TradeEvents(list) \in Seq(Event)
         /\ \A trade \in Trade : TradeEvents(Append(list, trade))
                                   = Append(TradeEvents(list), TradeEvent(trade))
         /\ TradeEvents(<<>>) = <<>>
<1>1. /\ DOMAIN list = 1..Len(list) /\ Len(list) \in Nat
      /\ \A i \in 1..Len(list) : list[i] \in Trade
  BY LenProperties, ElementOfSeq
<1>2. \A trade \in Trade : TradeEvent(trade) \in Event
  BY DEF TradeEvent, Event
<1>3. TradeEvents(list) \in Seq(Event)
  BY <1>1, <1>2 DEF TradeEvents
<1>4. ASSUME NEW trade \in Trade
      PROVE  TradeEvents(Append(list, trade)) = Append(TradeEvents(list), TradeEvent(trade))
  <2> DEFINE more == Append(list, trade)
             told == TradeEvents(list)
  <2>1. /\ more \in Seq(Trade) /\ DOMAIN more = 1..(Len(list) + 1)
        /\ \A i \in 1..Len(list) : more[i] = list[i]
        /\ more[Len(list) + 1] = trade
    BY <1>1, AppendProperties, LenProperties
  <2>2. /\ Len(told) = Len(list) /\ \A i \in 1..Len(list) : told[i] = TradeEvent(list[i])
        /\ told \in Seq(Event)
    BY <1>1, <1>3 DEF TradeEvents
  <2>3. /\ Append(told, TradeEvent(trade)) \in Seq(Event)
        /\ DOMAIN Append(told, TradeEvent(trade)) = 1..(Len(list) + 1)
        /\ \A i \in 1..Len(list) : Append(told, TradeEvent(trade))[i] = told[i]
        /\ Append(told, TradeEvent(trade))[Len(list) + 1] = TradeEvent(trade)
    BY <1>2, <2>2
  <2> HIDE DEF more, told
  <2>4. TradeEvents(more) = [i \in 1..(Len(list) + 1) |-> TradeEvent(more[i])]
    BY <2>1 DEF TradeEvents
  <2>5. \A i \in 1..(Len(list) + 1) : TradeEvent(more[i]) = Append(told, TradeEvent(trade))[i]
    <3> TAKE i \in 1..(Len(list) + 1)
    <3>1. i \in 1..Len(list) \/ i = Len(list) + 1
      BY <1>1
    <3> QED
      BY <2>1, <2>2, <2>3, <3>1
  <2>6. Append(told, TradeEvent(trade))
          = [i \in 1..(Len(list) + 1) |-> Append(told, TradeEvent(trade))[i]]
    <3> DEFINE longer == Append(told, TradeEvent(trade))
    <3>1. longer \in Seq(Event) /\ DOMAIN longer = 1..(Len(list) + 1)
      BY <2>3
    <3> HIDE DEF longer
    <3>2. longer = [i \in DOMAIN longer |-> longer[i]]
      BY <3>1
    <3> QED
      BY <3>1, <3>2 DEF longer
  <2>7. TradeEvents(more) = Append(told, TradeEvent(trade))
    BY <2>4, <2>5, <2>6
  <2> QED
    BY <2>7 DEF more, told
<1>5. TradeEvents(<<>>) = <<>>
  BY DEF TradeEvents
<1> QED
  BY <1>3, <1>4, <1>5

\* Replay reads the order and the status of an acknowledgement, not its trades.
LEMMA AckTrades ==
  ASSUME NEW b, NEW order, NEW status, NEW list
  PROVE  ReplayOrderAck(b, Ack(order, status, list)) = ReplayOrderAck(b, Ack(order, status, <<>>))
<1> DEFINE one == Ack(order, status, list)
           two == Ack(order, status, <<>>)
<1>1. one.order = two.order /\ one.status = two.status
  BY DEF Ack
<1> HIDE DEF one, two
<1>2. ReplayOrderAck(b, one) = ReplayOrderAck(b, two)
  BY <1>1, Zenon DEF ReplayOrderAck
<1> QED
  BY <1>2 DEF one, two

LEMMA AckReplayed ==
  ASSUME NEW b, NEW order \in Order, NEW status \in OrderStatus, NEW list \in Seq(Trade),
         NEW seq \in Nat, replaced \in Nat
  PROVE  Replaying!Fold(b, AckEvents(Ack(order, status, list), seq))
           = AdvanceTo(Replaying!Fold(ReplayOrderAck(Led(b), Ack(order, status, <<>>)),
                                      TradeEvents(list)), seq)
<1> DEFINE ack == Ack(order, status, list)
           front == IF replaced = 0 THEN <<>> ELSE <<ReplaceEvent(replaced, ack)>>
           first == <<OrderEvent(ack)>>
           trades == TradeEvents(list)
           last == <<BookEvent(seq)>>
<1>1. ack \in Acknowledgement /\ ack.trades = list
  BY DEF Ack, Acknowledgement
<1>2. AckEvents(ack, seq) = ((front \o first) \o trades) \o last
  BY <1>1 DEF AckEvents, TradeEvents
<1>3. /\ ReplaceEvent(replaced, ack) \in Event /\ OrderEvent(ack) \in Event
      /\ BookEvent(seq) \in Event
  BY <1>1 DEF ReplaceEvent, OrderEvent, BookEvent, Event
<1>4. /\ front \in Seq(Event) /\ first \in Seq(Event) /\ trades \in Seq(Event)
      /\ last \in Seq(Event)
  BY <1>3, TradeEventsType
<1>5. Replaying!Fold(b, front) = Led(b)
  <2>1. CASE replaced = 0
    BY <2>1, Replaying!FoldEmpty DEF Led
  <2>2. CASE replaced # 0
    <3>1. front = <<ReplaceEvent(replaced, ack)>>
      BY <2>2
    <3>2. Replaying!Fold(b, <<ReplaceEvent(replaced, ack)>>)
            = ApplyReplayEvent(b, ReplaceEvent(replaced, ack))
      BY <1>3, OneReplayed
    <3>3. ApplyReplayEvent(b, ReplaceEvent(replaced, ack)) = RemoveActive(b, replaced)
      BY EventsApply
    <3> HIDE DEF front
    <3> QED
      BY <2>2, <3>1, <3>2, <3>3 DEF Led
  <2> QED
    BY <2>1, <2>2
<1>6. \A c : Replaying!Fold(c, first) = ReplayOrderAck(c, ack)
  BY <1>3, OneReplayed, EventsApply
<1>7. \A c : Replaying!Fold(c, last) = AdvanceTo(c, seq)
  BY <1>3, OneReplayed, EventsApply
<1>8. \A c : ReplayOrderAck(c, ack) = ReplayOrderAck(c, Ack(order, status, <<>>))
  BY AckTrades
<1> HIDE DEF ack, front, first, trades, last
<1> DEFINE two == front \o first
           three == two \o trades
<1>9. two \in Seq(Event) /\ three \in Seq(Event)
  BY <1>4, ConcatProperties
<1>10. Replaying!Fold(b, two) = Replaying!Fold(Replaying!Fold(b, front), first)
  BY <1>4, Replaying!FoldConcat
<1> HIDE DEF two
<1>11. Replaying!Fold(b, three) = Replaying!Fold(Replaying!Fold(b, two), trades)
  BY <1>4, <1>9, Replaying!FoldConcat
<1> HIDE DEF three
<1>12. Replaying!Fold(b, three \o last) = Replaying!Fold(Replaying!Fold(b, three), last)
  BY <1>4, <1>9, Replaying!FoldConcat
<1>13. AckEvents(ack, seq) = three \o last
  BY <1>2 DEF two, three
<1> QED
  BY <1>5, <1>6, <1>7, <1>8, <1>10, <1>11, <1>12, <1>13 DEF ack, trades

(***************************************************************************)
(* One trade of the matching loop, replayed over the book the loop made it *)
(* in, and over the book with what is left of the order already resting.   *)
(***************************************************************************)

LEMMA MakerStands ==
  ASSUME IndexInv, FillBest
  PROVE  /\ MakerSide \in Side /\ taker.side \in Side /\ MakerSide # taker.side
         /\ BestMaker.id \in DOMAIN orderIndex
         /\ orderIndex[BestMaker.id] = [side |-> MakerSide, price |-> BestPrice]
         /\ Queue(levels, MakerSide, BestPrice) = levels[MakerSide][BestPrice]
         /\ PositionOf(Queue(levels, MakerSide, BestPrice), BestMaker.id) = BestPlace
         /\ BestPlace # 0
         /\ BestMaker = Queue(levels, MakerSide, BestPrice)[BestPlace]
         /\ BestMaker.remaining \in Nat
         /\ NextTrade \in Trade
         /\ NextTrade.maker = BestMaker.id /\ NextTrade.quantity = NextAmount
         /\ NextTrade.id = nextTradeId /\ NextTrade.sequence = sequence + 1
         /\ NextAmount <= BestMaker.remaining
<1>1. pc = "match" /\ CanTrade /\ TypeInv
  BY DEF FillBest, IndexInv
<1>2. /\ MakerSide \in Side
      /\ BestPrice \in DOMAIN levels[MakerSide] /\ BestPrice \in Price
      /\ BestPlace \in DOMAIN levels[MakerSide][BestPrice]
      /\ BestMaker \in Order /\ NextAmount <= BestMaker.remaining
      /\ NextTrade \in Trade
      /\ IsLevels(levels) /\ taker.side \in Side /\ MakerSide # taker.side
  BY <1>1, NextTradeType, OppositeSide DEF TypeInv, TypeOK, Order, MakerSide
<1> DEFINE queue == Queue(levels, MakerSide, BestPrice)
<1>3. queue = levels[MakerSide][BestPrice] /\ queue[BestPlace] = BestMaker
  BY <1>2 DEF Queue, BestMaker
<1>4. queue \in Seq(Order) /\ DOMAIN queue = 1..Len(queue) /\ Len(queue) \in Nat
  BY <1>2, QueueType, LenProperties
<1>5. InPlace(queue, BestPlace, MakerSide, BestPrice, orderIndex)
  BY <1>2, <1>3 DEF IndexInv, IndexOK, Agree
<1> HIDE DEF queue
<1>6. PositionOf(queue, BestMaker.id) \in DOMAIN queue
      /\ queue[PositionOf(queue, BestMaker.id)].id = BestMaker.id
  BY <1>2, <1>3, <1>4, PositionOfFound
<1>7. PositionOf(queue, BestMaker.id) = BestPlace
  BY <1>3, <1>5, <1>6 DEF InPlace
<1>8. BestPlace # 0
  BY <1>2, <1>3, <1>4
<1> QED
  BY <1>2, <1>3, <1>5, <1>7, <1>8 DEF InPlace, queue, NextTrade, Order

LEMMA FillReplayed ==
  ASSUME IndexInv, FillBest, NEW b,
         BookIs(b, nextOrderId, nextTradeId, sequence, levels, orderIndex, stopOrders,
                recentTrades)
  PROVE  BookIs(ReplayTrade(b, NextTrade), nextOrderId', nextTradeId', sequence', levels',
                orderIndex', stopOrders', recentTrades')
<1>1. sequence \in Nat /\ sequence <= sequence + 1
  BY DEF IndexInv, TypeInv, TypeOK
<1>2. BookIs(ReplayTrade(b, NextTrade), nextOrderId, nextTradeId + 1, sequence + 1,
             Deplete(levels, MakerSide, BestPrice, BestPlace, NextAmount),
             IF BestMaker.remaining = NextAmount THEN Without(orderIndex, BestMaker.id)
                                                 ELSE orderIndex,
             stopOrders, RetainRecent(recentTrades, NextTrade))
  <2> DEFINE trade == NextTrade
             side == MakerSide
             price == BestPrice
             place == BestPlace
             remaining == BestMaker.remaining
  <2>1. /\ trade \in Trade /\ remaining \in Nat /\ place # 0
        /\ trade.maker \in DOMAIN orderIndex
        /\ orderIndex[trade.maker] = [side |-> side, price |-> price]
        /\ PositionOf(Queue(levels, side, price), trade.maker) = place
        /\ Queue(levels, side, price)[place].remaining = remaining
        /\ trade.quantity <= remaining
        /\ sequence <= trade.sequence
        /\ BookIs(b, nextOrderId, trade.id, sequence, levels, orderIndex, stopOrders,
                  recentTrades)
    BY <1>1, MakerStands
  <2> HIDE DEF trade, side, price, place, remaining
  <2>2. BookIs(ReplayTrade(b, trade), nextOrderId, trade.id + 1, trade.sequence,
               Deplete(levels, side, price, place, trade.quantity),
               IF remaining = trade.quantity THEN Without(orderIndex, trade.maker)
                                             ELSE orderIndex,
               stopOrders, RetainRecent(recentTrades, trade))
    BY <1>1, <2>1, TradeReplayed
  <2> QED
    BY <2>2, MakerStands DEF trade, side, price, place, remaining
<1>3. /\ nextOrderId' = nextOrderId /\ nextTradeId' = nextTradeId + 1
      /\ sequence' = sequence + 1
      /\ levels' = Deplete(levels, MakerSide, BestPrice, BestPlace, NextAmount)
      /\ orderIndex' = IF BestMaker.remaining = NextAmount
                         THEN Without(orderIndex, BestMaker.id) ELSE orderIndex
      /\ stopOrders' = stopOrders /\ recentTrades' = RetainRecent(recentTrades, NextTrade)
  BY DEF FillBest
<1> QED
  BY <1>2, <1>3

\* What a trade takes from the maker's level, and what the order adds to its own,
\* do not meet.
LEMMA FillReplayedRested ==
  ASSUME IndexInv, FillBest, NEW order \in Order,
         order.id = taker.id, order.side = taker.side, NEW b,
         BookIs(b, nextOrderId, nextTradeId, sequence, Push(levels, order),
                Put(orderIndex, order.id, At(order)), stopOrders, recentTrades)
  PROVE  BookIs(ReplayTrade(b, NextTrade), nextOrderId', nextTradeId', sequence',
                Push(levels', order), Put(orderIndex', order.id, At(order)),
                stopOrders', recentTrades')
<1>1. sequence \in Nat /\ sequence <= sequence + 1 /\ DOMAIN levels = Side
  BY DEF IndexInv, TypeInv, TypeOK, IsLevels
<1> DEFINE side == MakerSide
           price == BestPrice
           place == BestPlace
           remaining == BestMaker.remaining
           trade == NextTrade
           maker == BestMaker.id
           books == Push(levels, order)
           index == Put(orderIndex, order.id, At(order))
           queue == Queue(levels, side, price)
           left == remaining - NextAmount
           after == IF left = 0 THEN RemoveAt(queue, place)
                                ELSE [queue EXCEPT ![place].remaining = left]
           own == Append(Queue(levels, order.side, order.price), order)
<1>2. /\ side \in Side /\ order.side \in Side /\ side # order.side
      /\ maker \in DOMAIN orderIndex
      /\ orderIndex[maker] = [side |-> side, price |-> price]
      /\ queue = levels[side][price]
      /\ price \in DOMAIN levels[side]
      /\ PositionOf(queue, maker) = place /\ place # 0
      /\ queue[place].remaining = remaining /\ remaining \in Nat
      /\ trade \in Trade /\ trade.maker = maker /\ trade.quantity = NextAmount
      /\ trade.id = nextTradeId /\ trade.sequence = sequence + 1
      /\ NextAmount <= remaining
  <2>1. price \in DOMAIN levels[side]
    BY NextTradeType DEF FillBest, IndexInv
  <2> QED
    BY <2>1, MakerStands
<1>3. maker # order.id
  BY <1>2 DEF IndexInv, IndexOK, FillBest
<1>4. levels' = SetQueue(levels, side, price, after)
  BY <1>2 DEF FillBest, Deplete
<1>5. books = SetQueue(levels, order.side, order.price, own)
  BY DEF Push
<1> HIDE DEF books, own, after, side, price, place, queue
<1>6. /\ SetQueue(books, side, price, after) = SetQueue(levels', order.side, order.price, own)
      /\ Queue(books, side, price) = queue
      /\ books[side] = levels[side]
  <2>1. /\ SetQueue(SetQueue(levels, order.side, order.price, own), side, price, after)
             = SetQueue(SetQueue(levels, side, price, after), order.side, order.price, own)
        /\ Queue(SetQueue(levels, order.side, order.price, own), side, price)
             = Queue(levels, side, price)
        /\ SetQueue(levels, order.side, order.price, own)[side] = levels[side]
    BY <1>1, <1>2, SetQueueApart
  <2> QED
    BY <1>4, <1>5, <2>1 DEF queue
<1>7. Queue(levels', order.side, order.price) = Queue(levels, order.side, order.price)
  <2>1. Queue(SetQueue(levels, side, price, after), order.side, order.price)
          = Queue(levels, order.side, order.price)
    BY <1>1, <1>2, SetQueueApart
  <2> QED
    BY <1>4, <2>1
<1>8. SetQueue(books, side, price, after) = Push(levels', order)
  BY <1>6, <1>7 DEF Push, own
<1>9. Deplete(books, side, price, place, trade.quantity) = SetQueue(books, side, price, after)
  BY <1>2, <1>6 DEF Deplete, after
<1>10. /\ maker \in DOMAIN index /\ index[maker] = [side |-> side, price |-> price]
       /\ (IF remaining = trade.quantity THEN Without(index, maker) ELSE index)
            = Put(orderIndex', order.id, At(order))
  <2>1. maker \in DOMAIN index /\ index[maker] = orderIndex[maker]
    BY <1>2, <1>3 DEF Put
  <2>2. orderIndex' = IF remaining = trade.quantity THEN Without(orderIndex, maker)
                                                    ELSE orderIndex
    BY <1>2 DEF FillBest
  <2>3. Without(index, maker) = Put(Without(orderIndex, maker), order.id, At(order))
    <3> DEFINE place2 == At(order)
               id == order.id
    <3> HIDE DEF place2, id, maker
    <3>1. maker # id
      BY <1>3 DEF id
    <3>2. Without(Put(orderIndex, id, place2), maker) = Put(Without(orderIndex, maker), id, place2)
      BY <3>1 DEF Without, Put, Restrict
    <3> QED
      BY <3>2 DEF id, place2
  <2> HIDE DEF index, maker, remaining, trade
  <2> QED
    BY <1>2, <2>1, <2>2, <2>3 DEF index
<1> HIDE DEF index, remaining, trade, maker
<1>11. BookIs(ReplayTrade(b, trade), nextOrderId, trade.id + 1, trade.sequence,
              Deplete(books, side, price, place, trade.quantity),
              IF remaining = trade.quantity THEN Without(index, trade.maker) ELSE index,
              stopOrders, RetainRecent(recentTrades, trade))
  <2>1. BookIs(b, nextOrderId, trade.id, sequence, books, index, stopOrders, recentTrades)
    BY <1>2 DEF books, index
  <2>2. /\ trade \in Trade /\ remaining \in Nat /\ place # 0
        /\ trade.maker \in DOMAIN index
        /\ index[trade.maker] = [side |-> side, price |-> price]
        /\ PositionOf(Queue(books, side, price), trade.maker) = place
        /\ Queue(books, side, price)[place].remaining = remaining
        /\ trade.quantity <= remaining
        /\ sequence <= trade.sequence
    BY <1>1, <1>2, <1>6, <1>10
  <2> QED
    BY <1>1, <2>1, <2>2, TradeReplayed
<1>12. /\ nextOrderId' = nextOrderId /\ nextTradeId' = nextTradeId + 1
       /\ sequence' = sequence + 1
       /\ stopOrders' = stopOrders /\ recentTrades' = RetainRecent(recentTrades, trade)
  BY DEF FillBest, trade
<1> QED
  BY <1>2, <1>8, <1>9, <1>10, <1>11, <1>12 DEF trade

(***************************************************************************)
(* The engine between two loads.  EventsTellAll excludes the steps whose   *)
(* effect no event tells: a request that is turned away takes an id and a  *)
(* sequence number, a triggered stop order leaves the stop orders, and a   *)
(* priced order that traded and whose rest is discarded comes back.        *)
(***************************************************************************)

EventsTellAll ==
  /\ \A req \in Requests : ~RejectInvalid(req)
  /\ Settle =>
       /\ StopsTriggered = {}
       /\ taker.kind \in {"limit", "post_only"} /\ ~IsFilled(taker) /\ Discards(levels, taker)
            => fills = <<>>

\* No id is 0, which stands for no order.
IdsOK ==
  /\ nextOrderId > 0
  /\ 0 \notin ActiveIds
  /\ pc = "match" => taker.id # 0

\* What each phase may hold when no stop order is triggered.
PhaseOK ==
  /\ pending = <<>> /\ pc # "trigger"
  /\ pc # "mass_cancel" => cancelled = <<>>
  /\ pc \in {"idle", "mass_cancel"} => replaced = 0
  /\ pc = "replace" => replaced # 0
  /\ pc = "match" =>
       /\ events = <<>>
       /\ taker.kind \notin {"limit", "post_only"} => taker.price = None
       /\ taker.kind = "post_only" => fills = <<>>

PlainInv == KindsInv /\ IdsOK /\ PhaseOK

LEMMA PlainInit == Init => PlainInv
BY KindsInit DEF Init, PlainInv, IdsOK, PhaseOK, ActiveIds

LEMMA PlainSubmit ==
  ASSUME PlainInv, NEW req \in Requests, Submit(req), ~RejectInvalid(req)
  PROVE  IdsOK' /\ PhaseOK'
<1>1. /\ TypeInv /\ nextOrderId \in Nat /\ pc \in {"idle", "replace"}
      /\ Incoming(req).id = nextOrderId /\ Incoming(req).kind = req.kind
  BY IncomingType DEF PlainInv, KindsInv, IndexInv, TypeInv, TypeOK, Submit
<1>2. CASE AcceptStop(req) \/ RejectFok(req)
  <2>1. /\ nextOrderId' = nextOrderId + 1 /\ pc' = "idle" /\ replaced' = 0
        /\ cancelled' = <<>> /\ pending' = pending /\ orderIndex' = orderIndex
        /\ DOMAIN stopOrders' \subseteq DOMAIN stopOrders \cup {nextOrderId}
    BY <1>2 DEF AcceptStop, RejectFok, AcceptAs, Answer, Create, bookVars, Put
  <2> QED
    BY <1>1, <2>1 DEF PlainInv, IdsOK, PhaseOK, ActiveIds
<1>3. CASE BeginExecution(req)
  <2>1. /\ nextOrderId' = nextOrderId + 1 /\ pc' = "match" /\ taker' = Incoming(req)
        /\ cancelled' = cancelled /\ pending' = pending /\ orderIndex' = orderIndex
        /\ stopOrders' = stopOrders /\ events' = <<>> /\ fills' = <<>>
        /\ ~IsStopOrder(req.kind)
    BY <1>3 DEF BeginExecution, Create, bookVars
  <2>2. req.kind \notin {"limit", "post_only"} => Incoming(req).price = None
    BY <2>1 DEF Incoming, MakeOrder, IsPriced, IsStopOrder
  <2> QED
    BY <1>1, <2>1, <2>2 DEF PlainInv, IdsOK, PhaseOK, ActiveIds
<1> QED
  BY <1>2, <1>3 DEF Submit

LEMMA PlainFillBest ==
  ASSUME PlainInv, FillBest
  PROVE  IdsOK' /\ PhaseOK'
<1>1. /\ TypeInv /\ pc = "match" /\ CanTrade /\ taker \in Order /\ ~PostOnlyCrosses
  BY DEF PlainInv, KindsInv, IndexInv, TypeInv, TypeOK, FillBest
<1>2. /\ nextOrderId' = nextOrderId /\ pc' = "match" /\ events' = events
      /\ cancelled' = cancelled /\ pending' = pending /\ stopOrders' = stopOrders
      /\ DOMAIN orderIndex' \subseteq DOMAIN orderIndex
      /\ taker' = ReduceTaker(taker, BestPrice, NextAmount)
  BY <1>1 DEF FillBest, Without, Restrict
<1>3. taker'.id = taker.id /\ taker'.kind = taker.kind /\ taker'.price = taker.price
  BY <1>1, <1>2 DEF ReduceTaker, Order
<1>4. taker.kind # "post_only"
  <2> SUFFICES ASSUME taker.kind = "post_only" PROVE FALSE
    OBVIOUS
  <2>1. PICK p : p \in MatchablePrices(levels, taker)
    BY <1>1 DEF CanTrade
  <2> QED
    BY <1>1, <2>1 DEF MatchablePrices, PostOnlyCrosses, WouldCross
<1> QED
  BY <1>1, <1>2, <1>3, <1>4 DEF PlainInv, IdsOK, PhaseOK, ActiveIds

LEMMA PlainSettle ==
  ASSUME PlainInv, Settle, EventsTellAll
  PROVE  IdsOK' /\ PhaseOK'
<1>1. pc = "match" /\ pending' = <<>> /\ pc' = "idle"
  BY DEF Settle, EventsTellAll, PushPending, PlainInv, PhaseOK
<1>2. /\ nextOrderId' = nextOrderId /\ replaced' = 0
      /\ cancelled' = cancelled /\ stopOrders' = stopOrders
      /\ DOMAIN orderIndex' \subseteq DOMAIN orderIndex \cup {taker.id}
  BY DEF Settle, counterVars, Put
<1> QED
  BY <1>1, <1>2 DEF PlainInv, IdsOK, PhaseOK, ActiveIds

\* A cancel always finds its order.
LEMMA CancelFinds ==
  ASSUME PlainInv, NEW id \in ActiveIds, CancelOrder(id)
  PROVE  /\ Cancelled(id) # {} /\ sequence' = sequence + 1
         /\ DOMAIN orderIndex' \subseteq DOMAIN orderIndex
         /\ DOMAIN stopOrders' \subseteq DOMAIN stopOrders
<1>1. IndexInv /\ IndexMatchesLevels
  BY IndexImplies DEF PlainInv, KindsInv
<1>2. Cancelled(id) # {}
  <2>1. CASE id \in DOMAIN orderIndex
    BY <1>1, <2>1 DEF IndexMatchesLevels, IndexQueued
  <2>2. CASE id \notin DOMAIN orderIndex
    BY <2>2 DEF Cancelled
  <2> QED
    BY <2>1, <2>2
<1> QED
  BY <1>1, <1>2, IndexCancelOrder DEF CancelOrder

LEMMA PlainCancels ==
  ASSUME PlainInv, NEW id \in ActiveIds, Cancel(id) \/ Replace(id) \/ MassCancelOne(id)
  PROVE  IdsOK' /\ PhaseOK'
<1>1. CancelOrder(id) /\ id # 0
  BY DEF Cancel, Replace, MassCancelOne, PlainInv, IdsOK
<1>2. Cancelled(id) # {}
  BY <1>1, CancelFinds
<1>3. /\ nextOrderId' = nextOrderId /\ pending' = pending /\ pc' # "match" /\ pc' # "trigger"
      /\ pc' # "mass_cancel" => cancelled' = <<>>
      /\ pc' \in {"idle", "mass_cancel"} => replaced' = 0
      /\ pc' = "replace" => replaced' # 0
  BY <1>1, <1>2 DEF Cancel, Replace, MassCancelOne, Answer, counterVars, PlainInv, PhaseOK
<1>4. ActiveIds' \subseteq ActiveIds
  BY <1>1, CancelFinds DEF ActiveIds
<1> QED
  BY <1>3, <1>4 DEF PlainInv, IdsOK, PhaseOK

LEMMA PlainStep ==
  ASSUME PlainInv, Next, EventsTellAll
  PROVE  PlainInv'
<1>1. KindsInv'
  BY KindsStep DEF PlainInv
<1>2. CASE \E req \in Requests : Submit(req)
  BY <1>1, <1>2, PlainSubmit DEF PlainInv, EventsTellAll
<1>3. CASE FillBest \/ Settle
  BY <1>1, <1>3, PlainFillBest, PlainSettle DEF PlainInv
<1>4. CASE \E id \in ActiveIds : Cancel(id) \/ Replace(id) \/ MassCancelOne(id)
  BY <1>1, <1>4, PlainCancels DEF PlainInv
<1>5. CASE RejectPostOnly \/ MassCancel \/ MassCancelDone
  <2>1. IdsOK' /\ PhaseOK'
    BY <1>5 DEF PlainInv, IdsOK, PhaseOK, RejectPostOnly, MassCancel, MassCancelDone, Answer,
                ActiveIds, bookVars, counterVars
  <2> QED
    BY <1>1, <2>1 DEF PlainInv
<1>6. CASE ActivateStop \/ SkipStop
  BY <1>6 DEF ActivateStop, SkipStop, PlainInv, PhaseOK
<1>7. cancelling \subseteq ActiveIds
  BY DEF PlainInv, KindsInv, IndexInv, TypeInv, ControlOK
<1> QED
  BY <1>2, <1>3, <1>4, <1>5, <1>6, <1>7 DEF Next, EngineStep, Command

(***************************************************************************)
(* Loading a book the engine could have.                                   *)
(***************************************************************************)

Sound(b) ==
  /\ b.nextOrderId \in Nat /\ b.nextOrderId > 0 /\ b.nextTradeId \in Nat /\ b.sequence \in Nat
  /\ IsLevels(b.levels) /\ Kinds(b.levels)
  /\ IsMap(b.orderIndex, Nat, Location) /\ Agree(b.levels, b.orderIndex)
  /\ IsMap(b.stopOrders, Nat, Order)
  /\ \A id \in DOMAIN b.stopOrders :
       /\ b.stopOrders[id].id = id /\ IsStopOrder(b.stopOrders[id].kind)
       /\ b.stopOrders[id].kind = "stop_limit" => b.stopOrders[id].price \in Price
       /\ id \notin DOMAIN b.orderIndex
  /\ \A id \in DOMAIN b.orderIndex \cup DOMAIN b.stopOrders : id # 0 /\ id < b.nextOrderId
  /\ IsMap(b.history, Nat, Seq(HistoryEntry)) /\ b.recentTrades \in Seq(Trade)

\* b is the live book, but for its history and with this sequence number.
Standing(b, seq) ==
  BookIs(b, nextOrderId, nextTradeId, seq, levels, orderIndex, stopOrders, recentTrades)

LEMMA SoundLive ==
  ASSUME PlainInv
  PROVE  Sound(LiveBook)
<1> DEFINE b == LiveBook
<1>1. /\ b.nextOrderId = nextOrderId /\ b.nextTradeId = nextTradeId /\ b.sequence = sequence
      /\ b.levels = levels /\ b.orderIndex = orderIndex /\ b.stopOrders = stopOrders
      /\ b.history = history /\ b.recentTrades = recentTrades
  BY DEF LiveBook
<1> HIDE DEF b
<1>2. /\ nextOrderId \in Nat /\ nextOrderId > 0 /\ nextTradeId \in Nat /\ sequence \in Nat
      /\ IsLevels(levels) /\ Kinds(levels)
      /\ IsMap(orderIndex, Nat, Location) /\ Agree(levels, orderIndex)
      /\ IsMap(stopOrders, Nat, Order)
      /\ IsMap(history, Nat, Seq(HistoryEntry)) /\ recentTrades \in Seq(Trade)
  BY DEF PlainInv, KindsInv, IndexInv, IndexOK, TypeInv, TypeOK, IdsOK
<1>3. \A id \in DOMAIN stopOrders :
        /\ stopOrders[id].id = id /\ IsStopOrder(stopOrders[id].kind)
        /\ stopOrders[id].kind = "stop_limit" => stopOrders[id].price \in Price
        /\ id \notin DOMAIN orderIndex
  BY DEF PlainInv, KindsInv, IndexInv, IndexOK, StopsApart, TypeInv, ControlOK
<1>4. \A id \in DOMAIN orderIndex \cup DOMAIN stopOrders : id # 0 /\ id < nextOrderId
  BY DEF PlainInv, KindsInv, IndexInv, IndexOK, ActiveIds, IdsOK
<1>5. Sound(b)
  BY <1>1, <1>2, <1>3, <1>4 DEF Sound
<1> QED
  BY <1>5 DEF b

LEMMA SoundAgain ==
  ASSUME PlainInv, NEW b, Standing(b, sequence)
  PROVE  Sound(b)
<1>1. PICK record :
        /\ IsMap(record, Nat, Seq(HistoryEntry))
        /\ b = BookOf(nextOrderId, nextTradeId, sequence, levels, orderIndex, stopOrders,
                      record, recentTrades)
  BY DEF Standing, BookIs
<1>2. /\ b.nextOrderId = nextOrderId /\ b.nextTradeId = nextTradeId /\ b.sequence = sequence
      /\ b.levels = levels /\ b.orderIndex = orderIndex /\ b.stopOrders = stopOrders
      /\ b.history = record /\ b.recentTrades = recentTrades
  BY <1>1 DEF BookOf
<1> DEFINE live == LiveBook
<1>3. /\ live.nextOrderId = nextOrderId /\ live.nextTradeId = nextTradeId
      /\ live.sequence = sequence /\ live.levels = levels /\ live.orderIndex = orderIndex
      /\ live.stopOrders = stopOrders /\ live.recentTrades = recentTrades
  BY DEF LiveBook
<1>4. Sound(live)
  BY SoundLive
<1> HIDE DEF live
<1> QED
  BY <1>1, <1>2, <1>3, <1>4 DEF Sound

LEMMA LoadKeeps ==
  ASSUME PlainInv, NEW b, Sound(b), Load(b)
  PROVE  PlainInv'
<1>1. /\ nextOrderId' = b.nextOrderId /\ nextTradeId' = b.nextTradeId
      /\ sequence' = b.sequence /\ levels' = b.levels /\ orderIndex' = b.orderIndex
      /\ stopOrders' = b.stopOrders /\ history' = b.history
      /\ recentTrades' = b.recentTrades
  BY DEF Load, Becomes
<1>2. /\ pc = "idle" /\ pc' = "idle" /\ taker' = taker /\ fills' = fills /\ pending' = pending
      /\ replaced' = replaced /\ cancelling' = cancelling /\ cancelled' = cancelled
      /\ submitted' = submitted /\ tape' = tape
  BY DEF Load, controlVars, ghostVars
<1>3. TypeOK'
  <2>1. /\ pc \in Phase /\ taker \in Order /\ fills \in Seq(Trade)
        /\ pending \in Seq(SUBSET Nat) /\ replaced \in Nat /\ cancelling \in SUBSET Nat
        /\ cancelled \in Seq(Nat) /\ IsMap(submitted, Nat, Order) /\ tape \in Seq(Trade)
    BY DEF PlainInv, KindsInv, IndexInv, TypeInv, TypeOK
  <2> QED
    BY <1>1, <1>2, <2>1 DEF TypeOK, Sound
<1>4. ControlOK'
  <2>1. cancelling = {} /\ pending = <<>>
    BY <1>2 DEF PlainInv, KindsInv, IndexInv, TypeInv, ControlOK, PhaseOK
  <2> QED
    BY <1>1, <1>2, <2>1 DEF ControlOK, Sound
<1>5. IndexOK'
  BY <1>1, <1>2 DEF IndexOK, StopsApart, ActiveIds, Sound
<1>6. Kinds(levels')
  BY <1>1 DEF Sound
<1>7. IdsOK'
  BY <1>1, <1>2 DEF IdsOK, ActiveIds, Sound
<1>8. PhaseOK'
  BY <1>2 DEF PlainInv, PhaseOK
<1> QED
  BY <1>3, <1>4, <1>5, <1>6, <1>7, <1>8 DEF PlainInv, KindsInv, IndexInv, TypeInv

(***************************************************************************)
(* The journal and the book it replays to.                                 *)
(***************************************************************************)

CheckpointOK ==
  /\ journal \in Seq(Event)
  /\ checkpoint # <<>> =>
       /\ checkpoint[1].covers \in 0..Len(journal)
       /\ Sound(Restored(checkpoint[1].snapshot))

Behind(b) == \E seq \in Nat : seq <= sequence /\ Standing(b, seq)

\* The book after an acknowledgement: the order rests again, or is gone.
Acked(b, order, status) ==
  IF RestsAgain(order, status)
    THEN BookIs(b, nextOrderId, nextTradeId, sequence, Push(levels, order),
                Put(orderIndex, order.id, At(order)), stopOrders, recentTrades)
    ELSE Standing(b, sequence)

\* What replay keeps of an order is what the executing one will not change.
LikeTaker(order) ==
  /\ order.id = taker.id /\ order.side = taker.side /\ order.kind = taker.kind
  /\ order.price = taker.price /\ order.createdAt = taker.createdAt

\* The acknowledgement an execution may end with, and its trades so far.
Tried(order, status) ==
  Replaying!Fold(ReplayOrderAck(Led(Rebuilt), Ack(order, status, <<>>)), TradeEvents(fills))

\* What ReplayRebuilds needs to be inductive: what is known in the middle of a
\* command of the book its events will replay to.
FollowOK ==
  lineage = "journal" =>
    /\ pc = "idle" => Standing(Rebuilt, sequence)
    /\ pc = "replace" => Behind(RemoveActive(Rebuilt, replaced))
    /\ pc = "match" => \A order \in Order, status \in OrderStatus :
                         LikeTaker(order) => Acked(Tried(order, status), order, status)
    /\ pc = "mass_cancel" => Behind(Removing!Fold(Rebuilt, cancelled))

RecoveryInv == PlainInv /\ CheckpointOK /\ FollowOK

LEMMA TwoReplayed ==
  ASSUME NEW b, NEW one \in Event, NEW two \in Event
  PROVE  Replaying!Fold(b, <<one, two>>) = ApplyReplayEvent(ApplyReplayEvent(b, one), two)
<1> DEFINE first == <<one>>
<1>1. first \in Seq(Event) /\ <<one, two>> = Append(first, two)
  OBVIOUS
<1>2. Replaying!Fold(b, first) = ApplyReplayEvent(b, one)
  BY OneReplayed
<1> HIDE DEF first
<1>3. Replaying!Fold(b, Append(first, two)) = ApplyReplayEvent(Replaying!Fold(b, first), two)
  BY <1>1, Replaying!FoldAppend
<1> QED
  BY <1>1, <1>2, <1>3

\* Events recorded are events replayed after the others.
LEMMA RebuiltGrows ==
  ASSUME CheckpointOK, NEW more \in Seq(Event), journal' = journal \o more,
         checkpoint' = checkpoint
  PROVE  Rebuilt' = Replaying!Fold(Rebuilt, more)
<1> DEFINE base == IF checkpoint = <<>> THEN EmptyBook ELSE Restored(checkpoint[1].snapshot)
           from == IF checkpoint = <<>> THEN 1 ELSE checkpoint[1].covers + 1
           m == Len(journal)
           n == Len(more)
           tail == SubSeq(journal, from, m)
           longer == journal \o more
<1>1. /\ journal \in Seq(Event) /\ m \in Nat /\ n \in Nat /\ from \in 1..(m + 1)
      /\ DOMAIN journal = 1..m /\ DOMAIN more = 1..n
  BY LenProperties DEF CheckpointOK
<1>2. Rebuilt = Replayed(base, tail) /\ Rebuilt' = Replayed(base, SubSeq(longer, from, Len(longer)))
  BY DEF Rebuilt
<1>3. /\ longer \in Seq(Event) /\ Len(longer) = m + n
      /\ \A i \in 1..(m + n) : longer[i] = IF i <= m THEN journal[i] ELSE more[i - m]
  BY <1>1, ConcatProperties
<1> HIDE DEF base, from, longer, m, n
<1>4. /\ tail \in Seq(Event) /\ Len(tail) = m - from + 1
      /\ \A i \in 1..(m - from + 1) : tail[i] = journal[from + i - 1]
  BY <1>1
<1> DEFINE whole == SubSeq(longer, from, m + n)
           joined == tail \o more
<1>5. /\ whole \in Seq(Event) /\ Len(whole) = m + n - from + 1
      /\ \A i \in 1..(m + n - from + 1) : whole[i] = longer[from + i - 1]
  BY <1>1, <1>3
<1> HIDE DEF tail
<1>6. /\ joined \in Seq(Event) /\ Len(joined) = Len(tail) + n
      /\ \A i \in 1..(Len(tail) + n) :
           joined[i] = IF i <= Len(tail) THEN tail[i] ELSE more[i - Len(tail)]
  BY <1>4, ConcatProperties DEF n
<1> HIDE DEF whole, joined
<1>7. Len(whole) = Len(joined)
  BY <1>1, <1>4, <1>5, <1>6
<1>8. \A i \in 1..Len(whole) : whole[i] = joined[i]
  <2> TAKE i \in 1..Len(whole)
  <2>1. i \in 1..(m + n - from + 1) /\ from + i - 1 \in 1..(m + n)
    BY <1>1, <1>5
  <2>2. whole[i] = longer[from + i - 1]
    BY <1>5, <2>1
  <2>3. CASE i <= Len(tail)
    BY <1>1, <1>3, <1>4, <1>6, <2>1, <2>2, <2>3
  <2>4. CASE i > Len(tail)
    <3>1. from + i - 1 > m /\ (from + i - 1) - m = i - Len(tail)
      BY <1>1, <1>4, <2>1, <2>4
    <3>2. i \in 1..(Len(tail) + n) /\ ~(i <= Len(tail))
      BY <1>1, <1>4, <2>1, <2>4
    <3>3. longer[from + i - 1] = more[(from + i - 1) - m]
      <4> DEFINE k == from + i - 1
      <4>1. k \in 1..(m + n) /\ ~(k <= m)
        BY <1>1, <2>1, <3>1
      <4> HIDE DEF k
      <4>2. longer[k] = more[k - m]
        BY <1>3, <4>1
      <4> QED
        BY <4>2 DEF k
    <3>4. joined[i] = more[i - Len(tail)]
      BY <1>6, <3>2
    <3> QED
      BY <2>2, <3>1, <3>3, <3>4
  <2> QED
    BY <1>1, <1>4, <2>1, <2>3, <2>4
<1>9. whole = joined
  BY <1>5, <1>6, <1>7, <1>8, SeqEqual
<1>10. Replaying!Fold(base, joined) = Replaying!Fold(Replaying!Fold(base, tail), more)
  BY <1>4, Replaying!FoldConcat DEF joined
<1>11. Rebuilt' = Replayed(base, whole)
  BY <1>2, <1>3 DEF whole
<1> QED
  BY <1>2, <1>9, <1>10, <1>11, ReplayFolds

\* A command that ends with an acknowledgement.
LEMMA Answered ==
  ASSUME CheckpointOK, checkpoint' = checkpoint,
         NEW order \in Order, NEW status \in OrderStatus, NEW list \in Seq(Trade),
         NEW seq \in Nat, replaced \in Nat,
         journal' = journal \o AckEvents(Ack(order, status, list), seq),
         NEW b, b = Replaying!Fold(ReplayOrderAck(Led(Rebuilt), Ack(order, status, <<>>)),
                                   TradeEvents(list)),
         NEW orderId, NEW tradeId, NEW books, NEW index, NEW stops, NEW trades,
         BookIs(b, orderId, tradeId, seq, books, index, stops, trades)
  PROVE  BookIs(Rebuilt', orderId, tradeId, seq, books, index, stops, trades)
<1> DEFINE more == AckEvents(Ack(order, status, list), seq)
<1>1. more \in Seq(Event)
  <2>1. Ack(order, status, list) \in Acknowledgement
    BY DEF Ack, Acknowledgement
  <2> QED
    BY <2>1, AckEventsType
<1>2. PICK old : old = Rebuilt
  OBVIOUS
<1>3. Rebuilt' = Replaying!Fold(old, more)
  <2> HIDE DEF more
  <2>1. journal' = journal \o more
    BY DEF more
  <2> QED
    BY <1>1, <1>2, <2>1, RebuiltGrows
<1>4. Replaying!Fold(old, more)
        = AdvanceTo(Replaying!Fold(ReplayOrderAck(Led(old), Ack(order, status, <<>>)),
                                   TradeEvents(list)), seq)
  BY AckReplayed
<1>5. Rebuilt' = AdvanceTo(b, seq)
  BY <1>2, <1>3, <1>4
<1>6. BookIs(AdvanceTo(b, seq), orderId, tradeId, seq, books, index, stops, trades)
  BY SequenceAdvanced
<1> QED
  BY <1>5, <1>6

\* A cancel, replayed.
LEMMA CancelReplayed ==
  ASSUME PlainInv, NEW id \in ActiveIds, CancelOrder(id),
         nextOrderId' = nextOrderId, nextTradeId' = nextTradeId, recentTrades' = recentTrades,
         NEW b, NEW seq, Standing(b, seq)
  PROVE  BookIs(RemoveActive(b, id), nextOrderId', nextTradeId', seq, levels', orderIndex',
                stopOrders', recentTrades')
<1>1. BookIs(b, nextOrderId, nextTradeId, seq, levels, orderIndex, stopOrders, recentTrades)
  BY DEF Standing
<1>2. CASE id \in DOMAIN orderIndex
  <2>1. id \notin DOMAIN stopOrders
    BY <1>2 DEF PlainInv, KindsInv, IndexInv, IndexOK, StopsApart
  <2>2. /\ orderIndex' = Without(orderIndex, id) /\ stopOrders' = stopOrders
        /\ levels' = RemoveFromLevel(levels, orderIndex[id].side, orderIndex[id].price, id)
    BY <1>2 DEF CancelOrder
  <2>3. BookIs(RemoveActive(b, id), nextOrderId, nextTradeId, seq,
               RemoveFromLevel(levels, orderIndex[id].side, orderIndex[id].price, id),
               Without(orderIndex, id), stopOrders, recentTrades)
    BY <1>1, <1>2, <2>1, OrderRemoved
  <2> QED
    BY <2>2, <2>3
<1>3. CASE id \notin DOMAIN orderIndex
  <2>1. id \in DOMAIN stopOrders
    BY <1>3 DEF ActiveIds
  <2>2. /\ stopOrders' = Without(stopOrders, id)
        /\ orderIndex' = orderIndex /\ levels' = levels
    BY <1>3 DEF CancelOrder
  <2>3. BookIs(RemoveActive(b, id), nextOrderId, nextTradeId, seq, levels, orderIndex,
               Without(stopOrders, id), recentTrades)
    BY <1>1, <2>1, StopRemoved
  <2> QED
    BY <2>2, <2>3
<1> QED
  BY <1>2, <1>3

(***************************************************************************)
(* The steps of the engine, as long as the journal tells of its book.      *)
(***************************************************************************)

\* What an engine step does to the journal.
Tells ==
  /\ journal' = IF pc' = "idle" THEN journal \o events' ELSE journal
  /\ checkpoint' = checkpoint /\ lineage' = lineage

\* The rebuilt book of a step that records nothing.
LEMMA RebuiltStays ==
  ASSUME journal' = journal, checkpoint' = checkpoint
  PROVE  Rebuilt' = Rebuilt
BY DEF Rebuilt

LEMMA LedBehind ==
  ASSUME RecoveryInv, lineage = "journal", pc \in {"idle", "replace"}
  PROVE  Behind(Led(Rebuilt))
<1>1. CASE pc = "idle"
  <2>1. Led(Rebuilt) = Rebuilt
    BY <1>1 DEF Led, RecoveryInv, PlainInv, PhaseOK
  <2>2. sequence \in Nat /\ sequence <= sequence
    BY DEF RecoveryInv, PlainInv, KindsInv, IndexInv, TypeInv, TypeOK
  <2>3. Standing(Rebuilt, sequence)
    BY <1>1 DEF RecoveryInv, FollowOK
  <2> QED
    BY <2>1, <2>2, <2>3 DEF Behind
<1>2. CASE pc = "replace"
  <2>1. Led(Rebuilt) = RemoveActive(Rebuilt, replaced)
    BY <1>2 DEF Led, RecoveryInv, PlainInv, PhaseOK
  <2> QED
    BY <1>2, <2>1 DEF RecoveryInv, FollowOK
<1> QED
  BY <1>1, <1>2

\* A request that ends at once: a stop order, or a fill-or-kill order killed.
LEMMA FollowAtOnce ==
  ASSUME RecoveryInv, lineage = "journal", Tells, NEW req \in Requests,
         pc \in {"idle", "replace"}, AcceptStop(req) \/ RejectFok(req)
  PROVE  FollowOK'
<1>1. /\ TypeInv /\ CheckpointOK /\ nextOrderId \in Nat /\ sequence \in Nat /\ replaced \in Nat
      /\ sequence + 1 \in Nat
  BY DEF RecoveryInv, PlainInv, KindsInv, IndexInv, TypeInv, TypeOK
<1>2. PICK order : order = Incoming(req)
  OBVIOUS
<1>3. /\ order \in Order /\ order.id = nextOrderId /\ order.kind = req.kind
      /\ order.createdAt = sequence + 1 /\ order.remaining = req.quantity
      /\ Admitted(req)
  BY <1>1, <1>2, IncomingType DEF Incoming, MakeOrder, AcceptStop, RejectFok
<1>4. PICK seq \in Nat : seq <= sequence /\ Standing(Led(Rebuilt), seq)
  BY LedBehind DEF Behind
<1>5. PICK status \in {"resting", "rejected"} :
        /\ status = "resting" => AcceptStop(req)
        /\ status = "rejected" => RejectFok(req)
  OBVIOUS
<1>6. /\ status \in OrderStatus
      /\ pc' = "idle" /\ events' = AckEvents(Ack(order, status, <<>>), sequence + 1)
      /\ nextOrderId' = order.id + 1 /\ nextTradeId' = nextTradeId
      /\ sequence' = sequence + 1
      /\ levels' = levels /\ orderIndex' = orderIndex /\ recentTrades' = recentTrades
  BY <1>2, <1>3, <1>5
     DEF AcceptStop, RejectFok, AcceptAs, Answer, Create, bookVars, OrderStatus
<1> DEFINE b == ReplayOrderAck(Led(Rebuilt), Ack(order, status, <<>>))
<1>7. BookIs(b, order.id + 1, nextTradeId, sequence + 1, levels, orderIndex, stopOrders',
             recentTrades)
  <2>1. BookIs(Led(Rebuilt), order.id, nextTradeId, seq, levels, orderIndex, stopOrders,
               recentTrades) /\ seq <= order.createdAt
    BY <1>1, <1>3, <1>4 DEF Standing
  <2>2. CASE status = "resting"
    <3>1. IsStopOrder(order.kind) /\ stopOrders' = Put(stopOrders, order.id, order)
      BY <1>2, <1>3, <1>5, <2>2 DEF AcceptStop
    <3>2. order.remaining > 0
      BY <1>3, <3>1 DEF Admitted, Validates, ValidBase, IsStopOrder
    <3> QED
      BY <1>3, <2>1, <2>2, <3>1, <3>2, AckSleeps
  <2>3. CASE status = "rejected"
    <3>1. stopOrders' = stopOrders
      BY <1>5, <2>3 DEF RejectFok, bookVars
    <3>2. ~RestsAgain(order, status)
      BY <2>3 DEF RestsAgain
    <3>3. BookIs(b, order.id + 1, nextTradeId, order.createdAt, levels, orderIndex, stopOrders,
                 recentTrades)
      BY <1>3, <1>6, <2>1, <2>3, <3>2, AckGone
    <3> QED
      BY <1>3, <3>1, <3>3
  <2> QED
    BY <2>2, <2>3
<1>8. b = Replaying!Fold(ReplayOrderAck(Led(Rebuilt), Ack(order, status, <<>>)), TradeEvents(<<>>))
  <2>1. TradeEvents(<<>>) = <<>>
    BY DEF TradeEvents
  <2> QED
    BY <2>1, Replaying!FoldEmpty
<1> HIDE DEF b
<1>9. PICK c, orderId, tradeId, books, index, stops, trades, time :
        /\ c = b /\ orderId = order.id + 1 /\ tradeId = nextTradeId /\ books = levels
        /\ index = orderIndex /\ stops = stopOrders' /\ trades = recentTrades
        /\ time = sequence + 1
  OBVIOUS
<1>10. BookIs(Rebuilt', orderId, tradeId, time, books, index, stops, trades)
  <2> DEFINE list == <<>>
  <2>1. /\ list \in Seq(Trade) /\ time \in Nat
        /\ journal' = journal \o AckEvents(Ack(order, status, list), time)
        /\ checkpoint' = checkpoint
        /\ c = Replaying!Fold(ReplayOrderAck(Led(Rebuilt), Ack(order, status, <<>>)),
                              TradeEvents(list))
        /\ BookIs(c, orderId, tradeId, time, books, index, stops, trades)
    BY <1>1, <1>6, <1>7, <1>8, <1>9 DEF Tells
  <2> HIDE DEF list
  <2> QED
    BY <1>1, <1>3, <1>6, <2>1, Answered
<1>11. Standing(Rebuilt, sequence)'
  BY <1>6, <1>9, <1>10 DEF Standing
<1> QED
  BY <1>6, <1>11 DEF FollowOK

LEMMA FollowBegin ==
  ASSUME RecoveryInv, lineage = "journal", Tells, NEW req \in Requests,
         pc \in {"idle", "replace"}, BeginExecution(req)
  PROVE  FollowOK'
<1>1. /\ TypeInv /\ nextOrderId \in Nat /\ sequence \in Nat
  BY DEF RecoveryInv, PlainInv, KindsInv, IndexInv, TypeInv, TypeOK
<1>2. /\ Incoming(req).id = nextOrderId /\ Incoming(req).createdAt = sequence + 1
      /\ Incoming(req).kind = req.kind
  BY <1>1, IncomingType DEF Incoming, MakeOrder
<1>3. /\ pc' = "match" /\ taker' = Incoming(req) /\ fills' = <<>>
      /\ nextOrderId' = nextOrderId + 1 /\ nextTradeId' = nextTradeId
      /\ sequence' = sequence + 1 /\ replaced' = replaced /\ ~IsStopOrder(req.kind)
      /\ levels' = levels /\ orderIndex' = orderIndex /\ stopOrders' = stopOrders
      /\ recentTrades' = recentTrades
  BY DEF BeginExecution, Create, bookVars
<1>4. PICK led : led = Led(Rebuilt)
  OBVIOUS
<1>5. Led(Rebuilt)' = led
  BY <1>3, <1>4, RebuiltStays DEF Tells, Led
<1>6. PICK seq \in Nat : seq <= sequence /\ Standing(led, seq)
  BY <1>4, LedBehind DEF Behind
<1>7. ASSUME NEW order \in Order, NEW status \in OrderStatus, LikeTaker(order)'
      PROVE  Acked(Tried(order, status), order, status)'
  <2>1. /\ order.id = nextOrderId /\ order.createdAt = sequence + 1
        /\ ~IsStopOrder(order.kind)
    BY <1>2, <1>3, <1>7 DEF LikeTaker
  <2> DEFINE b == ReplayOrderAck(led, Ack(order, status, <<>>))
  <2>2. Tried(order, status)' = b
    <3>1. TradeEvents(<<>>) = <<>>
      BY DEF TradeEvents
    <3>2. Tried(order, status)' = Replaying!Fold(b, TradeEvents(fills'))
      BY <1>5 DEF Tried
    <3> HIDE DEF b
    <3> QED
      BY <1>3, <3>1, <3>2, Replaying!FoldEmpty
  <2>3. BookIs(led, order.id, nextTradeId, seq, levels, orderIndex, stopOrders, recentTrades)
        /\ seq <= order.createdAt
    BY <1>1, <1>6, <2>1 DEF Standing
  <2>4. CASE RestsAgain(order, status)
    <3>1. BookIs(b, order.id + 1, nextTradeId, order.createdAt, Push(levels, order),
                 Put(orderIndex, order.id, At(order)), stopOrders, recentTrades)
      BY <2>1, <2>3, <2>4, AckRests
    <3> HIDE DEF b
    <3> QED
      BY <1>3, <2>1, <2>2, <2>4, <3>1 DEF Acked
  <2>5. CASE ~RestsAgain(order, status)
    <3>1. BookIs(b, order.id + 1, nextTradeId, order.createdAt, levels, orderIndex, stopOrders,
                 recentTrades)
      BY <2>1, <2>3, <2>5, AckGone
    <3> HIDE DEF b
    <3> QED
      BY <1>3, <2>1, <2>2, <2>5, <3>1 DEF Acked, Standing
  <2> QED
    BY <2>4, <2>5
<1> QED
  BY <1>3, <1>7 DEF FollowOK

LEMMA FollowFillBest ==
  ASSUME RecoveryInv, lineage = "journal", Tells, FillBest
  PROVE  FollowOK'
<1>1. /\ IndexInv /\ TypeInv /\ pc = "match" /\ taker \in Order /\ fills \in Seq(Trade)
  BY DEF RecoveryInv, PlainInv, KindsInv, IndexInv, TypeInv, TypeOK, FillBest
<1>2. /\ pc' = "match" /\ taker' = ReduceTaker(taker, BestPrice, NextAmount)
      /\ fills' = Append(fills, NextTrade) /\ replaced' = replaced
  BY <1>1 DEF FillBest
<1>3. /\ taker'.id = taker.id /\ taker'.side = taker.side /\ taker'.kind = taker.kind
      /\ taker'.price = taker.price /\ taker'.createdAt = taker.createdAt
  BY <1>1, <1>2 DEF ReduceTaker, Order
<1>4. PICK led, trade : led = Led(Rebuilt) /\ trade = NextTrade
  OBVIOUS
<1>5. Led(Rebuilt)' = led
  <2>1. pc' # "idle"
    BY <1>2
  <2> QED
    BY <1>2, <1>4, <2>1, RebuiltStays DEF Tells, Led
<1>6. trade \in Trade
  BY <1>1, <1>4, MakerStands
<1>7. ASSUME NEW order \in Order, NEW status \in OrderStatus, LikeTaker(order)'
      PROVE  Acked(Tried(order, status), order, status)'
  <2>1. LikeTaker(order)
    BY <1>3, <1>7 DEF LikeTaker
  <2> DEFINE first == ReplayOrderAck(led, Ack(order, status, <<>>))
             b == Replaying!Fold(first, TradeEvents(fills))
  <2>2. b = Tried(order, status)
    BY <1>4 DEF Tried
  <2>3. Tried(order, status)' = Replaying!Fold(first, TradeEvents(fills'))
    BY <1>5 DEF Tried
  <2>4. Tried(order, status)' = ReplayTrade(b, trade)
    <3> DEFINE told == TradeEvents(fills)
    <3>1. told \in Seq(Event) /\ TradeEvents(fills') = Append(told, TradeEvent(trade))
      BY <1>1, <1>2, <1>4, <1>6, TradeEventsType
    <3>2. TradeEvent(trade) \in Event
      BY <1>6 DEF TradeEvent, Event
    <3> HIDE DEF first, told
    <3>3. Replaying!Fold(first, Append(told, TradeEvent(trade)))
            = ApplyReplayEvent(Replaying!Fold(first, told), TradeEvent(trade))
      BY <3>1, <3>2, Replaying!FoldAppend
    <3> QED
      BY <2>3, <3>1, <3>3, EventsApply DEF told
  <2> HIDE DEF b
  <2>5. Acked(b, order, status)
    BY <1>1, <2>1, <2>2 DEF RecoveryInv, FollowOK
  <2>6. CASE RestsAgain(order, status)
    <3>1. BookIs(b, nextOrderId, nextTradeId, sequence, Push(levels, order),
                 Put(orderIndex, order.id, At(order)), stopOrders, recentTrades)
      BY <2>5, <2>6 DEF Acked
    <3>2. BookIs(ReplayTrade(b, NextTrade), nextOrderId', nextTradeId', sequence',
                 Push(levels', order), Put(orderIndex', order.id, At(order)),
                 stopOrders', recentTrades')
      BY <1>1, <2>1, <3>1, FillReplayedRested DEF LikeTaker
    <3> QED
      BY <1>4, <2>4, <2>6, <3>2 DEF Acked
  <2>7. CASE ~RestsAgain(order, status)
    <3>1. BookIs(b, nextOrderId, nextTradeId, sequence, levels, orderIndex, stopOrders,
                 recentTrades)
      BY <2>5, <2>7 DEF Acked, Standing
    <3>2. BookIs(ReplayTrade(b, NextTrade), nextOrderId', nextTradeId', sequence', levels',
                 orderIndex', stopOrders', recentTrades')
      BY <1>1, <3>1, FillReplayed
    <3> QED
      BY <1>4, <2>4, <2>7, <3>2 DEF Acked, Standing
  <2> QED
    BY <2>6, <2>7
<1> QED
  BY <1>2, <1>7 DEF FollowOK
\* Replay puts the taker of an execution that ends back where the engine does.
LEMMA SettledRests ==
  ASSUME RecoveryInv, Settle, EventsTellAll, NEW status,
         status = SettledStatus(levels, taker, fills # <<>>)
  PROVE  RestsAgain(taker, status) <=> Rests(levels, taker)
<1>1. /\ TypeInv /\ pc = "match" /\ taker.remaining \in Nat
  BY DEF RecoveryInv, PlainInv, KindsInv, IndexInv, TypeInv, TypeOK, Order, Settle
<1>2. CASE Rests(levels, taker)
  <2>1. taker.price # None
    BY <1>1, <1>2, RestingHasPrice DEF Price, None
  <2>2. taker.remaining > 0
    BY <1>1, <1>2 DEF Rests, IsFilled, Discards
  <2>3. status \in {"resting", "partially_filled"}
    BY <1>2, SettledStatusRests
  <2> QED
    BY <1>2, <2>1, <2>2, <2>3 DEF RestsAgain
<1>3. CASE IsFilled(taker)
  BY <1>3 DEF SettledStatus, RestsAgain, Rests
<1>4. CASE ~IsFilled(taker) /\ Discards(levels, taker)
  <2>1. status = IF fills # <<>> THEN "partially_filled" ELSE "rejected"
    BY <1>4 DEF SettledStatus, Rests
  <2>2. fills # <<>> => taker.price = None
    BY <1>1, <1>4 DEF EventsTellAll, RecoveryInv, PlainInv, PhaseOK
  <2> QED
    BY <1>4, <2>1, <2>2 DEF RestsAgain, Rests
<1> QED
  BY <1>2, <1>3, <1>4 DEF Rests

\* An execution that ends, whatever its order's fate.
LEMMA FollowEnds ==
  ASSUME RecoveryInv, lineage = "journal", Tells, pc = "match", pc' = "idle",
         NEW status \in OrderStatus,
         events' = events \o AckEvents(Ack(taker, status, fills), sequence),
         nextOrderId' = nextOrderId, nextTradeId' = nextTradeId, sequence' = sequence,
         stopOrders' = stopOrders, recentTrades' = recentTrades,
         IF RestsAgain(taker, status)
           THEN levels' = Push(levels, taker) /\ orderIndex' = Put(orderIndex, taker.id, At(taker))
           ELSE levels' = levels /\ orderIndex' = orderIndex
  PROVE  FollowOK'
<1>1. /\ CheckpointOK /\ sequence \in Nat /\ replaced \in Nat
      /\ taker \in Order /\ fills \in Seq(Trade) /\ events = <<>>
  BY DEF RecoveryInv, PlainInv, KindsInv, IndexInv, TypeInv, TypeOK, PhaseOK
<1>2. PICK order, list, time : order = taker /\ list = fills /\ time = sequence
  OBVIOUS
<1>3. order \in Order /\ list \in Seq(Trade) /\ time \in Nat
  BY <1>1, <1>2
<1>4. AckEvents(Ack(order, status, list), time) \in Seq(Event)
  <2>1. Ack(order, status, list) \in Acknowledgement
    BY <1>3 DEF Ack, Acknowledgement
  <2> QED
    BY <1>1, <1>3, <2>1, AckEventsType
<1>5. journal' = journal \o AckEvents(Ack(order, status, list), time)
  <2> DEFINE more == AckEvents(Ack(order, status, list), time)
  <2>1. more \in Seq(Event)
    BY <1>4
  <2>2. events' = <<>> \o more
    BY <1>1, <1>2
  <2> HIDE DEF more
  <2>3. events' = more
    BY <2>1, <2>2
  <2> QED
    BY <2>3 DEF Tells, more
<1>6. Acked(Tried(order, status), order, status)
  BY <1>1, <1>2 DEF RecoveryInv, FollowOK, LikeTaker
<1>7. PICK b : b = Tried(order, status)
  OBVIOUS
<1>8. PICK orderId, tradeId, books, index, stops, trades :
        /\ orderId = nextOrderId' /\ tradeId = nextTradeId' /\ books = levels'
        /\ index = orderIndex' /\ stops = stopOrders' /\ trades = recentTrades'
  OBVIOUS
<1>9. BookIs(b, orderId, tradeId, time, books, index, stops, trades)
  <2>1. CASE RestsAgain(order, status)
    <3>1. BookIs(b, nextOrderId, nextTradeId, sequence, Push(levels, order),
                 Put(orderIndex, order.id, At(order)), stopOrders, recentTrades)
      BY <1>6, <1>7, <2>1 DEF Acked
    <3> QED
      BY <1>2, <1>8, <2>1, <3>1
  <2>2. CASE ~RestsAgain(order, status)
    <3>1. BookIs(b, nextOrderId, nextTradeId, sequence, levels, orderIndex, stopOrders,
                 recentTrades)
      BY <1>6, <1>7, <2>2 DEF Acked, Standing
    <3> QED
      BY <1>2, <1>8, <2>2, <3>1
  <2> QED
    BY <2>1, <2>2
<1>10. b = Replaying!Fold(ReplayOrderAck(Led(Rebuilt), Ack(order, status, <<>>)),
                          TradeEvents(list))
  BY <1>2, <1>7 DEF Tried
<1>11. BookIs(Rebuilt', orderId, tradeId, time, books, index, stops, trades)
  <2>1. checkpoint' = checkpoint
    BY DEF Tells
  <2> QED
    BY <1>1, <1>3, <1>5, <1>9, <1>10, <2>1, Answered
<1>12. Standing(Rebuilt, sequence)'
  BY <1>2, <1>8, <1>11 DEF Standing
<1> QED
  BY <1>12 DEF FollowOK

LEMMA FollowSettle ==
  ASSUME RecoveryInv, lineage = "journal", Tells, Settle, EventsTellAll
  PROVE  FollowOK'
<1>1. PICK status : status = SettledStatus(levels, taker, fills # <<>>)
  OBVIOUS
<1>2. status \in OrderStatus
  BY <1>1, SettledStatusType
<1>3. RestsAgain(taker, status) <=> Rests(levels, taker)
  BY <1>1, SettledRests
<1>4. /\ pc = "match" /\ pc' = "idle"
      /\ events' = events \o AckEvents(Ack(taker, status, fills), sequence)
      /\ nextOrderId' = nextOrderId /\ nextTradeId' = nextTradeId /\ sequence' = sequence
      /\ stopOrders' = stopOrders /\ recentTrades' = recentTrades
  BY <1>1 DEF Settle, EventsTellAll, PushPending, RecoveryInv, PlainInv, PhaseOK, counterVars
<1>5. IF Rests(levels, taker)
        THEN levels' = Push(levels, taker) /\ orderIndex' = Put(orderIndex, taker.id, At(taker))
        ELSE levels' = levels /\ orderIndex' = orderIndex
  BY DEF Settle, At
<1> QED
  BY <1>2, <1>3, <1>4, <1>5, FollowEnds

LEMMA FollowRejectPostOnly ==
  ASSUME RecoveryInv, lineage = "journal", Tells, RejectPostOnly
  PROVE  FollowOK'
<1>1. /\ pc = "match" /\ pc' = "idle" /\ fills = <<>>
      /\ events' = events \o AckEvents(Ack(taker, "rejected", <<>>), sequence)
      /\ nextOrderId' = nextOrderId /\ nextTradeId' = nextTradeId /\ sequence' = sequence
      /\ stopOrders' = stopOrders /\ recentTrades' = recentTrades
      /\ levels' = levels /\ orderIndex' = orderIndex
  BY DEF RejectPostOnly, PostOnlyCrosses, RecoveryInv, PlainInv, PhaseOK, counterVars, bookVars
<1>2. PICK status : status = "rejected"
  OBVIOUS
<1>3. status \in OrderStatus /\ ~RestsAgain(taker, status)
  BY <1>2 DEF OrderStatus, RestsAgain
<1>4. events' = events \o AckEvents(Ack(taker, status, fills), sequence)
  BY <1>1, <1>2
<1> QED
  BY <1>1, <1>3, <1>4, FollowEnds
\* A command that ends with two events.
LEMMA FollowTwo ==
  ASSUME CheckpointOK, Tells, pc' = "idle", NEW one \in Event, NEW two \in Event,
         events' = <<one, two>>
  PROVE  /\ events' \in Seq(Event)
         /\ Rebuilt' = ApplyReplayEvent(ApplyReplayEvent(Rebuilt, one), two)
<1> DEFINE more == <<one, two>>
<1>1. more \in Seq(Event) /\ events' = more
  OBVIOUS
<1>2. PICK old : old = Rebuilt
  OBVIOUS
<1>3. Rebuilt' = Replaying!Fold(old, more)
  <2> HIDE DEF more
  <2> QED
    BY <1>1, <1>2, RebuiltGrows DEF Tells
<1>4. Replaying!Fold(old, <<one, two>>) = ApplyReplayEvent(ApplyReplayEvent(old, one), two)
  BY TwoReplayed
<1> QED
  BY <1>1, <1>2, <1>3, <1>4

LEMMA FollowCancel ==
  ASSUME RecoveryInv, lineage = "journal", Tells, NEW id \in ActiveIds, Cancel(id)
  PROVE  FollowOK' /\ events' \in Seq(Event)
<1>1. /\ PlainInv /\ CheckpointOK /\ sequence \in Nat /\ id \in Nat
  <2>1. ActiveIds \subseteq Nat
    BY DEF ActiveIds, RecoveryInv, PlainInv, KindsInv, IndexInv, IndexOK, TypeInv, TypeOK, IsMap
  <2> QED
    BY <2>1 DEF RecoveryInv, PlainInv, KindsInv, IndexInv, TypeInv, TypeOK
<1>2. /\ CancelOrder(id) /\ pc = "idle" /\ pc' = "idle"
      /\ nextOrderId' = nextOrderId /\ nextTradeId' = nextTradeId
      /\ recentTrades' = recentTrades
  BY DEF Cancel, Answer, counterVars
<1>3. Cancelled(id) # {} /\ sequence' = sequence + 1
  BY <1>1, <1>2, CancelFinds
<1>4. PICK one, two, now, later :
        /\ one = CancelEvent(id) /\ two = BookEvent(later)
        /\ now = sequence /\ later = sequence + 1
  OBVIOUS
<1>5. /\ one \in Event /\ two \in Event /\ events' = <<one, two>>
      /\ now \in Nat /\ later \in Nat /\ now <= later
  <2>1. events' = <<CancelEvent(id), BookEvent(sequence + 1)>>
    BY <1>3 DEF Cancel, Answer
  <2>2. now \in Nat /\ later \in Nat /\ now <= later
    BY <1>1, <1>4
  <2> QED
    BY <1>1, <1>4, <2>1, <2>2 DEF Event, CancelEvent, BookEvent
<1>6. Standing(Rebuilt, now)
  BY <1>2, <1>4 DEF RecoveryInv, FollowOK
<1>7. PICK old, gone : old = Rebuilt /\ gone = RemoveActive(old, id)
  OBVIOUS
<1>8. /\ events' \in Seq(Event) /\ Rebuilt' = AdvanceTo(gone, later)
  <2>1. Rebuilt' = ApplyReplayEvent(ApplyReplayEvent(Rebuilt, one), two) /\ events' \in Seq(Event)
    BY <1>1, <1>2, <1>5, FollowTwo
  <2>2. ApplyReplayEvent(old, CancelEvent(id)) = RemoveActive(old, id)
    BY EventsApply
  <2>3. ApplyReplayEvent(gone, BookEvent(later)) = AdvanceTo(gone, later)
    BY EventsApply
  <2> QED
    BY <1>4, <1>7, <2>1, <2>2, <2>3
<1>9. BookIs(gone, nextOrderId', nextTradeId', now, levels', orderIndex', stopOrders',
             recentTrades')
  BY <1>1, <1>2, <1>6, <1>7, CancelReplayed
<1>10. PICK orderId, tradeId, books, index, stops, trades :
         /\ orderId = nextOrderId' /\ tradeId = nextTradeId' /\ books = levels'
         /\ index = orderIndex' /\ stops = stopOrders' /\ trades = recentTrades'
  OBVIOUS
<1>11. BookIs(AdvanceTo(gone, later), orderId, tradeId, later, books, index, stops, trades)
  BY <1>5, <1>9, <1>10, SequenceAdvanced
<1>12. Standing(Rebuilt, sequence)'
  BY <1>3, <1>4, <1>8, <1>10, <1>11 DEF Standing
<1> QED
  BY <1>2, <1>8, <1>12 DEF FollowOK

\* The order a replacement cancels.
LEMMA FollowReplace ==
  ASSUME RecoveryInv, lineage = "journal", Tells, NEW id \in ActiveIds, Replace(id)
  PROVE  FollowOK'
<1>1. PlainInv /\ sequence \in Nat
  BY DEF RecoveryInv, PlainInv, KindsInv, IndexInv, TypeInv, TypeOK
<1>2. CancelOrder(id) /\ Cancelled(id) # {} /\ sequence' = sequence + 1
  BY <1>1, CancelFinds DEF Replace
<1>3. /\ pc = "idle" /\ pc' = "replace" /\ replaced' = id
      /\ nextOrderId' = nextOrderId /\ nextTradeId' = nextTradeId
      /\ recentTrades' = recentTrades
  BY <1>2 DEF Replace, counterVars
<1>4. PICK old, now : old = Rebuilt /\ now = sequence
  OBVIOUS
<1>5. Rebuilt' = old
  BY <1>3, <1>4, RebuiltStays DEF Tells
<1>6. Standing(old, now) /\ now \in Nat /\ now <= sequence'
  BY <1>1, <1>2, <1>3, <1>4 DEF RecoveryInv, FollowOK
<1>7. BookIs(RemoveActive(old, id), nextOrderId', nextTradeId', now, levels', orderIndex',
             stopOrders', recentTrades')
  BY <1>1, <1>2, <1>3, <1>6, CancelReplayed
<1>8. Behind(RemoveActive(Rebuilt, replaced))'
  BY <1>3, <1>5, <1>6, <1>7 DEF Behind, Standing
<1> QED
  BY <1>3, <1>8 DEF FollowOK

LEMMA FollowMassCancel ==
  ASSUME RecoveryInv, lineage = "journal", Tells, MassCancel
  PROVE  FollowOK'
<1>1. /\ pc = "idle" /\ pc' = "mass_cancel" /\ cancelled = <<>> /\ cancelled' = cancelled
      /\ nextOrderId' = nextOrderId /\ nextTradeId' = nextTradeId /\ sequence' = sequence
      /\ levels' = levels /\ orderIndex' = orderIndex /\ stopOrders' = stopOrders
      /\ recentTrades' = recentTrades /\ sequence \in Nat
  BY DEF MassCancel, counterVars, bookVars, RecoveryInv, PlainInv, PhaseOK, KindsInv, IndexInv,
         TypeInv, TypeOK
<1>2. PICK old, now : old = Rebuilt /\ now = sequence
  OBVIOUS
<1>3. Rebuilt' = old /\ Standing(old, now) /\ now \in Nat /\ now <= sequence'
  BY <1>1, <1>2, RebuiltStays DEF Tells, RecoveryInv, FollowOK
<1>4. Removing!Fold(old, <<>>) = old
  BY Removing!FoldEmpty
<1>5. Standing(old, now)'
  BY <1>1, <1>3 DEF Standing
<1>6. Behind(Removing!Fold(Rebuilt, cancelled))'
  BY <1>1, <1>3, <1>4, <1>5 DEF Behind
<1> QED
  BY <1>1, <1>6 DEF FollowOK

LEMMA FollowMassCancelOne ==
  ASSUME RecoveryInv, lineage = "journal", Tells, NEW id \in ActiveIds, MassCancelOne(id)
  PROVE  FollowOK'
<1>1. /\ PlainInv /\ sequence \in Nat /\ cancelled \in Seq(Nat) /\ id \in Nat
  <2>1. ActiveIds \subseteq Nat
    BY DEF ActiveIds, RecoveryInv, PlainInv, KindsInv, IndexInv, IndexOK, TypeInv, TypeOK, IsMap
  <2> QED
    BY <2>1 DEF RecoveryInv, PlainInv, KindsInv, IndexInv, TypeInv, TypeOK
<1>2. CancelOrder(id) /\ Cancelled(id) # {} /\ sequence' = sequence + 1
  BY <1>1, CancelFinds DEF MassCancelOne
<1>3. /\ pc = "mass_cancel" /\ pc' = "mass_cancel" /\ cancelled' = Append(cancelled, id)
      /\ nextOrderId' = nextOrderId /\ nextTradeId' = nextTradeId
      /\ recentTrades' = recentTrades
  BY <1>2 DEF MassCancelOne, counterVars
<1>4. PICK old, ids : old = Rebuilt /\ ids = cancelled
  OBVIOUS
<1>5. Rebuilt' = old
  BY <1>3, <1>4, RebuiltStays DEF Tells
<1>6. PICK now \in Nat : now <= sequence /\ Standing(Removing!Fold(old, ids), now)
  BY <1>3, <1>4 DEF RecoveryInv, FollowOK, Behind
<1>7. Removing!Fold(old, Append(ids, id)) = RemoveActive(Removing!Fold(old, ids), id)
  BY <1>1, <1>4, Removing!FoldAppend
<1>8. BookIs(RemoveActive(Removing!Fold(old, ids), id), nextOrderId', nextTradeId', now,
             levels', orderIndex', stopOrders', recentTrades')
  <2> DEFINE b == Removing!Fold(old, ids)
  <2>1. Standing(b, now)
    BY <1>6
  <2> HIDE DEF b
  <2>2. BookIs(RemoveActive(b, id), nextOrderId', nextTradeId', now, levels', orderIndex',
               stopOrders', recentTrades')
    BY <1>1, <1>2, <1>3, <2>1, CancelReplayed
  <2> QED
    BY <2>2 DEF b
<1>9. now <= sequence'
  BY <1>1, <1>2, <1>6
<1>10. Behind(Removing!Fold(Rebuilt, cancelled))'
  BY <1>3, <1>4, <1>5, <1>7, <1>8, <1>9 DEF Behind, Standing
<1> QED
  BY <1>3, <1>10 DEF FollowOK

LEMMA FollowMassCancelDone ==
  ASSUME RecoveryInv, lineage = "journal", Tells, MassCancelDone
  PROVE  FollowOK' /\ events' \in Seq(Event)
<1>1. /\ CheckpointOK /\ sequence \in Nat /\ cancelled \in Seq(Nat)
      /\ pc = "mass_cancel" /\ pc' = "idle"
      /\ nextOrderId' = nextOrderId /\ nextTradeId' = nextTradeId /\ sequence' = sequence
      /\ levels' = levels /\ orderIndex' = orderIndex /\ stopOrders' = stopOrders
      /\ recentTrades' = recentTrades
  BY DEF MassCancelDone, Answer, counterVars, bookVars, RecoveryInv, PlainInv, KindsInv,
         IndexInv, TypeInv, TypeOK
<1>2. PICK one, two, later, ids :
        /\ ids = cancelled /\ later = sequence
        /\ one = MassCancelEvent(ids) /\ two = BookEvent(later)
  OBVIOUS
<1>3. one \in Event /\ two \in Event /\ events' = <<one, two>> /\ later \in Nat
  BY <1>1, <1>2 DEF MassCancelDone, Answer, Event, MassCancelEvent, BookEvent
<1>4. PICK old, gone : old = Rebuilt /\ gone = Removing!Fold(old, ids)
  OBVIOUS
<1>5. PICK now \in Nat : now <= sequence /\ Standing(gone, now)
  BY <1>1, <1>2, <1>4 DEF RecoveryInv, FollowOK, Behind
<1>6. events' \in Seq(Event) /\ Rebuilt' = AdvanceTo(gone, later)
  <2>1. Rebuilt' = ApplyReplayEvent(ApplyReplayEvent(Rebuilt, one), two) /\ events' \in Seq(Event)
    BY <1>1, <1>3, FollowTwo
  <2>2. ApplyReplayEvent(old, MassCancelEvent(ids)) = Removing!Fold(old, ids)
    BY EventsApply
  <2>3. ApplyReplayEvent(gone, BookEvent(later)) = AdvanceTo(gone, later)
    BY EventsApply
  <2> QED
    BY <1>2, <1>4, <2>1, <2>2, <2>3
<1>7. PICK orderId, tradeId, books, index, stops, trades :
        /\ orderId = nextOrderId' /\ tradeId = nextTradeId' /\ books = levels'
        /\ index = orderIndex' /\ stops = stopOrders' /\ trades = recentTrades'
  OBVIOUS
<1>8. BookIs(AdvanceTo(gone, later), orderId, tradeId, later, books, index, stops, trades)
  <2>1. BookIs(gone, orderId, tradeId, now, books, index, stops, trades)
    BY <1>1, <1>5, <1>7 DEF Standing
  <2> QED
    BY <1>2, <1>3, <1>5, <2>1, SequenceAdvanced
<1>9. Standing(Rebuilt, sequence)'
  BY <1>1, <1>2, <1>6, <1>7, <1>8 DEF Standing
<1> QED
  BY <1>1, <1>6, <1>9 DEF FollowOK
\* What a command that ends has recorded are events.
LEMMA EventsToldType ==
  ASSUME PlainInv, Next, EventsTellAll, pc' = "idle"
  PROVE  events' \in Seq(Event)
<1>1. /\ TypeInv /\ sequence \in Nat /\ replaced \in Nat /\ sequence + 1 \in Nat
      /\ taker \in Order /\ fills \in Seq(Trade) /\ cancelled \in Seq(Nat)
      /\ ActiveIds \subseteq Nat /\ cancelling \subseteq ActiveIds
      /\ pc = "match" => events = <<>>
  BY DEF PlainInv, PhaseOK, KindsInv, IndexInv, IndexOK, TypeInv, TypeOK, ControlOK, ActiveIds,
         IsMap
<1>2. ASSUME NEW order \in Order, NEW status \in OrderStatus, NEW list \in Seq(Trade),
             NEW seq \in Nat
      PROVE  AckEvents(Ack(order, status, list), seq) \in Seq(Event)
  <2>1. Ack(order, status, list) \in Acknowledgement
    BY DEF Ack, Acknowledgement
  <2> QED
    BY <1>1, <2>1, AckEventsType
<1>3. <<>> \in Seq(Trade)
  OBVIOUS
<1>4. ASSUME NEW req \in Requests, Submit(req)
      PROVE  events' \in Seq(Event)
  <2>1. PICK status \in OrderStatus : AcceptAs(req, status)
    <3>1. AcceptStop(req) \/ RejectFok(req)
      BY <1>4 DEF Submit, EventsTellAll, BeginExecution
    <3> QED
      BY <3>1 DEF AcceptStop, RejectFok, OrderStatus
  <2>2. Incoming(req) \in Order
    BY <1>1, IncomingType
  <2>3. events' = AckEvents(Ack(Incoming(req), status, <<>>), sequence + 1)
    BY <2>1 DEF AcceptAs, Answer
  <2> QED
    BY <1>1, <1>2, <1>3, <2>2, <2>3
<1>5. ASSUME NEW status \in OrderStatus, NEW list \in Seq(Trade), pc = "match",
             events' = events \o AckEvents(Ack(taker, status, list), sequence)
      PROVE  events' \in Seq(Event)
  <2> DEFINE more == AckEvents(Ack(taker, status, list), sequence)
  <2>1. more \in Seq(Event)
    BY <1>1, <1>2
  <2>2. events' = <<>> \o more
    BY <1>1, <1>5
  <2> HIDE DEF more
  <2> QED
    BY <2>1, <2>2
<1>6. CASE Settle
  <2>1. PICK status : status = SettledStatus(levels, taker, fills # <<>>)
    OBVIOUS
  <2>2. status \in OrderStatus
    BY <2>1, SettledStatusType
  <2>3. pc = "match" /\ events' = events \o AckEvents(Ack(taker, status, fills), sequence)
    BY <1>6, <2>1 DEF Settle
  <2> QED
    BY <1>1, <1>5, <2>2, <2>3
<1>7. CASE RejectPostOnly
  BY <1>3, <1>5, <1>7 DEF RejectPostOnly, OrderStatus
<1>8. CASE \E id \in ActiveIds : Cancel(id) \/ Replace(id) \/ MassCancelOne(id)
  <2>1. PICK id \in ActiveIds : Cancel(id) \/ Replace(id) \/ MassCancelOne(id)
    BY <1>8
  <2>2. Cancel(id) /\ Cancelled(id) # {}
    BY <2>1, CancelFinds DEF Cancel, Replace, MassCancelOne
  <2>3. CancelEvent(id) \in Event /\ BookEvent(sequence + 1) \in Event
    BY <1>1 DEF Event, CancelEvent, BookEvent
  <2>4. events' = <<CancelEvent(id), BookEvent(sequence + 1)>>
    BY <2>2 DEF Cancel, Answer
  <2> QED
    BY <2>3, <2>4
<1>9. CASE MassCancelDone
  <2>1. MassCancelEvent(cancelled) \in Event /\ BookEvent(sequence) \in Event
    BY <1>1 DEF Event, MassCancelEvent, BookEvent
  <2>2. events' = <<MassCancelEvent(cancelled), BookEvent(sequence)>>
    BY <1>9 DEF MassCancelDone, Answer
  <2> QED
    BY <2>1, <2>2
<1>10. CASE FillBest \/ MassCancel \/ ActivateStop \/ SkipStop
  BY <1>10 DEF FillBest, MassCancel, ActivateStop, SkipStop, PlainInv, PhaseOK
<1> QED
  BY <1>1, <1>4, <1>6, <1>7, <1>8, <1>9, <1>10 DEF Next, EngineStep, Command

LEMMA FollowStep ==
  ASSUME RecoveryInv, lineage = "journal", Tells, Next, EventsTellAll
  PROVE  FollowOK'
<1>1. ASSUME NEW req \in Requests, Submit(req)
      PROVE  FollowOK'
  BY <1>1, FollowAtOnce, FollowBegin DEF Submit, EventsTellAll
<1>2. CASE FillBest \/ Settle \/ RejectPostOnly
  BY <1>2, FollowFillBest, FollowSettle, FollowRejectPostOnly
<1>3. ASSUME NEW id \in ActiveIds, Cancel(id) \/ Replace(id) \/ MassCancelOne(id)
      PROVE  FollowOK'
  BY <1>3, FollowCancel, FollowReplace, FollowMassCancelOne
<1>4. CASE MassCancel \/ MassCancelDone
  BY <1>4, FollowMassCancel, FollowMassCancelDone
<1>5. CASE ActivateStop \/ SkipStop
  BY <1>5 DEF ActivateStop, SkipStop, RecoveryInv, PlainInv, PhaseOK
<1>6. cancelling \subseteq ActiveIds
  BY DEF RecoveryInv, PlainInv, KindsInv, IndexInv, TypeInv, ControlOK
<1> QED
  BY <1>1, <1>2, <1>3, <1>4, <1>5, <1>6 DEF Next, EngineStep, Command

LEMMA RecoveryEngine ==
  ASSUME RecoveryInv, EngineMoves, EventsTellAll
  PROVE  RecoveryInv'
<1>1. Next /\ Tells
  BY DEF EngineMoves, Tells
<1>2. PlainInv'
  BY <1>1, PlainStep DEF RecoveryInv
<1>3. CheckpointOK'
  <2>1. /\ journal \in Seq(Event)
        /\ journal' = IF pc' = "idle" THEN journal \o events' ELSE journal
        /\ checkpoint' = checkpoint
    BY <1>1 DEF Tells, RecoveryInv, CheckpointOK
  <2>2. journal' \in Seq(Event) /\ Len(journal') >= Len(journal)
    <3>1. CASE pc' = "idle"
      <4>1. PICK more : more = events'
        OBVIOUS
      <4>2. more \in Seq(Event) /\ journal' = journal \o more
        BY <1>1, <2>1, <3>1, <4>1, EventsToldType DEF RecoveryInv
      <4>3. journal \o more \in Seq(Event) /\ Len(journal \o more) = Len(journal) + Len(more)
        BY <2>1, <4>2, ConcatProperties
      <4>4. Len(journal) \in Nat /\ Len(more) \in Nat
        BY <2>1, <4>2, LenProperties
      <4> QED
        BY <4>2, <4>3, <4>4
    <3>2. CASE pc' # "idle"
      BY <2>1, <3>2
    <3> QED
      BY <3>1, <3>2
  <2>3. checkpoint # <<>> =>
          /\ checkpoint[1].covers \in 0..Len(journal)
          /\ Sound(Restored(checkpoint[1].snapshot))
    BY DEF RecoveryInv, CheckpointOK
  <2>4. PICK at : at = checkpoint
    OBVIOUS
  <2>5. Len(journal) \in Nat /\ Len(journal') \in Nat
    BY <2>1, <2>2
  <2>6. at # <<>> => at[1].covers \in 0..Len(journal')
    BY <2>2, <2>3, <2>4, <2>5
  <2>7. at # <<>> => Sound(Restored(at[1].snapshot))
    BY <2>3, <2>4
  <2> QED
    BY <2>1, <2>2, <2>4, <2>6, <2>7 DEF CheckpointOK
<1>4. FollowOK'
  <2>1. CASE lineage # "journal"
    BY <1>1, <2>1 DEF Tells, FollowOK
  <2>2. CASE lineage = "journal"
    BY <1>1, <2>2, FollowStep
  <2> QED
    BY <2>1, <2>2
<1> QED
  BY <1>2, <1>3, <1>4 DEF RecoveryInv

(***************************************************************************)
(* The operations that capture and load a book.                            *)
(***************************************************************************)

\* The live book stands in for itself.
LEMMA LiveStands ==
  ASSUME PlainInv
  PROVE  Standing(LiveBook, sequence)
<1>1. IsMap(history, Nat, Seq(HistoryEntry))
  BY DEF PlainInv, KindsInv, IndexInv, TypeInv, TypeOK
<1>2. LiveBook = BookOf(nextOrderId, nextTradeId, sequence, levels, orderIndex, stopOrders,
                        history, recentTrades)
  BY DEF LiveBook, BookOf
<1> QED
  BY <1>1, <1>2 DEF Standing, BookIs

LEMMA PlainUnchanged ==
  ASSUME PlainInv, UNCHANGED vars
  PROVE  PlainInv'
<1>1. KindsInv'
  BY KindsStep DEF PlainInv
<1>2. IdsOK' /\ PhaseOK'
  BY DEF PlainInv, IdsOK, PhaseOK, ActiveIds, vars, counterVars, bookVars, controlVars
<1> QED
  BY <1>1, <1>2 DEF PlainInv

\* Nothing has been recorded since the checkpoint: the journal after it is empty.
LEMMA RebuiltAtCheckpoint ==
  ASSUME NEW snapshot, journal \in Seq(Event), journal' = journal,
         checkpoint' = <<[snapshot |-> snapshot, covers |-> Len(journal)]>>
  PROVE  Rebuilt' = Restored(snapshot)
<1>1. /\ checkpoint' # <<>> /\ checkpoint'[1].snapshot = snapshot
      /\ checkpoint'[1].covers = Len(journal)
  OBVIOUS
<1>2. SubSeq(journal, Len(journal) + 1, Len(journal)) = <<>>
  BY LenProperties
<1>3. Rebuilt' = Replayed(Restored(snapshot), <<>>)
  BY <1>1, <1>2 DEF Rebuilt
<1> QED
  BY <1>3, ReplayFolds, Replaying!FoldEmpty

LEMMA RecoveryCheckpoint ==
  ASSUME RecoveryInv, RecordCheckpoint
  PROVE  RecoveryInv'
<1>1. /\ PlainInv /\ journal \in Seq(Event) /\ pc = "idle"
      /\ journal' = journal /\ UNCHANGED vars
      /\ checkpoint' = <<[snapshot |-> Captured, covers |-> Len(journal)]>>
  BY DEF RecordCheckpoint, RecoveryInv, CheckpointOK
<1>2. PlainInv'
  BY <1>1, PlainUnchanged
<1>3. PICK taken, live : taken = Captured /\ live = LiveBook
  OBVIOUS
<1>4. Restored(taken) = live /\ Sound(live) /\ Standing(live, sequence)
  BY <1>1, <1>3, KindsWhole, RestoreWhole, SoundLive, LiveStands DEF PlainInv
<1>5. CheckpointOK'
  <2>1. /\ checkpoint'[1].snapshot = taken /\ checkpoint'[1].covers = Len(journal)
        /\ Len(journal) \in Nat
    BY <1>1, <1>3
  <2> QED
    BY <1>1, <1>4, <2>1 DEF CheckpointOK
<1>6. Rebuilt' = live
  BY <1>1, <1>3, <1>4, RebuiltAtCheckpoint
<1>7. FollowOK'
  <2>1. Standing(Rebuilt, sequence)'
    BY <1>1, <1>4, <1>6 DEF Standing, vars, counterVars, bookVars
  <2>2. pc' = "idle"
    BY <1>1 DEF vars, controlVars
  <2> QED
    BY <2>1, <2>2 DEF FollowOK
<1> QED
  BY <1>2, <1>5, <1>7 DEF RecoveryInv

\* The journal, the checkpoint and what they rebuild stay as they are.
LEMMA CheckpointKept ==
  ASSUME CheckpointOK, journal' = journal, checkpoint' = checkpoint
  PROVE  CheckpointOK'
BY DEF CheckpointOK

LEMMA RecoveryReplay ==
  ASSUME RecoveryInv, lineage = "journal", ReplayFromJournal
  PROVE  RecoveryInv'
<1>1. /\ PlainInv /\ CheckpointOK /\ Load(Rebuilt) /\ pc = "idle"
      /\ journal' = journal /\ checkpoint' = checkpoint /\ lineage' = lineage
  BY DEF ReplayFromJournal, RecoveryInv, Load
<1>2. PICK b : b = Rebuilt
  OBVIOUS
<1>3. Standing(b, sequence) /\ Load(b)
  BY <1>1, <1>2 DEF RecoveryInv, FollowOK
<1>4. PlainInv'
  BY <1>1, <1>3, SoundAgain, LoadKeeps
<1>5. CheckpointOK'
  BY <1>1, CheckpointKept
<1>6. FollowOK'
  <2>1. PICK record :
          /\ IsMap(record, Nat, Seq(HistoryEntry))
          /\ b = BookOf(nextOrderId, nextTradeId, sequence, levels, orderIndex, stopOrders,
                        record, recentTrades)
    BY <1>3 DEF Standing, BookIs
  <2>2. b = BookOf(b.nextOrderId, b.nextTradeId, b.sequence, b.levels, b.orderIndex,
                   b.stopOrders, b.history, b.recentTrades)
        /\ b.history = record
    BY <2>1 DEF BookOf
  <2>3. /\ nextOrderId' = b.nextOrderId /\ nextTradeId' = b.nextTradeId
        /\ sequence' = b.sequence /\ levels' = b.levels /\ orderIndex' = b.orderIndex
        /\ stopOrders' = b.stopOrders /\ recentTrades' = b.recentTrades /\ pc' = "idle"
    BY <1>3 DEF Load, Becomes, controlVars
  <2>4. Rebuilt' = b
    BY <1>1, <1>2, RebuiltStays
  <2>5. Standing(Rebuilt, sequence)'
    BY <2>1, <2>2, <2>3, <2>4 DEF Standing, BookIs
  <2> QED
    BY <2>3, <2>5 DEF FollowOK
<1> QED
  BY <1>4, <1>5, <1>6 DEF RecoveryInv

LEMMA RecoveryRestore ==
  ASSUME RecoveryInv, lineage # "both", RestoreSnapshot
  PROVE  RecoveryInv'
<1>1. /\ PlainInv /\ CheckpointOK /\ checkpoint # <<>> /\ lineage' = "snapshot"
      /\ Load(Restored(checkpoint[1].snapshot))
      /\ journal' = journal /\ checkpoint' = checkpoint
  BY DEF RestoreSnapshot, RecoveryInv
<1>2. PICK b : b = Restored(checkpoint[1].snapshot)
  OBVIOUS
<1>3. Sound(b) /\ Load(b)
  BY <1>1, <1>2 DEF CheckpointOK
<1>4. PlainInv'
  BY <1>1, <1>3, LoadKeeps
<1>5. CheckpointOK'
  BY <1>1, CheckpointKept
<1> QED
  BY <1>1, <1>4, <1>5 DEF RecoveryInv, FollowOK

LEMMA RecoveryBegins == RecoveryInit => RecoveryInv
<1> SUFFICES ASSUME RecoveryInit PROVE RecoveryInv
  OBVIOUS
<1>1. PlainInv
  BY PlainInit DEF RecoveryInit
<1>2. CheckpointOK
  BY DEF RecoveryInit, CheckpointOK
<1>3. Rebuilt = EmptyBook
  <2>1. checkpoint = <<>> /\ SubSeq(journal, 1, Len(journal)) = <<>>
    BY DEF RecoveryInit
  <2>2. Rebuilt = Replayed(EmptyBook, <<>>)
    BY <2>1 DEF Rebuilt
  <2> QED
    BY <2>2, ReplayFolds, Replaying!FoldEmpty
<1>4. EmptyBook = LiveBook /\ pc = "idle"
  BY DEF RecoveryInit, Init, EmptyBook, LiveBook
<1>5. Standing(Rebuilt, sequence)
  BY <1>1, <1>3, <1>4, LiveStands
<1> QED
  BY <1>1, <1>2, <1>4, <1>5 DEF RecoveryInv, FollowOK

\* A book with two pasts has no snapshot and no replay to vouch for, and keeps both for
\* good.
TracedInv == lineage # "both" => RecoveryInv

LEMMA RecoveryStep ==
  TracedInv /\ [RecoveryNext /\ EventsTellAll]_recoveryVars => TracedInv'
<1> SUFFICES ASSUME TracedInv, [RecoveryNext /\ EventsTellAll]_recoveryVars,
                    lineage' # "both"
             PROVE  RecoveryInv'
  BY DEF TracedInv
<1>1. RecoveryInv /\ lineage # "both"
  BY DEF TracedInv, RecoveryNext, EngineMoves, RecordCheckpoint, ReplayFromJournal,
         RestoreSnapshot, recoveryVars
<1>2. CASE EngineMoves /\ EventsTellAll
  BY <1>1, <1>2, RecoveryEngine
<1>3. CASE RecordCheckpoint
  BY <1>1, <1>3, RecoveryCheckpoint
<1>4. CASE ReplayFromJournal
  <2>1. lineage = "journal"
    BY <1>4 DEF ReplayFromJournal
  <2> QED
    BY <1>1, <1>4, <2>1, RecoveryReplay
<1>5. CASE RestoreSnapshot
  BY <1>1, <1>5, RecoveryRestore
<1>6. CASE UNCHANGED recoveryVars
  <2>1. /\ UNCHANGED vars /\ journal' = journal /\ checkpoint' = checkpoint
        /\ lineage' = lineage
    BY <1>6 DEF recoveryVars
  <2>2. PlainInv' /\ CheckpointOK'
    BY <1>1, <2>1, PlainUnchanged, CheckpointKept DEF RecoveryInv
  <2>3. FollowOK'
    BY <1>1, <1>6 DEF RecoveryInv, FollowOK, Standing, Behind, Acked, LikeTaker, Tried, Led,
                Rebuilt, recoveryVars, vars, counterVars, bookVars, controlVars
  <2> QED
    BY <2>2, <2>3 DEF RecoveryInv
<1> QED
  BY <1>2, <1>3, <1>4, <1>5, <1>6 DEF RecoveryNext

\* Whatever the commands, checkpoints, restores and replays, and in whatever order, as
\* long as the engine does nothing its events do not tell: until the book is restored,
\* and again from the next checkpoint on, what replay makes of the latest checkpoint and
\* the journal after it is the engine's book, every order in its place in its queue,
\* every counter and recent trade; and until a journal is replayed that knows nothing
\* of such a restore, a snapshot gives back the book it was taken of, and the
\* containers of a book that was loaded go on agreeing (ARCHITECTURE.md:83,
\* book.rs:338-389, 561-640).
THEOREM ReplayRebuildsBook ==
  RecoverySpec /\ [][EventsTellAll]_recoveryVars
    => [](ReplayRebuilds /\ RestoreIsExact /\ LoadedBookAgrees)
<1>1. TracedInv => ReplayRebuilds
  <2> SUFFICES ASSUME RecoveryInv, pc = "idle", lineage = "journal"
               PROVE  WithoutHistory(Rebuilt) = WithoutHistory(LiveBook)
    BY DEF TracedInv, ReplayRebuilds
  <2>1. Standing(Rebuilt, sequence)
    BY DEF RecoveryInv, FollowOK
  <2>2. PICK record : Rebuilt = BookOf(nextOrderId, nextTradeId, sequence, levels, orderIndex,
                                       stopOrders, record, recentTrades)
    BY <2>1 DEF Standing, BookIs
  <2> QED
    BY <2>2 DEF WithoutHistory, LiveBook, BookOf
<1>2. TracedInv => RestoreIsExact
  BY KindsWhole, RestoreWhole DEF TracedInv, SnapshotExact, RestoreIsExact, RecoveryInv, PlainInv
<1>3. TracedInv => LoadedBookAgrees
  BY IndexImplies DEF TracedInv, LoadedBookAgrees, RecoveryInv, PlainInv, KindsInv
<1>4. RecoverySpec /\ [][EventsTellAll]_recoveryVars => []TracedInv
  BY RecoveryBegins, RecoveryStep, PTL DEF RecoverySpec, TracedInv
<1> QED
  BY <1>1, <1>2, <1>3, <1>4, PTL
==============================================================================
