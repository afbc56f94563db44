---------------------------- MODULE LedgerProofs ----------------------------
(***************************************************************************)
(* The engine as a ledger, for every value of the constants: each of its   *)
(* steps is one of the order ledger or none, trades are between different  *)
(* accounts, within what their orders have left and may spend, and the     *)
(* newest of them are retained.                                            *)
(***************************************************************************)
EXTENDS OrderBookRefinement, ActiveProofs

(***************************************************************************)
(* What a set of orders leaves open.                                       *)
(***************************************************************************)

OpenOf(orders) ==
  [id \in {order.id : order \in orders} |->
     Measure(CHOOSE order \in orders : order.id = id)]

OneEach(orders) == \A one, other \in orders : one.id = other.id => one = other

LEMMA OpenOfHeld == OpenOrders = OpenOf(Held)
BY DEF OpenOrders, OpenOf

LEMMA OpenLookup ==
  ASSUME NEW orders, OneEach(orders), NEW order \in orders
  PROVE  order.id \in DOMAIN OpenOf(orders) /\ OpenOf(orders)[order.id] = Measure(order)
<1>1. (CHOOSE o \in orders : o.id = order.id) = order
  BY DEF OneEach
<1>2. order.id \in {o.id : o \in orders}
  OBVIOUS
<1> QED
  BY <1>1, <1>2 DEF OpenOf

\* Only what is left of one order changes.
LEMMA OpenChange ==
  ASSUME NEW before, OneEach(before), NEW after, OneEach(after), NEW id, NEW left,
         \A order \in before : order.id # id => order \in after,
         \A order \in after : order.id # id => order \in before,
         IF left = 0 THEN \A order \in after : order.id # id
                     ELSE \E order \in after : order.id = id /\ Measure(order) = left
  PROVE  OpenOf(after) = Ledger!Leaving(OpenOf(before), id, left)
<1> DEFINE result == Ledger!Leaving(OpenOf(before), id, left)
<1>1. DOMAIN OpenOf(after) = {order.id : order \in after}
      /\ DOMAIN OpenOf(before) = {order.id : order \in before}
  BY DEF OpenOf
<1>2. DOMAIN result = IF left = 0 THEN DOMAIN OpenOf(before) \ {id}
                      ELSE DOMAIN OpenOf(before) \cup {id}
  BY DEF Ledger!Leaving
<1>3. DOMAIN OpenOf(after) = DOMAIN result
  BY <1>1, <1>2
<1>4. ASSUME NEW x \in DOMAIN OpenOf(after) PROVE OpenOf(after)[x] = result[x]
  <2>1. PICK order \in after : order.id = x
    BY <1>1
  <2>2. OpenOf(after)[x] = Measure(order)
    BY <2>1, OpenLookup
  <2>3. CASE x # id
    <3>1. order \in before
      BY <2>1, <2>3
    <3>2. OpenOf(before)[x] = Measure(order) /\ x \in DOMAIN OpenOf(before)
      BY <2>1, <3>1, OpenLookup
    <3>3. result[x] = OpenOf(before)[x]
      BY <2>3, <3>2 DEF Ledger!Leaving
    <3> QED
      BY <2>2, <3>2, <3>3
  <2>4. CASE x = id
    <3>1. left # 0
      BY <2>1, <2>4
    <3>2. PICK same \in after : same.id = id /\ Measure(same) = left
      BY <3>1
    <3>3. same = order
      BY <2>1, <2>4, <3>2 DEF OneEach
    <3>4. result[x] = left
      BY <2>4, <3>1 DEF Ledger!Leaving
    <3> QED
      BY <2>2, <3>2, <3>3, <3>4
  <2> QED
    BY <2>3, <2>4
<1>5. OpenOf(after) = [x \in DOMAIN OpenOf(after) |-> OpenOf(after)[x]]
  BY DEF OpenOf
<1>6. result = [x \in DOMAIN result |-> result[x]]
  BY DEF Ledger!Leaving
<1> HIDE DEF result
<1>7. OpenOf(after) = result
  BY <1>3, <1>4, <1>5, <1>6
<1> QED
  BY <1>7 DEF result

\* The records may differ in what the ledger does not see.
LEMMA OpenSame ==
  ASSUME NEW before, OneEach(before), NEW after, OneEach(after),
         \A order \in before : \E other \in after :
           other.id = order.id /\ Measure(other) = Measure(order),
         \A order \in after : \E other \in before :
           other.id = order.id /\ Measure(other) = Measure(order)
  PROVE  OpenOf(after) = OpenOf(before)
<1>1. DOMAIN OpenOf(after) = {order.id : order \in after}
      /\ DOMAIN OpenOf(before) = {order.id : order \in before}
  BY DEF OpenOf
<1>2. DOMAIN OpenOf(after) = DOMAIN OpenOf(before)
  BY <1>1
<1>3. ASSUME NEW x \in DOMAIN OpenOf(after) PROVE OpenOf(after)[x] = OpenOf(before)[x]
  <2>1. PICK order \in after : order.id = x
    BY <1>1
  <2>2. PICK other \in before : other.id = order.id /\ Measure(other) = Measure(order)
    OBVIOUS
  <2>3. OpenOf(after)[x] = Measure(order) /\ OpenOf(before)[x] = Measure(other)
    BY <2>1, <2>2, OpenLookup
  <2> QED
    BY <2>2, <2>3
<1>4. OpenOf(after) = [x \in DOMAIN OpenOf(after) |-> OpenOf(after)[x]]
      /\ OpenOf(before) = [x \in DOMAIN OpenOf(before) |-> OpenOf(before)[x]]
  BY DEF OpenOf
<1> QED
  BY <1>2, <1>3, <1>4

(***************************************************************************)
(* The inductive invariant: what the ledger knows of an order is what the  *)
(* engine knows of it.                                                     *)
(***************************************************************************)

LedgerOK ==
  /\ nextOrderId > 0
  /\ pc = "replace" => nextOrderId <= MaxOrders
  /\ \A id \in DOMAIN submitted : id < nextOrderId
  /\ \A order \in ActiveOrders :
       /\ order.remaining > 0
       /\ Unit(order.kind) = "base"
       /\ order.id \in DOMAIN submitted
       /\ Unit(submitted[order.id].kind) = "base"
  /\ pc = "match" => /\ taker.id \in DOMAIN submitted
                     /\ Unit(taker.kind) = Unit(submitted[taker.id].kind)

LedgerInv == IndexInv /\ LedgerOK

\* What is executing, if anything is left of it.
Unfilled == IF pc = "match" /\ ~IsFilled(taker) THEN {taker} ELSE {}

\* The orders held are of one record for each id, and the executing one is not active.
HeldOK ==
  /\ OneEach(Held)
  /\ Held = ActiveOrders \cup Unfilled
  /\ pc = "match" => \A order \in ActiveOrders : order.id # taker.id

LEMMA HeldUnique == LedgerInv => HeldOK
<1> SUFFICES ASSUME LedgerInv PROVE HeldOK
  OBVIOUS
<1>1. ActiveOK /\ IndexInv
  BY ActiveUnique DEF LedgerInv
<1>2. Held = ActiveOrders \cup Unfilled
  BY DEF Held, ActiveOrders, Unfilled
<1>3. pc = "match" => \A order \in ActiveOrders : order.id # taker.id
  <2> HAVE pc = "match"
  <2>1. taker.id \notin ActiveIds
    BY <1>1 DEF IndexInv, IndexOK, StopsApart, ActiveIds
  <2> QED
    BY <1>1, <2>1 DEF ActiveOK
<1>4. OneEach(Held)
  BY <1>1, <1>2, <1>3 DEF ActiveOK, OneEach, Unfilled
<1> QED
  BY <1>2, <1>3, <1>4 DEF HeldOK

LEMMA MeasureOfUnit ==
  ASSUME NEW order \in Order
  PROVE  /\ Measure(order) \in Nat
         /\ Measure(order) = 0 <=> IsFilled(order)
         /\ Unit(order.kind) = "base" <=> order.kind # "market_by_notional"
         /\ Unit(order.kind) = "base" => Measure(order) = order.remaining
BY DEF Order, Measure, IsFilled, Unit

LEMMA LedgerStart == Init => LedgerInv /\ Ledger!LedgerInit
<1> SUFFICES ASSUME Init PROVE LedgerInv /\ Ledger!LedgerInit
  OBVIOUS
<1>1. ActiveOrders = {} /\ Held = {}
  BY DEF Init, ActiveOrders, Held, Resting, RestingOn, StopsOf, EmptyLevels, Side
<1>2. OpenOrders = <<>>
  <2>1. DOMAIN OpenOrders = {} /\ OpenOrders = [x \in DOMAIN OpenOrders |-> OpenOrders[x]]
    BY <1>1 DEF OpenOrders
  <2> QED
    BY <2>1
<1>3. Ledger!LedgerInit
  BY <1>2 DEF Init, Ledger!LedgerInit
<1>4. LedgerInv
  BY <1>1, IndexInit DEF Init, LedgerInv, LedgerOK
<1> QED
  BY <1>3, <1>4

(***************************************************************************)
(* Submissions enter an order.                                             *)
(***************************************************************************)

\* The order a submission adds to the ledger.
LEMMA LedgerEnter ==
  ASSUME LedgerInv, NEW req \in Requests, Create(req), pc \in {"idle", "replace"},
         nextOrderId <= MaxOrders, tape' = tape,
         \/ OpenOrders' = OpenOrders
         \/ OpenOrders' = Ledger!Leaving(OpenOrders, nextOrderId, Measure(Incoming(req)))
  PROVE  Ledger!LedgerNext
<1>1. /\ TypeInv /\ nextOrderId \in 1..MaxOrders /\ nextOrderId \notin DOMAIN submitted
      /\ Incoming(req) \in Order
  <2>1. TypeInv /\ nextOrderId \in Nat /\ MaxOrders \in Nat
    BY MaxOrdersAssumption DEF LedgerInv, IndexInv, TypeInv, TypeOK
  <2> QED
    BY <2>1, IncomingType DEF LedgerInv, LedgerOK
<1> DEFINE size == SizeOf(Incoming(req))
           sizes == {SizeOf(MakeOrder(0, r, 0)) : r \in Requests}
<1>2. size = SizeOf(MakeOrder(0, req, 0))
  BY DEF SizeOf, Incoming, MakeOrder
<1>3. size \in sizes
  BY <1>2
<1>4. size.amount = Measure(Incoming(req))
  BY DEF SizeOf, Measure, Incoming, MakeOrder
<1>5. submitted' = Put(submitted, nextOrderId, Incoming(req))
  BY DEF Create
<1>6. /\ DOMAIN submitted' = DOMAIN submitted \cup {nextOrderId}
      /\ \A id \in DOMAIN submitted' :
           submitted'[id] = IF id = nextOrderId THEN Incoming(req) ELSE submitted[id]
  BY <1>5 DEF Put
<1> HIDE DEF size, sizes
<1>7. Ledger!Enter(nextOrderId, size)
  <2>1. [id \in DOMAIN submitted' |-> SizeOf(submitted'[id])]
          = Ledger!Entered(nextOrderId, size)
    BY <1>6 DEF Ledger!Entered, size
  <2> QED
    BY <1>1, <1>4, <2>1 DEF Ledger!Enter
<1> QED
  BY <1>1, <1>3, <1>7 DEF Ledger!LedgerNext, sizes

\* A step that enters no order and keeps the active ones, or what is left of them.
LEMMA LedgerKeeps ==
  ASSUME LedgerInv, IndexInv', submitted' = submitted, nextOrderId' = nextOrderId,
         pc' = "replace" => nextOrderId <= MaxOrders,
         \A order \in ActiveOrders' :
           \/ order \in ActiveOrders
           \/ /\ order.remaining > 0 /\ Unit(order.kind) = "base"
              /\ order.id \in DOMAIN submitted
              /\ Unit(submitted[order.id].kind) = "base",
         pc' = "match" => /\ taker'.id \in DOMAIN submitted
                          /\ Unit(taker'.kind) = Unit(submitted[taker'.id].kind)
  PROVE  LedgerInv'
BY DEF LedgerInv, LedgerOK, Unit

LEMMA LedgerSubmitInv ==
  ASSUME LedgerInv, NEW req \in Requests, Submit(req)
  PROVE  LedgerInv' /\ Create(req) /\ nextOrderId <= MaxOrders
<1>1. /\ IndexInv /\ IndexInv' /\ TypeInv /\ nextOrderId \in Nat
      /\ nextOrderId \notin DOMAIN submitted
  <2>1. IndexInv /\ IndexInv' /\ TypeInv /\ nextOrderId \in Nat
    BY IndexSubmit DEF LedgerInv, IndexInv, TypeInv, TypeOK
  <2> QED
    BY <2>1 DEF LedgerInv, LedgerOK
<1>2. Incoming(req) \in Order /\ Incoming(req).id = nextOrderId /\ Incoming(req).kind = req.kind
  BY <1>1, IncomingType
<1>3. Create(req) /\ nextOrderId <= MaxOrders /\ pc \in {"idle", "replace"}
  BY DEF Submit, RejectInvalid, AcceptStop, RejectFok, BeginExecution, LedgerInv, LedgerOK
<1>4. /\ DOMAIN submitted' = DOMAIN submitted \cup {nextOrderId}
      /\ \A id \in DOMAIN submitted : submitted'[id] = submitted[id]
      /\ submitted'[nextOrderId] = Incoming(req)
      /\ nextOrderId' = nextOrderId + 1
  BY <1>1, <1>3 DEF Create, Put
<1>5. /\ nextOrderId' > 0
      /\ \A id \in DOMAIN submitted' : id < nextOrderId'
  <2>1. \A id \in DOMAIN submitted : id \in Nat /\ id < nextOrderId
    BY <1>1 DEF TypeInv, TypeOK, IsMap, LedgerInv, LedgerOK
  <2> QED
    BY <1>1, <1>4, <2>1
<1>6. pc' # "replace"
  BY DEF Submit, RejectInvalid, AcceptStop, RejectFok, BeginExecution, AcceptAs, Answer
<1>7. pc' = "match" => /\ taker'.id \in DOMAIN submitted'
                       /\ Unit(taker'.kind) = Unit(submitted'[taker'.id].kind)
  BY <1>2, <1>4
     DEF Submit, RejectInvalid, AcceptStop, RejectFok, BeginExecution, AcceptAs, Answer
<1>8. \A order \in ActiveOrders' :
        \/ order \in ActiveOrders
        \/ /\ order = Incoming(req) /\ order.remaining > 0 /\ Unit(order.kind) = "base"
  <2>1. CASE AcceptStop(req)
    <3>1. ActiveOrders' = ActiveOrders \cup {Incoming(req)}
      BY <1>1, <2>1, ActiveAcceptStop
    <3>2. Unit(req.kind) = "base" /\ req.quantity > 0
      BY <2>1 DEF AcceptStop, IsStopOrder, Unit, Admitted, Validates, ValidBase
    <3>3. Incoming(req).remaining = req.quantity
      BY DEF Incoming, MakeOrder
    <3> QED
      BY <1>2, <3>1, <3>2, <3>3
  <2>2. CASE RejectInvalid(req) \/ RejectFok(req) \/ BeginExecution(req)
    BY <2>2, ActiveStill DEF RejectInvalid, RejectFok, BeginExecution
  <2> QED
    BY <2>1, <2>2 DEF Submit
<1>9. \A order \in ActiveOrders' :
        /\ order.remaining > 0
        /\ Unit(order.kind) = "base"
        /\ order.id \in DOMAIN submitted'
        /\ Unit(submitted'[order.id].kind) = "base"
  BY <1>2, <1>4, <1>8 DEF LedgerInv, LedgerOK
<1> QED
  BY <1>1, <1>3, <1>5, <1>6, <1>7, <1>9 DEF LedgerInv, LedgerOK

\* A step of the ledger, or none.
LedgerStep == Ledger!LedgerNext \/ UNCHANGED Ledger!ledgerVars

LEMMA LedgerStutters ==
  ASSUME submitted' = submitted, tape' = tape, OpenOrders' = OpenOrders
  PROVE  LedgerStep
BY DEF LedgerStep, Ledger!ledgerVars

LEMMA LedgerSubmit ==
  ASSUME LedgerInv, NEW req \in Requests, Submit(req)
  PROVE  LedgerInv' /\ LedgerStep
<1>1. LedgerInv' /\ Create(req) /\ nextOrderId <= MaxOrders
  BY LedgerSubmitInv
<1>2. pc \in {"idle", "replace"} /\ tape' = tape /\ IndexInv /\ TypeInv
  BY DEF Submit, RejectInvalid, AcceptStop, RejectFok, BeginExecution, LedgerInv, IndexInv
<1>3. Incoming(req) \in Order /\ Incoming(req).id = nextOrderId
  BY <1>2, IncomingType
<1>4. HeldOK
  BY HeldUnique
<1>5. HeldOK'
  BY <1>1, HeldUnique, PTL
<1>6. Held = ActiveOrders
  BY <1>2, <1>4 DEF HeldOK, Unfilled
<1>7. CASE RejectInvalid(req) \/ RejectFok(req)
  <2>1. ActiveOrders' = ActiveOrders /\ pc' = "idle"
    BY <1>7, ActiveStill DEF RejectInvalid, RejectFok, AcceptAs, Answer
  <2>2. Held' = Held
    BY <1>5, <1>6, <2>1 DEF HeldOK, Unfilled
  <2>3. OpenOrders' = OpenOrders
    BY <2>2 DEF OpenOrders
  <2> QED
    BY <1>1, <1>2, <2>3, LedgerEnter DEF LedgerStep
<1>8. CASE AcceptStop(req) \/ BeginExecution(req)
  <2>1. Admitted(req)
    BY <1>8 DEF AcceptStop, BeginExecution
  <2>2. Measure(Incoming(req)) # 0 /\ ~IsFilled(Incoming(req))
    <3>1. IF req.kind = "market_by_notional" THEN req.quote > 0 ELSE req.quantity > 0
      BY <2>1 DEF Admitted, Validates, ValidBase, ValidNotional
    <3>2. req.quote \in Nat /\ req.quantity \in Nat
      BY RequestsAssumption DEF NewOrder
    <3> QED
      BY <3>1, <3>2 DEF Measure, IsFilled, Incoming, MakeOrder
  <2>3. Held' = Held \cup {Incoming(req)}
    <3>1. CASE AcceptStop(req)
      <4>1. ActiveOrders' = ActiveOrders \cup {Incoming(req)} /\ pc' = "idle"
        BY <1>2, <3>1, ActiveAcceptStop DEF AcceptStop, AcceptAs, Answer
      <4> QED
        BY <1>5, <1>6, <4>1 DEF HeldOK, Unfilled
    <3>2. CASE BeginExecution(req)
      <4>1. ActiveOrders' = ActiveOrders /\ pc' = "match" /\ taker' = Incoming(req)
        BY <3>2, ActiveStill DEF BeginExecution
      <4> QED
        BY <1>5, <1>6, <2>2, <4>1 DEF HeldOK, Unfilled
    <3> QED
      BY <1>8, <3>1, <3>2
  <2>4. OneEach(Held) /\ OneEach(Held')
    BY <1>4, <1>5 DEF HeldOK, OneEach
  <2>5. OpenOf(Held') = Ledger!Leaving(OpenOf(Held), nextOrderId, Measure(Incoming(req)))
    <3>1. \A order \in Held' : order.id # nextOrderId => order \in Held
      BY <1>3, <2>3
    <3>2. \E order \in Held' :
            order.id = nextOrderId /\ Measure(order) = Measure(Incoming(req))
      BY <1>3, <2>3
    <3> QED
      BY <2>2, <2>3, <2>4, <3>1, <3>2, OpenChange
  <2>6. OpenOrders' = Ledger!Leaving(OpenOrders, nextOrderId, Measure(Incoming(req)))
    BY <2>5 DEF OpenOrders, OpenOf
  <2> QED
    BY <1>1, <1>2, <2>6, LedgerEnter DEF LedgerStep
<1> QED
  BY <1>7, <1>8 DEF Submit

(***************************************************************************)
(* Trades match two open orders.                                           *)
(***************************************************************************)

\* What the next trade takes from the taker.
NextCost == IF taker.kind = "market_by_notional" THEN BestPrice * NextAmount ELSE NextAmount

LEMMA LedgerFillBestInv ==
  ASSUME LedgerInv, FillBest
  PROVE  LedgerInv'
<1>1. IndexInv /\ IndexInv' /\ TypeInv /\ pc = "match" /\ pc' = "match" /\ CanTrade
  BY IndexFillBest DEF LedgerInv, IndexInv, FillBest
<1>2. BestMaker \in Order /\ taker \in Order /\ NextAmount \in Nat /\ NextAmount <= BestMaker.remaining
  BY <1>1, NextTradeType DEF TypeInv, TypeOK
<1>3. /\ BestMaker \in ActiveOrders
      /\ ActiveOrders' =
           (ActiveOrders \ {BestMaker}) \cup
             (IF BestMaker.remaining = NextAmount THEN {}
              ELSE {[BestMaker EXCEPT !.remaining = BestMaker.remaining - NextAmount]})
  BY <1>1, ActiveFillBest
<1> DEFINE maker == [BestMaker EXCEPT !.remaining = BestMaker.remaining - NextAmount]
<1>4. /\ maker.id = BestMaker.id /\ maker.kind = BestMaker.kind
      /\ BestMaker.remaining # NextAmount => maker.remaining > 0
  BY <1>2 DEF Order
<1> HIDE DEF maker
<1>5. /\ Unit(BestMaker.kind) = "base" /\ BestMaker.id \in DOMAIN submitted
      /\ Unit(submitted[BestMaker.id].kind) = "base"
  BY <1>3 DEF LedgerInv, LedgerOK
<1>6. \A order \in ActiveOrders' :
        \/ order \in ActiveOrders
        \/ /\ order.remaining > 0 /\ Unit(order.kind) = "base"
           /\ order.id \in DOMAIN submitted
           /\ Unit(submitted[order.id].kind) = "base"
  BY <1>3, <1>4, <1>5 DEF maker
<1>7. taker'.id = taker.id /\ taker'.kind = taker.kind
  BY <1>2 DEF FillBest, ReduceTaker, Order
<1>8. submitted' = submitted /\ nextOrderId' = nextOrderId
  BY DEF FillBest
<1>9. /\ taker'.id \in DOMAIN submitted
      /\ Unit(taker'.kind) = Unit(submitted[taker'.id].kind)
  BY <1>1, <1>7 DEF LedgerInv, LedgerOK
<1> QED
  BY <1>1, <1>6, <1>8, <1>9, LedgerKeeps

LEMMA LedgerFillBest ==
  ASSUME LedgerInv, FillBest
  PROVE  LedgerInv' /\ LedgerStep
<1>1. /\ LedgerInv' /\ IndexInv /\ TypeInv /\ pc = "match" /\ pc' = "match" /\ CanTrade
      /\ submitted' = submitted /\ tape' = Append(tape, NextTrade)
  BY LedgerFillBestInv DEF LedgerInv, IndexInv, FillBest
<1>2. /\ BestMaker \in Order /\ taker \in Order /\ BestPrice \in Price
      /\ NextAmount \in Nat \ {0} /\ NextAmount <= BestMaker.remaining
      /\ taker' = ReduceTaker(taker, BestPrice, NextAmount)
      /\ BestMaker.remaining \in Nat
  <2>1. BestMaker \in Order /\ taker \in Order /\ BestPrice \in Price
        /\ NextAmount \in Nat /\ NextAmount <= BestMaker.remaining
    BY <1>1, NextTradeType DEF TypeInv, TypeOK
  <2> QED
    BY <1>1, <2>1 DEF FillBest, CanTrade, Order
<1>3. HeldOK
  BY HeldUnique
<1>4. HeldOK'
  BY <1>1, HeldUnique, PTL
<1>5. taker \in Held /\ BestMaker \in Held /\ BestMaker \in ActiveOrders
      /\ BestMaker.id # taker.id
      /\ ~IsFilled(taker)
  <2>1. BestMaker \in ActiveOrders
    BY <1>1, ActiveFillBest
  <2>2. ~IsFilled(taker)
    <3>1. HasInterest(taker)
      BY <1>1 DEF CanTrade
    <3>2. taker.quote \in Nat /\ taker.remaining \in Nat
      BY <1>2 DEF Order
    <3> QED
      BY <3>1, <3>2 DEF HasInterest, IsFilled
  <2> QED
    BY <1>1, <1>3, <2>1, <2>2 DEF HeldOK, Unfilled
<1>6. /\ Unit(BestMaker.kind) = "base" /\ Measure(BestMaker) = BestMaker.remaining
      /\ Unit(submitted[BestMaker.id].kind) = "base" /\ BestMaker.id \in DOMAIN submitted
      /\ taker.id \in DOMAIN submitted /\ Unit(taker.kind) = Unit(submitted[taker.id].kind)
  <2>1. /\ Unit(BestMaker.kind) = "base" /\ BestMaker.id \in DOMAIN submitted
        /\ Unit(submitted[BestMaker.id].kind) = "base"
        /\ taker.id \in DOMAIN submitted /\ Unit(taker.kind) = Unit(submitted[taker.id].kind)
    BY <1>1, <1>5 DEF LedgerInv, LedgerOK
  <2> QED
    BY <1>2, <2>1, MeasureOfUnit
<1>7. /\ NextCost \in Nat \ {0} /\ NextCost <= Measure(taker)
      /\ Measure(taker) \in Nat /\ Measure(taker') = Measure(taker) - NextCost
      /\ taker' \in Order /\ taker'.id = taker.id /\ taker'.kind = taker.kind
      /\ taker.kind # "market_by_notional" => NextCost = NextAmount
  <2>1. /\ BestPrice \in Nat \ {0} /\ BestPrice * NextAmount \in Nat
        /\ BestPrice * NextAmount # 0
    <3>1. BestPrice \in Nat \ {0}
      BY <1>2, ConfigAssumption DEF Price
    <3>2. \A m, n \in Nat \ {0} : m * n \in Nat /\ m * n # 0
      OBVIOUS
    <3> QED
      BY <1>2, <3>1, <3>2
  <2>2. IF taker.kind = "market_by_notional"
          THEN BestPrice * NextAmount <= taker.quote
          ELSE NextAmount <= taker.remaining
    BY <1>2, TradeQuantityBounds DEF NextAmount
  <2>3. taker' \in Order
    BY <1>1 DEF LedgerInv, IndexInv, TypeInv, TypeOK
  <2>4. CASE taker.kind = "market_by_notional"
    <3>1. taker' = [taker EXCEPT !.quote = @ - BestPrice * NextAmount]
      BY <1>2, <2>4 DEF ReduceTaker
    <3> QED
      BY <1>2, <2>1, <2>2, <2>3, <2>4, <3>1 DEF NextCost, Measure, Order
  <2>5. CASE taker.kind # "market_by_notional"
    <3>1. taker' = [taker EXCEPT !.remaining = @ - NextAmount]
      BY <1>2, <2>5 DEF ReduceTaker
    <3> QED
      BY <1>2, <2>2, <2>3, <2>5, <3>1 DEF NextCost, Measure, Order
  <2> QED
    BY <2>4, <2>5
<1> DEFINE left == BestMaker.remaining - NextAmount
           maker == [BestMaker EXCEPT !.remaining = left]
           between == (Held \ {BestMaker}) \cup (IF left = 0 THEN {} ELSE {maker})
<1>8. /\ maker.id = BestMaker.id /\ Measure(maker) = left
      /\ left \in Nat /\ (left = 0 <=> BestMaker.remaining = NextAmount)
  BY <1>2, <1>6, MeasureOfUnit DEF Order, Measure, Unit
<1>9. ActiveOrders' = (ActiveOrders \ {BestMaker}) \cup (IF left = 0 THEN {} ELSE {maker})
  BY <1>1, <1>2, ActiveFillBest
<1> HIDE DEF left, maker
<1>10. between = ActiveOrders' \cup {taker}
  BY <1>1, <1>3, <1>5, <1>9 DEF HeldOK, Unfilled
<1>11. Held' = ActiveOrders' \cup (IF IsFilled(taker') THEN {} ELSE {taker'})
  BY <1>1, <1>4 DEF HeldOK, Unfilled
<1>12. OneEach(Held) /\ OneEach(Held') /\ OneEach(between)
  <2>1. OneEach(Held) /\ OneEach(Held')
    BY <1>3, <1>4 DEF HeldOK, OneEach
  <2>2. \A order \in ActiveOrders' : order.id # taker.id
    BY <1>1, <1>4, <1>7 DEF HeldOK
  <2>3. \A one, other \in ActiveOrders' : one.id = other.id => one = other
    BY <1>11, <2>1 DEF OneEach
  <2> QED
    BY <1>10, <2>1, <2>2, <2>3 DEF OneEach
<1>13. OpenOf(between) = Ledger!Leaving(OpenOf(Held), BestMaker.id, left)
  <2>1. \A order \in Held : order.id # BestMaker.id => order \in between
    OBVIOUS
  <2>2. \A order \in between : order.id # BestMaker.id => order \in Held
    BY <1>8
  <2>3. \A order \in Held \ {BestMaker} : order.id # BestMaker.id
    BY <1>5, <1>12 DEF OneEach
  <2>4. IF left = 0 THEN \A order \in between : order.id # BestMaker.id
        ELSE \E order \in between : order.id = BestMaker.id /\ Measure(order) = left
    BY <1>8, <2>3
  <2> QED
    BY <1>12, <2>1, <2>2, <2>4, OpenChange
<1> HIDE DEF between
<1>14. OpenOf(Held') = Ledger!Leaving(OpenOf(between), taker.id, Measure(taker) - NextCost)
  <2>0. \A order \in ActiveOrders' : order.id # taker.id
    BY <1>1, <1>4, <1>7 DEF HeldOK
  <2>1. \A order \in between : order.id # taker.id => order \in Held'
    BY <1>10, <1>11
  <2>2. \A order \in Held' : order.id # taker.id => order \in between
    BY <1>7, <1>10, <1>11
  <2>3. Measure(taker') = 0 <=> IsFilled(taker')
    BY <1>7, MeasureOfUnit
  <2>4. IF Measure(taker) - NextCost = 0 THEN \A order \in Held' : order.id # taker.id
        ELSE \E order \in Held' :
               order.id = taker.id /\ Measure(order) = Measure(taker) - NextCost
    BY <1>7, <1>11, <2>0, <2>3
  <2> QED
    BY <1>12, <2>1, <2>2, <2>4, OpenChange
<1>15. /\ BestMaker.id \in DOMAIN OpenOf(Held) /\ OpenOf(Held)[BestMaker.id] = BestMaker.remaining
       /\ taker.id \in DOMAIN OpenOf(Held) /\ OpenOf(Held)[taker.id] = Measure(taker)
  BY <1>5, <1>6, <1>12, OpenLookup
<1>16. OpenOf(Held) = OpenOrders /\ OpenOf(Held') = OpenOrders'
  BY DEF OpenOrders, OpenOf
<1> DEFINE matchesOf(trades) == [i \in DOMAIN trades |->
                                  [maker |-> trades[i].maker, taker |-> trades[i].taker,
                                   quantity |-> trades[i].quantity]]
<1>17. matchesOf(tape') = Append(matchesOf(tape),
                                 [maker |-> BestMaker.id, taker |-> taker.id,
                                  quantity |-> NextAmount])
  <2>1. tape \in Seq(Trade) /\ NextTrade \in Trade
    BY <1>1, NextTradeType DEF TypeInv, TypeOK
  <2>2. /\ NextTrade.maker = BestMaker.id /\ NextTrade.taker = taker.id
        /\ NextTrade.quantity = NextAmount
    BY DEF NextTrade
  <2> QED
    BY <1>1, <2>1, <2>2
<1>18. /\ BestMaker.id \in DOMAIN OpenOrders /\ taker.id \in DOMAIN OpenOrders
       /\ NextAmount \in 1..OpenOrders[BestMaker.id]
       /\ NextCost \in 1..OpenOrders[taker.id]
  BY <1>2, <1>7, <1>15, <1>16
<1>19. PICK m, t, quantity, cost : m = BestMaker.id /\ t = taker.id
                                     /\ quantity = NextAmount /\ cost = NextCost
  OBVIOUS
<1>20. Ledger!Match(m, t, quantity, cost)
  <2>1. OpenOrders' = Ledger!Leaving(Ledger!Leaving(OpenOrders, m, OpenOrders[m] - quantity),
                                     t, OpenOrders[t] - cost)
    BY <1>13, <1>14, <1>15, <1>16, <1>19 DEF left
  <2>2. SizeOf(submitted[m]).unit = "base"
        /\ (SizeOf(submitted[t]).unit = "base" => cost = quantity)
    BY <1>6, <1>7, <1>19 DEF SizeOf, Unit
  <2> QED
    BY <1>1, <1>5, <1>6, <1>17, <1>18, <1>19, <2>1, <2>2 DEF Ledger!Match
<1>21. Ledger!LedgerNext
  BY <1>18, <1>19, <1>20 DEF Ledger!LedgerNext
<1> QED
  BY <1>1, <1>21 DEF LedgerStep

(***************************************************************************)
(* The end of an order closes it; the rest does not show.                  *)
(***************************************************************************)

\* A step after which one held order is held no more.
LEMMA LedgerCloses ==
  ASSUME LedgerInv, LedgerInv', submitted' = submitted, tape' = tape,
         NEW order \in Held, Held' = Held \ {order}
  PROVE  LedgerStep
<1>1. HeldOK
  BY HeldUnique
<1>2. HeldOK'
  BY HeldUnique, PTL
<1>3. OneEach(Held) /\ OneEach(Held')
  BY <1>1, <1>2 DEF HeldOK, OneEach
<1>4. OpenOf(Held') = Ledger!Leaving(OpenOf(Held), order.id, 0)
  <2>1. \A other \in Held' : other.id # order.id
    BY <1>3 DEF OneEach
  <2> QED
    BY <1>3, <2>1, OpenChange
<1>5. OpenOf(Held) = OpenOrders /\ OpenOf(Held') = OpenOrders'
  BY DEF OpenOrders, OpenOf
<1>6. order.id \in DOMAIN OpenOrders
  BY <1>3, <1>5, OpenLookup
<1>7. Ledger!Close(order.id)
  BY <1>4, <1>5 DEF Ledger!Close
<1> QED
  BY <1>6, <1>7 DEF LedgerStep, Ledger!LedgerNext

LEMMA LedgerSettle ==
  ASSUME LedgerInv, Settle \/ RejectPostOnly
  PROVE  LedgerInv' /\ LedgerStep
<1>1. /\ IndexInv /\ IndexInv' /\ TypeInv /\ pc = "match" /\ pc' \in {"idle", "trigger"}
      /\ submitted' = submitted /\ tape' = tape /\ nextOrderId' = nextOrderId
      /\ taker \in Order
  BY IndexSettle, IndexOthers
     DEF LedgerInv, IndexInv, TypeInv, TypeOK, Settle, RejectPostOnly, ghostVars, counterVars
<1>2. HeldOK
  BY HeldUnique
<1>3. \/ ActiveOrders' = ActiveOrders /\ (Rests(levels, taker) => RejectPostOnly)
      \/ ActiveOrders' = ActiveOrders \cup {taker} /\ Rests(levels, taker)
  BY <1>1, ActiveSettle, ActiveStill DEF RejectPostOnly
<1>4. Rests(levels, taker) =>
        /\ taker.remaining > 0 /\ Unit(taker.kind) = "base"
        /\ taker.id \in DOMAIN submitted
        /\ Unit(submitted[taker.id].kind) = "base"
  <2> HAVE Rests(levels, taker)
  <2>1. taker.kind # "market_by_notional" /\ taker.remaining > 0
    BY <1>1 DEF Rests, Discards, IsFilled, Order
  <2> QED
    BY <1>1, <2>1 DEF LedgerInv, LedgerOK, Unit
<1>5. LedgerInv'
  BY <1>1, <1>3, <1>4, LedgerKeeps
<1>6. HeldOK'
  BY <1>5, HeldUnique, PTL
<1>7. Held' = ActiveOrders'
  BY <1>1, <1>6 DEF HeldOK, Unfilled
<1>8. Held' = Held \/ (taker \in Held /\ Held' = Held \ {taker})
  <2>1. CASE IsFilled(taker)
    <3>1. ~Rests(levels, taker) /\ Held = ActiveOrders
      BY <1>2, <2>1 DEF Rests, HeldOK, Unfilled
    <3> QED
      BY <1>3, <1>7, <3>1
  <2>2. CASE ~IsFilled(taker)
    <3>1. Held = ActiveOrders \cup {taker} /\ taker \notin ActiveOrders
      BY <1>1, <1>2, <2>2 DEF HeldOK, Unfilled
    <3> QED
      BY <1>3, <1>7, <3>1
  <2> QED
    BY <2>1, <2>2
<1>9. CASE Held' = Held
  <2>1. OpenOrders' = OpenOrders
    BY <1>9 DEF OpenOrders
  <2> QED
    BY <1>1, <1>5, <2>1, LedgerStutters
<1>10. CASE taker \in Held /\ Held' = Held \ {taker}
  BY <1>1, <1>5, <1>10, LedgerCloses
<1> QED
  BY <1>8, <1>9, <1>10

\* A triggered stop order is the same order, with the same quantity, executing.
LEMMA LedgerActivateStop ==
  ASSUME LedgerInv, ActivateStop
  PROVE  LedgerInv' /\ LedgerStep
<1>1. /\ IndexInv /\ IndexInv' /\ TypeInv /\ pc = "trigger" /\ pc' = "match"
      /\ NextTriggered \in DOMAIN stopOrders
      /\ taker' = Activated(stopOrders[NextTriggered])
      /\ submitted' = submitted /\ tape' = tape /\ nextOrderId' = nextOrderId
  BY IndexActivateStop DEF LedgerInv, IndexInv, ActivateStop, ghostVars, counterVars
<1> DEFINE stop == stopOrders[NextTriggered]
<1>2. stop \in ActiveOrders /\ ActiveOrders' = ActiveOrders \ {stop}
  BY <1>1, ActiveActivateStop
<1>3. /\ stop \in Order /\ IsStopOrder(stop.kind)
  BY <1>1 DEF TypeInv, TypeOK, IsMap, ControlOK
<1>4. /\ taker'.id = stop.id /\ taker'.remaining = stop.remaining
      /\ taker'.kind \in {"limit", "market"} /\ taker' \in Order
  <2>1. taker' \in Order
    BY <1>1 DEF IndexInv, TypeInv, TypeOK
  <2> QED
    BY <1>1, <1>3, <2>1 DEF Activated, Order, IsStopOrder
<1> HIDE DEF stop
<1>5. /\ stop.remaining > 0 /\ Unit(stop.kind) = "base" /\ stop.id \in DOMAIN submitted
      /\ Unit(submitted[stop.id].kind) = "base"
  BY <1>2 DEF LedgerInv, LedgerOK
<1>6. LedgerInv'
  BY <1>1, <1>2, <1>4, <1>5, LedgerKeeps DEF Unit
<1>7. HeldOK
  BY HeldUnique
<1>8. HeldOK'
  BY <1>6, HeldUnique, PTL
<1>9. Measure(taker') = Measure(stop) /\ ~IsFilled(taker')
  BY <1>3, <1>4, <1>5 DEF Measure, IsFilled, IsStopOrder, Order
<1>10. Held = ActiveOrders /\ Held' = (ActiveOrders \ {stop}) \cup {taker'}
  BY <1>1, <1>2, <1>7, <1>8, <1>9 DEF HeldOK, Unfilled
<1>11. OneEach(Held) /\ OneEach(Held')
  BY <1>7, <1>8 DEF HeldOK, OneEach
<1>12. OpenOf(Held') = OpenOf(Held)
  BY <1>2, <1>4, <1>9, <1>10, <1>11, OpenSame
<1>13. OpenOrders' = OpenOrders
  BY <1>12 DEF OpenOrders, OpenOf
<1> QED
  BY <1>1, <1>6, <1>13, LedgerStutters

LEMMA LedgerCommands ==
  ASSUME LedgerInv,
         \/ \E id \in ActiveIds : Cancel(id)
         \/ \E id \in ActiveIds : Replace(id)
         \/ \E id \in cancelling : MassCancelOne(id)
  PROVE  LedgerInv' /\ LedgerStep
<1>1. /\ IndexInv /\ IndexInv' /\ cancelling \subseteq ActiveIds
  BY IndexCommands DEF LedgerInv, IndexInv, TypeInv, ControlOK
<1>2. /\ submitted' = submitted /\ tape' = tape /\ nextOrderId' = nextOrderId
      /\ pc # "match" /\ pc' # "match" /\ (pc' = "replace" => nextOrderId <= MaxOrders)
      /\ \E id \in ActiveIds : CancelOrder(id)
  BY <1>1 DEF Cancel, Replace, MassCancelOne, Answer, ghostVars, counterVars
<1>3. PICK order \in ActiveOrders : ActiveOrders' = ActiveOrders \ {order}
  BY <1>1, <1>2, ActiveCancelOrder
<1>4. LedgerInv'
  BY <1>1, <1>2, <1>3, LedgerKeeps
<1>5. HeldOK
  BY HeldUnique
<1>6. HeldOK'
  BY <1>4, HeldUnique, PTL
<1>7. Held = ActiveOrders /\ Held' = ActiveOrders'
  BY <1>2, <1>5, <1>6 DEF HeldOK, Unfilled
<1> QED
  BY <1>2, <1>3, <1>4, <1>7, LedgerCloses

LEMMA LedgerOthers ==
  ASSUME LedgerInv, SkipStop \/ MassCancel \/ MassCancelDone \/ UNCHANGED vars
  PROVE  LedgerInv' /\ LedgerStep
<1>1. /\ IndexInv' /\ UNCHANGED bookVars
      /\ submitted' = submitted /\ tape' = tape /\ nextOrderId' = nextOrderId
      /\ pc = "match" \/ pc' = "match" => pc' = pc /\ taker' = taker
      /\ pc' = "replace" => pc = "replace"
  BY IndexOthers
     DEF LedgerInv, SkipStop, MassCancel, MassCancelDone, Answer, vars, ghostVars, counterVars,
         controlVars
<1>2. ActiveOrders' = ActiveOrders
  BY <1>1, ActiveStill
<1>3. LedgerInv'
  BY <1>1, <1>2, LedgerKeeps DEF LedgerInv, LedgerOK
<1>4. HeldOK
  BY HeldUnique
<1>5. HeldOK'
  BY <1>3, HeldUnique, PTL
<1>6. Held' = Held
  BY <1>1, <1>2, <1>4, <1>5 DEF HeldOK, Unfilled
<1>7. OpenOrders' = OpenOrders
  BY <1>6 DEF OpenOrders
<1> QED
  BY <1>1, <1>3, <1>7, LedgerStutters

LEMMA LedgerNextStep == LedgerInv /\ [Next]_vars => LedgerInv' /\ LedgerStep
<1> SUFFICES ASSUME LedgerInv, [Next]_vars PROVE LedgerInv' /\ LedgerStep
  OBVIOUS
<1>1. CASE EngineStep
  BY <1>1, LedgerSubmit, LedgerFillBest, LedgerSettle, LedgerActivateStop, LedgerCommands,
     LedgerOthers DEF EngineStep
<1>2. CASE Command
  BY <1>2, LedgerSubmit, LedgerCommands, LedgerOthers DEF Command
<1>3. CASE UNCHANGED vars
  BY <1>3, LedgerOthers
<1> QED
  BY <1>1, <1>2, <1>3 DEF Next

\* The engine implements the ledger for every configuration, set of requests and number
\* of orders: an order is entered once, trades only while it is open and never more than
\* is left of it or of its budget, and a closed order never comes back
\* (book.rs:103-283, 458-496, 606-640; matching.rs:63-162).
THEOREM EngineImplementsLedger == Spec => ImplementsLedger
<1>1. LedgerInv /\ [Next]_vars => LedgerInv'
  BY LedgerNextStep
<1>2. LedgerInv /\ [Next]_vars => [Ledger!LedgerNext]_(Ledger!ledgerVars)
  BY LedgerNextStep DEF LedgerStep
<1>3. Spec => Ledger!LedgerInit /\ [][Ledger!LedgerNext]_(Ledger!ledgerVars)
  BY <1>1, <1>2, LedgerStart, PTL DEF Spec
<1> QED
  BY <1>3 DEF ImplementsLedger, Ledger!LedgerSpec

(***************************************************************************)
(* Self-trade prevention is exact: an account never trades with itself,    *)
(* however many orders, stop activations, cancels and replacements come    *)
(* between.  The matcher compares the account of the queued copy of an     *)
(* order with the account of the executing one, so what has to be carried  *)
(* along is that every copy -- queued, dormant, activated, partly filled   *)
(* -- still bears the account its id was submitted under.                  *)
(***************************************************************************)

\* The orders, in whatever state, that bear the account of their submission.
Known == {order \in Order : /\ order.id \in DOMAIN submitted
                            /\ submitted[order.id].account = order.account}

QueuesIn(book, orders) ==
  \A side \in Side : \A price \in DOMAIN book[side] :
    \A i \in DOMAIN book[side][price] : book[side][price][i] \in orders

ApartTrade(trade) ==
  /\ trade.maker \in DOMAIN submitted
  /\ trade.taker \in DOMAIN submitted
  /\ submitted[trade.maker].account = submitted[trade.taker].account
       => submitted[trade.maker].account = NoAccount

\* What NoSelfTrade needs to be inductive; ids are handed out once.
AccountsOK ==
  /\ \A id \in DOMAIN submitted : id < nextOrderId
  /\ QueuesIn(levels, Known)
  /\ \A id \in DOMAIN stopOrders : stopOrders[id] \in Known
  /\ pc = "match" => taker \in Known
  /\ \A i \in DOMAIN tape : ApartTrade(tape[i])

AccountInv == TypeInv /\ AccountsOK

(***************************************************************************)
(* Levels whose orders all belong to a set.                                *)
(***************************************************************************)

LEMMA SetQueueIn ==
  ASSUME NEW orders, NEW book, IsLevels(book), QueuesIn(book, orders),
         NEW side \in Side, NEW price, NEW queue,
         \A i \in DOMAIN queue : queue[i] \in orders
  PROVE  QueuesIn(SetQueue(book, side, price, queue), orders)
<1> DEFINE after == SetQueue(book, side, price, queue)
<1>1. DOMAIN book = Side
  BY DEF IsLevels
<1> SUFFICES ASSUME NEW s \in Side, NEW p \in DOMAIN after[s], NEW i \in DOMAIN after[s][p]
             PROVE  after[s][p][i] \in orders
  BY DEF QueuesIn
<1>2. CASE s # side
  BY <1>1, <1>2 DEF SetQueue, QueuesIn
<1>3. CASE s = side
  <2>1. after[s] = IF queue = <<>>
                     THEN Restrict(book[s], DOMAIN book[s] \ {price})
                     ELSE [x \in DOMAIN book[s] \cup {price} |->
                             IF x = price THEN queue ELSE book[s][x]]
    BY <1>1, <1>3 DEF SetQueue
  <2>2. CASE p = price
    BY <2>1, <2>2 DEF Restrict
  <2>3. CASE p # price
    BY <2>1, <2>3 DEF Restrict, QueuesIn
  <2> QED
    BY <2>2, <2>3
<1> QED
  BY <1>2, <1>3

LEMMA PushIn ==
  ASSUME NEW orders, NEW book, IsLevels(book), QueuesIn(book, orders),
         NEW order \in Order, order \in orders
  PROVE  QueuesIn(Push(book, order), orders)
<1> DEFINE queue == Queue(book, order.side, order.price)
<1>1. order.side \in Side
  BY DEF Order
<1>2. queue \in Seq(Order)
  BY <1>1, QueueType
<1>3. \A i \in DOMAIN queue : queue[i] \in orders
  BY <1>1 DEF Queue, QueuesIn
<1>4. \A i \in DOMAIN Append(queue, order) : Append(queue, order)[i] \in orders
  BY <1>2, <1>3, AppendProperties, LenProperties
<1> QED
  BY <1>1, <1>4, SetQueueIn DEF Push

\* Removing one element leaves elements of the queue.
LEMMA RemoveAtIn ==
  ASSUME NEW orders, NEW queue \in Seq(Order), NEW i \in 1..Len(queue),
         \A k \in DOMAIN queue : queue[k] \in orders
  PROVE  \A k \in DOMAIN RemoveAt(queue, i) : RemoveAt(queue, i)[k] \in orders
<1>1. Len(queue) \in Nat /\ DOMAIN queue = 1..Len(queue)
  BY LenProperties
<1>2. DOMAIN RemoveAt(queue, i) = 1..(Len(queue) - 1)
  BY RemoveAtProperties, LenProperties
<1> TAKE k \in DOMAIN RemoveAt(queue, i)
<1>3. RemoveAt(queue, i)[k] = IF k < i THEN queue[k] ELSE queue[k + 1]
  BY <1>2, RemoveAtProperties
<1>4. k \in 1..Len(queue) /\ k + 1 \in 1..Len(queue)
  BY <1>1, <1>2
<1> QED
  BY <1>1, <1>3, <1>4

LEMMA RemoveFromLevelIn ==
  ASSUME NEW orders, NEW book, IsLevels(book), QueuesIn(book, orders),
         NEW side \in Side, NEW price, NEW id
  PROVE  QueuesIn(RemoveFromLevel(book, side, price, id), orders)
<1> DEFINE queue == Queue(book, side, price)
           i == PositionOf(queue, id)
<1>1. queue \in Seq(Order)
  BY QueueType
<1>2. \A k \in DOMAIN queue : queue[k] \in orders
  BY DEF Queue, QueuesIn
<1>3. i = 0 \/ i \in 1..Len(queue)
  BY <1>1, PositionOfFound
<1> HIDE DEF queue
<1>4. CASE i = 0
  BY <1>4 DEF RemoveFromLevel, queue
<1>5. CASE i # 0
  <2>1. \A k \in DOMAIN RemoveAt(queue, i) : RemoveAt(queue, i)[k] \in orders
    BY <1>1, <1>2, <1>3, <1>5, RemoveAtIn
  <2>2. QueuesIn(SetQueue(book, side, price, RemoveAt(queue, i)), orders)
    BY <2>1, SetQueueIn
  <2> QED
    BY <1>5, <2>2 DEF RemoveFromLevel, queue
<1> QED
  BY <1>4, <1>5

\* A fill changes what is left of an order and nothing else of it.
LEMMA DepleteIn ==
  ASSUME NEW orders, NEW book, IsLevels(book), QueuesIn(book, orders),
         \A order \in orders : \A n \in Nat : [order EXCEPT !.remaining = n] \in orders,
         NEW side \in Side, NEW price \in DOMAIN book[side],
         NEW i \in DOMAIN book[side][price],
         NEW quantity \in Nat, quantity <= book[side][price][i].remaining
  PROVE  QueuesIn(Deplete(book, side, price, i, quantity), orders)
<1> DEFINE queue == book[side][price]
           left == queue[i].remaining - quantity
           reduced == [queue EXCEPT ![i].remaining = left]
           after == IF left = 0 THEN RemoveAt(queue, i) ELSE reduced
<1>1. queue \in Seq(Order)
  BY DEF IsLevels, IsMap
<1>2. i \in 1..Len(queue) /\ queue[i] \in Order
  BY <1>1, LenProperties, ElementOfSeq
<1>3. left \in Nat
  BY <1>2 DEF Order
<1>4. \A k \in DOMAIN queue : queue[k] \in orders
  BY DEF QueuesIn
<1> HIDE DEF queue, left
<1>5. \A k \in DOMAIN reduced : reduced[k] \in orders
  <2> TAKE k \in DOMAIN reduced
  <2>1. k \in DOMAIN queue
    OBVIOUS
  <2>2. CASE k = i
    <3>1. reduced[k] = [queue[i] EXCEPT !.remaining = left]
      BY <2>1, <2>2
    <3> QED
      BY <3>1, <2>1, <2>2, <1>3, <1>4
  <2>3. CASE k # i
    BY <2>1, <2>3, <1>4
  <2> QED
    BY <2>2, <2>3
<1>6. \A k \in DOMAIN RemoveAt(queue, i) : RemoveAt(queue, i)[k] \in orders
  BY <1>1, <1>2, <1>4, RemoveAtIn
<1> HIDE DEF reduced
<1>7. \A k \in DOMAIN after : after[k] \in orders
  BY <1>5, <1>6
<1> HIDE DEF after
<1>8. QueuesIn(SetQueue(book, side, price, after), orders)
  BY <1>7, SetQueueIn
<1> QED
  BY <1>8 DEF Deplete, after, reduced, queue, left

(***************************************************************************)
(* The steps.                                                              *)
(***************************************************************************)

LEMMA AccountInit == Init => AccountInv
BY TypeInit DEF Init, AccountInv, AccountsOK, QueuesIn, EmptyLevels

\* A step that creates no order and makes no trade only has to keep known orders
\* in the levels, among the stop orders and in execution.
LEMMA AccountStill ==
  ASSUME AccountInv, TypeInv',
         submitted' = submitted, nextOrderId' = nextOrderId, tape' = tape,
         QueuesIn(levels', Known),
         \A id \in DOMAIN stopOrders' : stopOrders'[id] \in Known,
         pc' = "match" => taker' \in Known
  PROVE  AccountInv'
<1>1. Known' = Known
  BY DEF Known
<1>2. \A i \in DOMAIN tape : ApartTrade(tape[i])'
  BY DEF AccountInv, AccountsOK, ApartTrade
<1> QED
  BY <1>1, <1>2 DEF AccountInv, AccountsOK

\* The id of a new order is new, so no other order's account changes.
LEMMA CreateKnown ==
  ASSUME AccountInv, NEW req \in Requests, Create(req)
  PROVE  /\ Known \subseteq Known'
         /\ Incoming(req) \in Known'
         /\ \A id \in DOMAIN submitted' : id < nextOrderId'
         /\ DOMAIN submitted \subseteq DOMAIN submitted'
         /\ \A id \in DOMAIN submitted : submitted'[id] = submitted[id]
<1>1. nextOrderId \in Nat /\ DOMAIN submitted \subseteq Nat
  BY DEF AccountInv, TypeInv, TypeOK, IsMap
<1>2. nextOrderId \notin DOMAIN submitted
  BY <1>1 DEF AccountInv, AccountsOK
<1>3. /\ submitted' = Put(submitted, nextOrderId, Incoming(req))
      /\ nextOrderId' = nextOrderId + 1
  BY DEF Create
<1>4. /\ DOMAIN submitted' = DOMAIN submitted \cup {nextOrderId}
      /\ submitted'[nextOrderId] = Incoming(req)
      /\ \A id \in DOMAIN submitted : submitted'[id] = submitted[id]
  BY <1>2, <1>3 DEF Put
<1>5. Incoming(req) \in Order /\ Incoming(req).id = nextOrderId
  BY IncomingType DEF AccountInv
<1>6. Known \subseteq Known' /\ Incoming(req) \in Known'
  BY <1>4, <1>5 DEF Known
<1>7. \A id \in DOMAIN submitted' : id < nextOrderId'
  BY <1>1, <1>3, <1>4 DEF AccountInv, AccountsOK
<1> QED
  BY <1>4, <1>6, <1>7

LEMMA AccountSubmit ==
  ASSUME AccountInv, NEW req \in Requests, Submit(req)
  PROVE  AccountInv'
<1>1. /\ Create(req)
      /\ tape' = tape
      /\ levels' = levels
      /\ \/ stopOrders' = stopOrders
         \/ stopOrders' = Put(stopOrders, nextOrderId, Incoming(req))
      /\ pc' = "match" => taker' = Incoming(req)
  BY DEF Submit, RejectInvalid, AcceptStop, RejectFok, BeginExecution, AcceptAs,
         Answer, bookVars
<1>2. TypeInv'
  BY TypeSubmit DEF AccountInv
<1>3. /\ Known \subseteq Known' /\ Incoming(req) \in Known'
      /\ \A id \in DOMAIN submitted' : id < nextOrderId'
      /\ DOMAIN submitted \subseteq DOMAIN submitted'
      /\ \A id \in DOMAIN submitted : submitted'[id] = submitted[id]
  BY <1>1, CreateKnown
<1>4. QueuesIn(levels', Known')
  BY <1>1, <1>3 DEF AccountInv, AccountsOK, QueuesIn
<1>5. \A id \in DOMAIN stopOrders' : stopOrders'[id] \in Known'
  BY <1>1, <1>3 DEF AccountInv, AccountsOK, Put
<1>6. \A i \in DOMAIN tape' : ApartTrade(tape[i])'
  BY <1>1, <1>3 DEF AccountInv, AccountsOK, ApartTrade
<1> QED
  BY <1>1, <1>2, <1>3, <1>4, <1>5, <1>6 DEF AccountInv, AccountsOK
LEMMA AccountRejectPostOnly ==
  ASSUME AccountInv, RejectPostOnly
  PROVE  AccountInv'
<1>1. TypeInv'
  BY TypeRejectPostOnly DEF AccountInv
<1> QED
  BY <1>1, AccountStill
     DEF AccountInv, AccountsOK, RejectPostOnly, counterVars, bookVars, ghostVars

\* The maker found by FillBest may trade with the taker, whose account every copy
\* of either order still bears.
LEMMA AccountFillBest ==
  ASSUME AccountInv, FillBest
  PROVE  AccountInv'
<1>1. pc = "match" /\ CanTrade /\ TypeInv
  BY DEF FillBest, AccountInv
<1>2. TypeInv'
  BY TypeFillBest DEF AccountInv, FillBest
<1>3. /\ submitted' = submitted /\ nextOrderId' = nextOrderId
      /\ stopOrders' = stopOrders /\ pc' = "match"
      /\ tape' = Append(tape, NextTrade)
  BY <1>1 DEF FillBest
<1>4. Known' = Known
  BY <1>3 DEF Known
<1>5. /\ MakerSide \in Side
      /\ BestPrice \in DOMAIN levels[MakerSide]
      /\ BestPlace \in DOMAIN levels[MakerSide][BestPrice]
      /\ BestMaker \in Order
      /\ NextAmount \in Nat /\ NextAmount <= BestMaker.remaining
      /\ NextTrade \in Trade
  BY <1>1, NextTradeType
<1>6. taker \in Known /\ BestMaker \in Known /\ IsLevels(levels)
  BY <1>1, <1>5 DEF AccountInv, AccountsOK, QueuesIn, BestMaker, TypeInv, TypeOK
<1>7. QueuesIn(levels', Known)
  <2>1. \A order \in Known : \A n \in Nat : [order EXCEPT !.remaining = n] \in Known
    BY DEF Known, Order
  <2>2. levels' = Deplete(levels, MakerSide, BestPrice, BestPlace, NextAmount)
    BY DEF FillBest
  <2> QED
    BY <1>5, <1>6, <2>1, <2>2, DepleteIn DEF AccountInv, AccountsOK, BestMaker
<1>8. taker' \in Known
  <2>1. taker' = ReduceTaker(taker, BestPrice, NextAmount)
    BY DEF FillBest
  <2>2. taker' \in Order
    BY <1>2 DEF TypeInv, TypeOK
  <2>3. taker'.id = taker.id /\ taker'.account = taker.account
    BY <1>6, <2>1 DEF ReduceTaker, Known, Order
  <2> QED
    BY <1>6, <2>2, <2>3 DEF Known
<1>9. Matchable(BestMaker, taker.account)
  <2>1. taker \in Order /\ levels[MakerSide][BestPrice] \in Seq(Order)
    BY <1>1, <1>5, <1>6 DEF TypeInv, TypeOK, IsLevels, IsMap
  <2>2. BestPrice \in MatchablePrices(levels, taker)
    BY <1>1, <1>6, <2>1, BestMatchableExists DEF CanTrade, BestPrice
  <2>3. HasMatchable(levels[MakerSide][BestPrice], taker.account)
    BY <2>2 DEF MatchablePrices, MakerSide
  <2> QED
    BY <2>1, <2>3, FirstMatchableExists DEF BestMaker, BestPlace
<1>10. ApartTrade(NextTrade)
  BY <1>6, <1>9 DEF ApartTrade, NextTrade, Known, Matchable
<1>11. \A i \in DOMAIN tape' : ApartTrade(tape'[i])
  <2>1. tape \in Seq(Trade)
    BY <1>1 DEF TypeInv, TypeOK
  <2> QED
    BY <1>3, <1>5, <1>10, <2>1, AppendProperties, LenProperties DEF AccountInv, AccountsOK
<1>12. \A i \in DOMAIN tape' : ApartTrade(tape[i])'
  BY <1>3, <1>11 DEF ApartTrade
<1> QED
  BY <1>2, <1>3, <1>4, <1>7, <1>8, <1>12 DEF AccountInv, AccountsOK

LEMMA AccountSettle ==
  ASSUME AccountInv, Settle
  PROVE  AccountInv'
<1>1. TypeInv' /\ TypeInv /\ pc = "match" /\ pc' # "match"
  BY TypeSettle DEF AccountInv, Settle
<1>2. taker \in Order /\ taker \in Known /\ IsLevels(levels) /\ QueuesIn(levels, Known)
  BY <1>1 DEF AccountInv, AccountsOK, TypeInv, TypeOK
<1>3. QueuesIn(levels', Known)
  BY <1>2, PushIn DEF Settle
<1> QED
  BY <1>1, <1>3, AccountStill
     DEF AccountInv, AccountsOK, Settle, counterVars, ghostVars

\* Activation changes an order's kind only.
LEMMA AccountActivateStop ==
  ASSUME AccountInv, ActivateStop
  PROVE  AccountInv'
<1>1. TypeInv' /\ NextTriggered \in DOMAIN stopOrders
  BY TypeActivateStop DEF AccountInv, ActivateStop
<1>2. stopOrders[NextTriggered] \in Known
  BY <1>1 DEF AccountInv, AccountsOK
<1>3. taker' \in Known
  <2>1. taker' \in Order
    BY <1>1 DEF TypeInv, TypeOK
  <2>2. /\ taker'.id = stopOrders[NextTriggered].id
        /\ taker'.account = stopOrders[NextTriggered].account
    BY <1>2 DEF ActivateStop, Activated, Known, Order
  <2> QED
    BY <1>2, <2>1, <2>2 DEF Known
<1>4. \A id \in DOMAIN stopOrders' : stopOrders'[id] \in Known
  BY DEF ActivateStop, Without, Restrict, AccountInv, AccountsOK
<1> QED
  BY <1>1, <1>3, <1>4, AccountStill
     DEF AccountInv, AccountsOK, ActivateStop, counterVars, ghostVars

LEMMA AccountSkipStop ==
  ASSUME AccountInv, SkipStop
  PROVE  AccountInv'
<1>1. TypeInv' /\ pc' # "match"
  BY TypeSkipStop DEF AccountInv, SkipStop
<1> QED
  BY <1>1, AccountStill
     DEF AccountInv, AccountsOK, SkipStop, counterVars, bookVars, ghostVars

LEMMA AccountCancelOrder ==
  ASSUME AccountInv, NEW id \in ActiveIds, CancelOrder(id)
  PROVE  /\ QueuesIn(levels', Known)
         /\ \A other \in DOMAIN stopOrders' : stopOrders'[other] \in Known
<1>1. IsLevels(levels) /\ IsMap(orderIndex, Nat, Location) /\ QueuesIn(levels, Known)
  BY DEF AccountInv, AccountsOK, TypeInv, TypeOK
<1>2. QueuesIn(levels', Known)
  <2>1. CASE id \in DOMAIN orderIndex
    <3>1. orderIndex[id].side \in Side
      BY <1>1, <2>1 DEF IsMap, Location
    <3> QED
      BY <1>1, <2>1, <3>1, RemoveFromLevelIn DEF CancelOrder
  <2>2. CASE id \notin DOMAIN orderIndex
    BY <1>1, <2>2 DEF CancelOrder
  <2> QED
    BY <2>1, <2>2
<1>3. \A other \in DOMAIN stopOrders' : stopOrders'[other] \in Known
  BY TypeCancelOrder DEF AccountInv, AccountsOK
<1> QED
  BY <1>2, <1>3

LEMMA AccountCommands ==
  ASSUME AccountInv,
         \/ \E id \in ActiveIds : Cancel(id)
         \/ \E id \in ActiveIds : Replace(id)
         \/ \E id \in cancelling : MassCancelOne(id)
  PROVE  AccountInv'
<1>1. CASE \E id \in ActiveIds : Cancel(id)
  BY <1>1, TypeCancel, AccountCancelOrder, AccountStill
     DEF AccountInv, Cancel, Answer, counterVars, ghostVars
<1>2. CASE \E id \in ActiveIds : Replace(id)
  BY <1>2, TypeReplace, AccountCancelOrder, AccountStill
     DEF AccountInv, Replace, counterVars, ghostVars
<1>3. CASE \E id \in cancelling : MassCancelOne(id)
  <2>1. cancelling \subseteq ActiveIds
    BY DEF AccountInv, TypeInv, ControlOK
  <2> QED
    BY <1>3, <2>1, TypeMassCancelOne, AccountCancelOrder, AccountStill
       DEF AccountInv, MassCancelOne, counterVars, ghostVars
<1> QED
  BY <1>1, <1>2, <1>3

LEMMA AccountMassCancel ==
  ASSUME AccountInv, MassCancel \/ MassCancelDone
  PROVE  AccountInv'
<1>1. TypeInv' /\ pc' # "match"
  BY TypeMassCancel, TypeMassCancelDone DEF AccountInv, MassCancel, MassCancelDone, Answer
<1> QED
  BY <1>1, AccountStill
     DEF AccountInv, AccountsOK, MassCancel, MassCancelDone, Answer, counterVars,
         bookVars, ghostVars

LEMMA AccountStep == AccountInv /\ [Next]_vars => AccountInv'
<1> SUFFICES ASSUME AccountInv, [Next]_vars PROVE AccountInv'
  OBVIOUS
<1>1. CASE EngineStep
  BY <1>1, AccountSubmit, AccountRejectPostOnly, AccountFillBest, AccountSettle,
     AccountActivateStop, AccountSkipStop, AccountCommands, AccountMassCancel
     DEF EngineStep
<1>2. CASE Command
  BY <1>2, AccountSubmit, AccountCommands, AccountMassCancel DEF Command
<1>3. CASE UNCHANGED vars
  <2>1. TypeInv'
    BY <1>3, TypeStep DEF AccountInv
  <2> QED
    BY <1>3, <2>1, AccountStill
       DEF AccountInv, AccountsOK, vars, counterVars, bookVars, controlVars, ghostVars
<1> QED
  BY <1>1, <1>2, <1>3 DEF Next

\* No account ever trades with itself: not through an order it activates, replaces
\* or has queued behind others', in any book and any number of commands
\* (price_level.rs:15-25).
THEOREM NeverTradesWithItself == Spec => []NoSelfTrade
<1>1. Spec => []AccountInv
  BY AccountInit, AccountStep, PTL DEF Spec
<1>2. AccountInv => NoSelfTrade
  BY DEF AccountInv, AccountsOK, ApartTrade, NoSelfTrade, ToSet
<1> QED
  BY <1>1, <1>2, PTL

(***************************************************************************)
(* Sums over a sequence.                                                   *)
(***************************************************************************)

Plus(a, b) == a + b

KeepsNat(base, acc) == base \in Nat => acc \in Nat

Adding == INSTANCE FoldProofs WITH Op <- Plus, Rel <- KeepsNat

LEMMA TotalFolds ==
  ASSUME NEW amounts
  PROVE  Total(amounts) = Adding!Fold(0, amounts)
BY DEF Total, FoldLeft, MapThenFoldSet, Max,
       Adding!Fold, Adding!Recursion, Adding!Greatest, Plus

LEMMA TotalEmpty == Total(<<>>) = 0
BY TotalFolds, Adding!FoldEmpty

LEMMA TotalAppend ==
  ASSUME NEW amounts \in Seq(Nat), NEW amount \in Nat
  PROVE  /\ Total(amounts) \in Nat
         /\ Total(Append(amounts, amount)) = Total(amounts) + amount
<1>1. Adding!Fold(0, Append(amounts, amount)) = Plus(Adding!Fold(0, amounts), amount)
  BY Adding!FoldAppend
<1>2. KeepsNat(0, Adding!Fold(0, amounts))
  <2>1. \A i \in DOMAIN amounts : amounts[i] \in Nat
    BY ElementOfSeq, LenProperties
  <2>2. KeepsNat(0, 0)
    BY DEF KeepsNat
  <2>3. \A acc : \A i \in DOMAIN amounts :
          KeepsNat(0, acc) => KeepsNat(0, Plus(acc, amounts[i]))
    BY <2>1 DEF KeepsNat, Plus
  <2> QED
    BY <2>2, <2>3, Adding!FoldKeeps
<1> QED
  BY <1>1, <1>2, TotalFolds DEF KeepsNat, Plus

(***************************************************************************)
(* Quantities and budgets.                                                 *)
(***************************************************************************)

\* What a trade adds to the sums of its two orders.
Sums(id) == Filled(id) \in Nat /\ Spent(id) \in Nat

LEMMA SumsOfTrade ==
  ASSUME tape \in Seq(Trade), NEW trade \in Trade, tape' = Append(tape, trade), NEW id
  PROVE  /\ Sums(id)
         /\ Filled(id)' = Filled(id) + (IF id \in {trade.maker, trade.taker}
                                          THEN trade.quantity ELSE 0)
         /\ Spent(id)' = Spent(id) + (IF id = trade.taker
                                        THEN trade.price * trade.quantity ELSE 0)
<1> DEFINE filled(t) == IF id \in {t.maker, t.taker} THEN t.quantity ELSE 0
           spent(t) == IF id = t.taker THEN t.price * t.quantity ELSE 0
           fills0 == [i \in DOMAIN tape |-> filled(tape[i])]
           spends0 == [i \in DOMAIN tape |-> spent(tape[i])]
<1>1. \A t \in Trade : filled(t) \in Nat /\ spent(t) \in Nat
  <2> TAKE t \in Trade
  <2>1. t.price \in Nat /\ t.quantity \in Nat /\ t.price * t.quantity \in Nat
    BY DEF Trade
  <2> QED
    BY <2>1
<1> HIDE DEF filled, spent
<1>2. /\ DOMAIN tape = 1..Len(tape) /\ Len(tape) \in Nat
      /\ \A i \in 1..Len(tape) : tape[i] \in Trade
  BY LenProperties, ElementOfSeq
<1>3. fills0 \in Seq(Nat) /\ spends0 \in Seq(Nat)
  BY <1>1, <1>2
<1>4. /\ [i \in DOMAIN tape' |-> filled(tape'[i])] = Append(fills0, filled(trade))
      /\ [i \in DOMAIN tape' |-> spent(tape'[i])] = Append(spends0, spent(trade))
  BY <1>2
<1>5. /\ Filled(id) = Total(fills0) /\ Spent(id) = Total(spends0)
      /\ Filled(id)' = Total([i \in DOMAIN tape' |-> filled(tape'[i])])
      /\ Spent(id)' = Total([i \in DOMAIN tape' |-> spent(tape'[i])])
  BY DEF Filled, Spent, filled, spent
<1> HIDE DEF fills0, spends0
<1>6. /\ Total(fills0) \in Nat /\ Total(spends0) \in Nat
      /\ Total(Append(fills0, filled(trade))) = Total(fills0) + filled(trade)
      /\ Total(Append(spends0, spent(trade))) = Total(spends0) + spent(trade)
  BY <1>1, <1>3, TotalAppend
<1> QED
  BY <1>4, <1>5, <1>6 DEF filled, spent, Sums

LEMMA SumsType ==
  ASSUME tape \in Seq(Trade), NEW id
  PROVE  Sums(id)
<1>1. /\ DOMAIN tape = 1..Len(tape) /\ Len(tape) \in Nat
      /\ \A i \in 1..Len(tape) : tape[i] \in Trade
  BY LenProperties, ElementOfSeq
<1>2. \A i \in 1..Len(tape) :
        tape[i].quantity \in Nat /\ tape[i].price * tape[i].quantity \in Nat
  <2> TAKE i \in 1..Len(tape)
  <2>1. tape[i].price \in Nat /\ tape[i].quantity \in Nat
    BY <1>1 DEF Trade
  <2> QED
    BY <2>1
<1> DEFINE fills0 == [i \in DOMAIN tape |->
                        IF id \in {tape[i].maker, tape[i].taker} THEN tape[i].quantity ELSE 0]
           spends0 == [i \in DOMAIN tape |->
                         IF id = tape[i].taker THEN tape[i].price * tape[i].quantity ELSE 0]
<1>3. fills0 \in Seq(Nat) /\ spends0 \in Seq(Nat)
  BY <1>1, <1>2
<1>4. Filled(id) = Total(fills0) /\ Spent(id) = Total(spends0)
  BY DEF Filled, Spent
<1> HIDE DEF fills0, spends0
<1> QED
  BY <1>3, <1>4, TotalAppend DEF Sums

\* What QuantityConserved and NotionalWithinBudget need to be inductive: an id that has
\* not been handed out has no trades.
QuantityOK ==
  /\ DOMAIN submitted \subseteq DOMAIN history
  /\ \A id : id \notin DOMAIN submitted => Filled(id) = 0 /\ Spent(id) = 0
  /\ QuantityConserved
  /\ NotionalWithinBudget

QuantityInv == HistoryInv /\ LedgerInv /\ QuantityOK

\* A step without a trade or a new order, which keeps what is said to be left.
LEMMA QuantityKeeps ==
  ASSUME QuantityInv, HistoryInv', LedgerInv', tape' = tape, submitted' = submitted,
         DOMAIN history \subseteq DOMAIN history',
         \A id \in DOMAIN submitted : Left(id)' = Left(id),
         \A id \in DOMAIN submitted :
           IsNotional(id) /\ Executing(id)' => Executing(id) /\ taker' = taker
  PROVE  QuantityInv'
<1>1. \A id : /\ Filled(id)' = Filled(id) /\ Spent(id)' = Spent(id)
              /\ IsNotional(id)' = IsNotional(id)
  BY DEF Filled, Spent, IsNotional
<1>2. QuantityConserved'
  BY <1>1 DEF QuantityConserved, QuantityInv, QuantityOK
<1>3. NotionalWithinBudget'
  BY <1>1 DEF NotionalWithinBudget, QuantityInv, QuantityOK
<1> QED
  BY <1>1, <1>2, <1>3 DEF QuantityInv, QuantityOK

LEMMA QuantitySubmit ==
  ASSUME QuantityInv, NEW req \in Requests, Submit(req)
  PROVE  QuantityInv'
<1>1. HistoryInv' /\ LedgerInv'
  BY HistorySubmit, LedgerSubmit DEF QuantityInv
<1>2. /\ TypeInv /\ nextOrderId \notin DOMAIN submitted /\ nextOrderId \in Nat
      /\ nextOrderId \notin DOMAIN history
      /\ tape' = tape /\ pc # "match" /\ Create(req)
  <2>1. TypeInv /\ nextOrderId \in Nat
    BY DEF QuantityInv, HistoryInv, IndexInv, TypeInv, TypeOK
  <2> QED
    BY <2>1 DEF Submit, RejectInvalid, AcceptStop, RejectFok, BeginExecution,
                QuantityInv, HistoryInv, HistoryOK, LedgerInv, LedgerOK
<1>3. /\ Incoming(req).id = nextOrderId /\ Incoming(req).remaining \in Nat
      /\ Incoming(req).original = Incoming(req).remaining /\ Incoming(req).quote \in Nat
  BY <1>2, IncomingType DEF Incoming, MakeOrder, Order
<1>4. /\ DOMAIN submitted' = DOMAIN submitted \cup {nextOrderId}
      /\ \A id \in DOMAIN submitted : submitted'[id] = submitted[id]
      /\ submitted'[nextOrderId] = Incoming(req)
  BY <1>2 DEF Create, Put
<1>5. \/ pc' # "match"
      \/ pc' = "match" /\ taker' = Incoming(req)
  BY DEF Submit, RejectInvalid, AcceptStop, RejectFok, BeginExecution, AcceptAs, Answer
<1>6. PICK status : Records(history, history', nextOrderId, status, Incoming(req).remaining)
  <2>1. \/ \E status \in {"resting", "rejected"} : AcceptAs(req, status)
        \/ \E status \in {"accepted", "rejected"} :
             history' = RecordStatus(history, sequence + 1, Incoming(req), status)
    BY DEF Submit, RejectInvalid, AcceptStop, RejectFok, BeginExecution
  <2>2. {"resting", "rejected", "accepted"} \subseteq OrderStatus
    BY DEF OrderStatus
  <2> QED
    BY <2>1, <2>2, SubmitRecords DEF QuantityInv
<1>7. /\ DOMAIN history' = DOMAIN history \cup {nextOrderId}
      /\ Last(history'[nextOrderId]).remaining = Incoming(req).remaining
      /\ \A id \in DOMAIN history : history'[id] = history[id]
  BY <1>2, <1>6 DEF Records
<1>8. \A id : Filled(id)' = Filled(id) /\ Spent(id)' = Spent(id)
  BY <1>2 DEF Filled, Spent
<1>9. \A id \in DOMAIN submitted : Left(id)' = Left(id) /\ ~Executing(id)'
  BY <1>2, <1>3, <1>5, <1>7 DEF Left, Executing, QuantityInv, QuantityOK
<1>0. PICK new : new = nextOrderId
  OBVIOUS
<1>10. Left(new)' = Incoming(req).remaining
  BY <1>0, <1>3, <1>5, <1>7 DEF Left, Executing
<1>11. Filled(new) = 0 /\ Spent(new) = 0
  BY <1>0, <1>2 DEF QuantityInv, QuantityOK
<1>12. QuantityConserved'
  <2> SUFFICES ASSUME NEW id \in DOMAIN submitted', ~IsNotional(id)'
               PROVE  Filled(id)' + Left(id)' = submitted'[id].original
    BY DEF QuantityConserved
  <2>1. CASE id = new
    BY <1>0, <1>3, <1>4, <1>8, <1>10, <1>11, <2>1
  <2>2. CASE id \in DOMAIN submitted
    <3>1. ~IsNotional(id)
      BY <1>4, <2>2 DEF IsNotional
    <3> QED
      BY <1>4, <1>8, <1>9, <2>2, <3>1 DEF QuantityInv, QuantityOK, QuantityConserved
  <2> QED
    BY <1>0, <1>4, <2>1, <2>2
<1>13. NotionalWithinBudget'
  <2> SUFFICES ASSUME NEW id \in DOMAIN submitted', IsNotional(id)'
               PROVE  /\ Spent(id)' <= submitted'[id].quote
                      /\ Executing(id)' => Spent(id)' + taker'.quote = submitted'[id].quote
    BY DEF NotionalWithinBudget
  <2>1. CASE id = new
    BY <1>0, <1>3, <1>4, <1>5, <1>8, <1>11, <2>1 DEF Executing
  <2>2. CASE id \in DOMAIN submitted
    <3>1. IsNotional(id)
      BY <1>4, <2>2 DEF IsNotional
    <3> QED
      BY <1>4, <1>8, <1>9, <2>2, <3>1 DEF QuantityInv, QuantityOK, NotionalWithinBudget
  <2> QED
    BY <1>0, <1>4, <2>1, <2>2
<1> QED
  BY <1>1, <1>4, <1>7, <1>8, <1>12, <1>13 DEF QuantityInv, QuantityOK

\* What a trade does to the maker, the taker and their histories.
LEMMA TradeParties ==
  ASSUME QuantityInv, FillBest
  PROVE  /\ BestMaker \in ActiveOrders /\ BestMaker.id # taker.id
         /\ BestMaker.id \in DOMAIN submitted /\ taker.id \in DOMAIN submitted
         /\ NextTrade \in Trade /\ NextAmount \in Nat
         /\ BestMaker.remaining \in Nat /\ NextAmount <= BestMaker.remaining
         /\ ~IsNotional(BestMaker.id) /\ ~Executing(BestMaker.id) /\ Executing(taker.id)
         /\ taker' \in Order /\ taker'.id = taker.id
         /\ \E status : Records(history, history', BestMaker.id, status,
                                BestMaker.remaining - NextAmount)
<1>1. /\ HistoryInv /\ LedgerInv /\ LedgerInv' /\ IndexInv /\ TypeInv /\ pc = "match" /\ CanTrade
      /\ taker' = ReduceTaker(taker, BestPrice, NextAmount)
  BY LedgerFillBest DEF QuantityInv, HistoryInv, IndexInv, FillBest
<1>2. /\ BestMaker \in Order /\ NextAmount \in Nat /\ NextAmount <= BestMaker.remaining
      /\ NextTrade \in Trade /\ taker \in Order
      /\ IsMap(history, Nat, Seq(HistoryEntry)) /\ sequence + 1 \in Nat
  BY <1>1, NextTradeType DEF TypeInv, TypeOK
<1>3. BestMaker \in ActiveOrders
  BY <1>1, ActiveFillBest
<1>4. HeldOK
  BY <1>1, HeldUnique
<1>5. BestMaker.id # taker.id /\ ~Executing(BestMaker.id) /\ Executing(taker.id)
  BY <1>1, <1>3, <1>4 DEF HeldOK, Executing
<1>6. /\ BestMaker.id \in DOMAIN submitted /\ ~IsNotional(BestMaker.id)
      /\ taker.id \in DOMAIN submitted
  BY <1>1, <1>3 DEF LedgerInv, LedgerOK, IsNotional, Unit
<1>7. taker' \in Order /\ taker'.id = taker.id
  <2>1. taker' \in Order
    BY <1>1 DEF LedgerInv, IndexInv, TypeInv, TypeOK
  <2> QED
    BY <1>1, <1>2, <2>1 DEF ReduceTaker, Order
<1> DEFINE left == BestMaker.remaining - NextAmount
           status == IF left = 0 THEN "filled" ELSE "partially_filled"
           entry == Entry(sequence + 1, status, left)
<1>8. left \in Nat
  <2>1. BestMaker.remaining \in Nat
    BY <1>2 DEF Order
  <2> QED
    BY <1>2, <2>1
<1>9. history' = Record(history, BestMaker.id, entry)
  BY DEF FillBest, RecordMakerFill
<1> HIDE DEF left
<1>10. entry \in HistoryEntry /\ entry.status = status /\ entry.remaining = left
  BY <1>2, <1>8 DEF Entry, HistoryEntry, OrderStatus
<1> HIDE DEF entry
<1>11. Records(history, history', BestMaker.id, status, left)
  BY <1>2, <1>9, <1>10, RecordLast
<1>12. BestMaker.remaining \in Nat
  BY <1>2 DEF Order
<1> QED
  BY <1>2, <1>3, <1>5, <1>6, <1>7, <1>11, <1>12 DEF left

LEMMA QuantityFillBest ==
  ASSUME QuantityInv, FillBest
  PROVE  QuantityInv'
<1>1. /\ HistoryInv' /\ LedgerInv' /\ HistoryInv /\ LedgerInv /\ TypeInv
      /\ pc = "match" /\ pc' = "match" /\ submitted' = submitted
      /\ tape' = Append(tape, NextTrade) /\ tape \in Seq(Trade) /\ taker \in Order
      /\ taker' = ReduceTaker(taker, BestPrice, NextAmount)
  BY HistoryFillBest, LedgerFillBest
     DEF QuantityInv, HistoryInv, IndexInv, TypeInv, TypeOK, FillBest
<1>2. PICK maker, buyer, amount : /\ maker = BestMaker.id /\ buyer = taker.id
                                  /\ amount = NextAmount
  OBVIOUS
<1>3. /\ BestMaker \in ActiveOrders /\ maker # buyer
      /\ maker \in DOMAIN submitted /\ buyer \in DOMAIN submitted
      /\ NextTrade \in Trade /\ amount \in Nat
      /\ BestMaker.remaining \in Nat /\ amount <= BestMaker.remaining
      /\ ~IsNotional(maker) /\ ~Executing(maker) /\ Executing(buyer)
      /\ taker' \in Order /\ taker'.id = buyer
      /\ \E status : Records(history, history', maker, status, BestMaker.remaining - amount)
  BY <1>2, TradeParties
<1>4. NextTrade.maker = maker /\ NextTrade.taker = buyer /\ NextTrade.quantity = amount
      /\ NextTrade.price = BestPrice
  BY <1>2 DEF NextTrade
<1>5. \A id : /\ Sums(id)
              /\ Filled(id)' = Filled(id) + (IF id \in {maker, buyer} THEN amount ELSE 0)
              /\ Spent(id)' = Spent(id) + (IF id = buyer THEN BestPrice * amount ELSE 0)
  <2> TAKE id
  <2>1. /\ Sums(id)
        /\ Filled(id)' = Filled(id) + (IF id \in {NextTrade.maker, NextTrade.taker}
                                         THEN NextTrade.quantity ELSE 0)
        /\ Spent(id)' = Spent(id) + (IF id = NextTrade.taker
                                       THEN NextTrade.price * NextTrade.quantity ELSE 0)
    BY <1>1, <1>3, SumsOfTrade
  <2> QED
    BY <1>4, <2>1
<1>6. /\ DOMAIN submitted \subseteq DOMAIN history /\ DOMAIN submitted \subseteq DOMAIN history'
      /\ Last(history'[maker]).remaining = BestMaker.remaining - amount
      /\ \A id \in DOMAIN submitted : id # maker => history'[id] = history[id]
  BY <1>3 DEF Records, QuantityInv, QuantityOK
<1>7. Last(history[maker]).remaining = BestMaker.remaining
  BY <1>1, <1>2, <1>3 DEF HistoryInv, HistoryOK, HistoryTracksBook, ActiveOrders
<1>8. /\ Left(maker) = BestMaker.remaining /\ Left(maker)' = BestMaker.remaining - amount
      /\ Left(buyer) = taker.remaining /\ Left(buyer)' = taker'.remaining
      /\ \A id \in DOMAIN submitted : id \notin {maker, buyer} => Left(id)' = Left(id)
  BY <1>1, <1>3, <1>6, <1>7 DEF Left, Executing
<1>9. \A id : IsNotional(id)' = IsNotional(id)
  BY <1>1 DEF IsNotional
<1>10. IF IsNotional(buyer)
         THEN /\ taker'.quote = taker.quote - BestPrice * amount
              /\ taker.quote \in Nat /\ BestPrice * amount \in Nat
              /\ BestPrice * amount <= taker.quote
         ELSE taker'.remaining = taker.remaining - amount /\ taker.remaining \in Nat
  <2>1. IsNotional(buyer) <=> taker.kind = "market_by_notional"
    BY <1>1, <1>2 DEF LedgerInv, LedgerOK, Unit, IsNotional
  <2>2. BestMaker \in Order /\ BestPrice \in Price /\ CanTrade
    BY <1>1, NextTradeType DEF FillBest
  <2>3. BestPrice \in Nat /\ BestPrice * amount \in Nat
    <3>1. BestPrice \in Nat
      BY <2>2 DEF Price
    <3> QED
      BY <1>3, <3>1
  <2>4. IF taker.kind = "market_by_notional"
          THEN BestPrice * amount <= taker.quote ELSE amount <= taker.remaining
    BY <1>1, <1>2, <1>3, <2>2, TradeQuantityBounds DEF NextAmount
  <2>5. taker.quote \in Nat /\ taker.remaining \in Nat
    BY <1>1 DEF Order
  <2>6. CASE taker.kind = "market_by_notional"
    <3>1. taker'.quote = taker.quote - BestPrice * amount
      BY <1>1, <1>2, <2>6 DEF ReduceTaker, Order
    <3> QED
      BY <2>1, <2>3, <2>4, <2>5, <2>6, <3>1
  <2>7. CASE taker.kind # "market_by_notional"
    <3>1. taker'.remaining = taker.remaining - amount
      BY <1>1, <1>2, <2>7 DEF ReduceTaker, Order
    <3> QED
      BY <2>1, <2>5, <2>7, <3>1
  <2> QED
    BY <2>6, <2>7
<1>11. QuantityConserved'
  <2> SUFFICES ASSUME NEW id \in DOMAIN submitted, ~IsNotional(id)
               PROVE  Filled(id)' + Left(id)' = submitted[id].original
    BY <1>1, <1>9 DEF QuantityConserved
  <2>1. Filled(id) + Left(id) = submitted[id].original /\ Filled(id) \in Nat
    BY <1>5 DEF QuantityInv, QuantityOK, QuantityConserved, Sums
  <2>2. CASE id = maker
    BY <1>3, <1>5, <1>8, <2>1, <2>2
  <2>3. CASE id = buyer
    BY <1>3, <1>5, <1>8, <1>10, <2>1, <2>3
  <2>4. CASE id \notin {maker, buyer}
    BY <1>5, <1>8, <2>1, <2>4
  <2> QED
    BY <2>2, <2>3, <2>4
<1>12. NotionalWithinBudget'
  <2> SUFFICES ASSUME NEW id \in DOMAIN submitted, IsNotional(id)
               PROVE  /\ Spent(id)' <= submitted[id].quote
                      /\ Executing(id)' => Spent(id)' + taker'.quote = submitted[id].quote
    BY <1>1, <1>9 DEF NotionalWithinBudget
  <2>1. /\ Spent(id) <= submitted[id].quote /\ Spent(id) \in Nat
        /\ Executing(id) => Spent(id) + taker.quote = submitted[id].quote
    BY <1>5 DEF QuantityInv, QuantityOK, NotionalWithinBudget, Sums
  <2>2. CASE id = buyer
    <3>1. Spent(id)' = Spent(id) + BestPrice * amount
      BY <1>5, <2>2
    <3>2. PICK cost \in Nat : cost = BestPrice * amount
      BY <1>10, <2>2
    <3> QED
      BY <1>3, <1>10, <2>1, <2>2, <3>1, <3>2
  <2>3. CASE id # buyer
    BY <1>1, <1>2, <1>3, <1>5, <2>1, <2>3 DEF Executing
  <2> QED
    BY <2>2, <2>3
<1>13. \A id : id \notin DOMAIN submitted => Filled(id)' = 0 /\ Spent(id)' = 0
  BY <1>3, <1>5 DEF QuantityInv, QuantityOK
<1> QED
  BY <1>1, <1>6, <1>11, <1>12, <1>13 DEF QuantityInv, QuantityOK

LEMMA QuantitySettle ==
  ASSUME QuantityInv, Settle \/ RejectPostOnly
  PROVE  QuantityInv'
<1>1. /\ HistoryInv' /\ LedgerInv' /\ HistoryInv
      /\ pc = "match" /\ pc' # "match" /\ submitted' = submitted /\ tape' = tape
      /\ taker \in Order /\ IsMap(history, Nat, Seq(HistoryEntry)) /\ sequence \in Nat
  <2>1. /\ HistoryInv /\ HistoryInv' /\ LedgerInv'
    BY HistorySettle, HistoryRejectPostOnly, LedgerSettle DEF QuantityInv
  <2> QED
    BY <2>1 DEF HistoryInv, IndexInv, TypeInv, TypeOK, Settle, RejectPostOnly, ghostVars
<1>2. PICK status \in OrderStatus : history' = RecordStatus(history, sequence, taker, status)
  BY SettledStatusType DEF Settle, RejectPostOnly, OrderStatus
<1>3. Records(history, history', taker.id, status, taker.remaining)
  BY <1>1, <1>2, RecordStatusLast
<1>4. DOMAIN history \subseteq DOMAIN history'
  BY <1>3 DEF Records
<1>5. \A id \in DOMAIN submitted : Left(id)' = Left(id)
  BY <1>1, <1>3 DEF Records, Left, Executing, QuantityInv, QuantityOK
<1>6. \A id : ~Executing(id)'
  BY <1>1 DEF Executing
<1> QED
  BY <1>1, <1>4, <1>5, <1>6, QuantityKeeps

LEMMA QuantityActivateStop ==
  ASSUME QuantityInv, ActivateStop
  PROVE  QuantityInv'
<1>1. HistoryInv /\ HistoryInv' /\ LedgerInv /\ LedgerInv' /\ IndexInv /\ TypeInv
  BY HistoryActivateStop, LedgerActivateStop DEF QuantityInv, LedgerInv, IndexInv
<1>2. PICK stop : stop = stopOrders[NextTriggered]
  OBVIOUS
<1>3. stop \in ActiveOrders
  BY <1>1, <1>2, ActiveActivateStop
<1>4. /\ pc = "trigger" /\ pc' = "match" /\ history' = history
      /\ submitted' = submitted /\ tape' = tape
      /\ NextTriggered \in DOMAIN stopOrders /\ taker' = Activated(stop)
  BY <1>2 DEF ActivateStop, ghostVars
<1>5. taker'.id = stop.id /\ taker'.remaining = stop.remaining
  BY <1>1, <1>2, <1>4 DEF TypeInv, TypeOK, IsMap, Activated, Order
<1>6. Last(history[stop.id]).remaining = stop.remaining
  BY <1>1, <1>3 DEF HistoryInv, HistoryOK, HistoryTracksBook, ActiveOrders
<1>7. ~IsNotional(stop.id)
  BY <1>1, <1>3 DEF LedgerInv, LedgerOK, Unit, IsNotional
<1>8. \A id \in DOMAIN submitted : Left(id)' = Left(id)
  BY <1>4, <1>5, <1>6 DEF Left, Executing
<1>9. \A id \in DOMAIN submitted :
        IsNotional(id) /\ Executing(id)' => Executing(id) /\ taker' = taker
  BY <1>4, <1>5, <1>7 DEF Executing
<1> QED
  BY <1>1, <1>4, <1>8, <1>9, QuantityKeeps

LEMMA QuantityCommands ==
  ASSUME QuantityInv,
         \/ \E id \in ActiveIds : Cancel(id)
         \/ \E id \in ActiveIds : Replace(id)
         \/ \E id \in cancelling : MassCancelOne(id)
  PROVE  QuantityInv'
<1>1. HistoryInv /\ HistoryInv' /\ LedgerInv' /\ IndexInv /\ cancelling \subseteq ActiveIds
  BY HistoryCommands, LedgerCommands
     DEF QuantityInv, LedgerInv, IndexInv, TypeInv, ControlOK
<1>2. PICK id \in ActiveIds : CancelOrder(id)
  BY <1>1 DEF Cancel, Replace, MassCancelOne
<1>3. pc # "match" /\ pc' # "match" /\ submitted' = submitted /\ tape' = tape
  BY DEF Cancel, Replace, MassCancelOne, Answer, ghostVars
<1>4. PICK order \in ActiveOrders :
        /\ order.id = id
        /\ history' = RecordStatus(history, sequence + 1, order, "cancelled")
  BY <1>1, <1>2, ActiveCancelOrder
<1>5. Records(history, history', order.id, "cancelled", order.remaining)
  <2>1. ActiveOK
    BY <1>1, ActiveUnique
  <2>2. order \in Order /\ IsMap(history, Nat, Seq(HistoryEntry)) /\ sequence + 1 \in Nat
    BY <1>1, <2>1 DEF ActiveOK, IndexInv, TypeInv, TypeOK
  <2> QED
    BY <1>4, <2>2, RecordStatusLast DEF OrderStatus
<1>6. Last(history[order.id]).remaining = order.remaining
  BY <1>1 DEF HistoryInv, HistoryOK, HistoryTracksBook, ActiveOrders
<1>7. DOMAIN history \subseteq DOMAIN history'
  BY <1>5 DEF Records
<1>8. \A x \in DOMAIN submitted : Left(x)' = Left(x) /\ ~Executing(x)'
  BY <1>3, <1>5, <1>6 DEF Records, Left, Executing, QuantityInv, QuantityOK
<1> QED
  BY <1>1, <1>3, <1>7, <1>8, QuantityKeeps

LEMMA QuantityOthers ==
  ASSUME QuantityInv, SkipStop \/ MassCancel \/ MassCancelDone \/ UNCHANGED vars
  PROVE  QuantityInv'
<1>1. HistoryInv' /\ LedgerInv'
  BY HistoryOthers, LedgerOthers DEF QuantityInv
<1>2. /\ submitted' = submitted /\ tape' = tape /\ history' = history /\ taker' = taker
      /\ (pc = "match" \/ pc' = "match" => pc' = pc)
  BY DEF SkipStop, MassCancel, MassCancelDone, Answer, vars, ghostVars, controlVars
<1>3. \A id : Executing(id)' = Executing(id)
  BY <1>2 DEF Executing
<1>4. \A id : Left(id)' = Left(id)
  BY <1>2, <1>3 DEF Left
<1> QED
  BY <1>1, <1>2, <1>3, <1>4, QuantityKeeps

LEMMA QuantityInit == Init => QuantityInv
<1> SUFFICES ASSUME Init PROVE QuantityInv
  OBVIOUS
<1>1. HistoryInv /\ LedgerInv
  BY HistoryInit, LedgerStart
<1>2. submitted = <<>> /\ tape = <<>>
  BY DEF Init
<1>3. \A id : Filled(id) = 0 /\ Spent(id) = 0
  BY <1>2, TotalEmpty DEF Filled, Spent
<1> QED
  BY <1>1, <1>2, <1>3 DEF QuantityInv, QuantityOK, QuantityConserved, NotionalWithinBudget

LEMMA QuantityStep == QuantityInv /\ [Next]_vars => QuantityInv'
<1> SUFFICES ASSUME QuantityInv, [Next]_vars PROVE QuantityInv'
  OBVIOUS
<1>1. CASE EngineStep
  BY <1>1, QuantitySubmit, QuantityFillBest, QuantitySettle, QuantityActivateStop,
     QuantityCommands, QuantityOthers DEF EngineStep
<1>2. CASE Command
  BY <1>2, QuantitySubmit, QuantityCommands, QuantityOthers DEF Command
<1>3. CASE UNCHANGED vars
  BY <1>3, QuantityOthers
<1> QED
  BY <1>1, <1>2, <1>3 DEF Next

\* Whatever is submitted, what an order traded -- as taker, as maker of any number of
\* takers, before and after its activation -- plus what is said to be left of it is what
\* it was submitted with (order_state.rs:7-43, matching.rs:152-162).
THEOREM QuantitiesAddUp == Spec => []QuantityConserved
<1>1. Spec => []QuantityInv
  BY QuantityInit, QuantityStep, PTL DEF Spec
<1>2. QuantityInv => QuantityConserved
  BY DEF QuantityInv, QuantityOK
<1> QED
  BY <1>1, <1>2, PTL

\* No market-by-notional order spends more than its quote quantity, and while it executes
\* what it has spent and what it has left to spend are that quantity: the saturating_sub
\* of the code never hides an overspend (matching.rs:137-162).
THEOREM BudgetsKept == Spec => []NotionalWithinBudget
<1>1. Spec => []QuantityInv
  BY QuantityInit, QuantityStep, PTL DEF Spec
<1>2. QuantityInv => NotionalWithinBudget
  BY DEF QuantityInv, QuantityOK
<1> QED
  BY <1>1, <1>2, PTL

(***************************************************************************)
(* The retained trades.                                                    *)
(***************************************************************************)

Newest(trades) ==
  SubSeq(trades, IF Len(trades) <= MaxRecentTrades THEN 1
                 ELSE Len(trades) - MaxRecentTrades + 1, Len(trades))

\* Dropping the oldest of a full buffer is enough to hold the newest.
LEMMA RetainNewest ==
  ASSUME NEW trades \in Seq(Trade), NEW trade \in Trade
  PROVE  RetainRecent(Newest(trades), trade) = Newest(Append(trades, trade))
<1> DEFINE n == Len(trades)
           longer == Append(trades, trade)
<1>1. n \in Nat /\ MaxRecentTrades \in Nat \ {0}
  BY LenProperties, ConfigAssumption
<1>2. /\ longer \in Seq(Trade) /\ Len(longer) = n + 1 /\ longer[n + 1] = trade
      /\ \A i \in 1..n : longer[i] = trades[i]
  BY AppendProperties
<1>3. CASE n < MaxRecentTrades
  <2>1. Newest(trades) = trades
    <3>1. (IF n <= MaxRecentTrades THEN 1 ELSE n - MaxRecentTrades + 1) = 1
      BY <1>1, <1>3
    <3> QED
      BY <3>1, SubSeqFull DEF Newest
  <2>2. Newest(longer) = longer
    <3>1. (IF Len(longer) <= MaxRecentTrades THEN 1 ELSE Len(longer) - MaxRecentTrades + 1) = 1
      <4> HIDE DEF longer
      <4> QED
        BY <1>1, <1>2, <1>3
    <3> HIDE DEF longer
    <3> QED
      BY <1>2, <3>1, SubSeqFull DEF Newest
  <2>3. RetainRecent(trades, trade) = longer
    <3>1. n # MaxRecentTrades
      BY <1>1, <1>3
    <3> QED
      BY <3>1 DEF RetainRecent
  <2> QED
    BY <2>1, <2>2, <2>3
<1>4. CASE n >= MaxRecentTrades
  <2> DEFINE first == n - MaxRecentTrades + 1
             kept == SubSeq(trades, first, n)
  <2>1. Newest(trades) = kept
    <3>1. (IF n <= MaxRecentTrades THEN 1 ELSE n - MaxRecentTrades + 1) = first
      BY <1>1, <1>4
    <3> QED
      BY <3>1 DEF Newest
  <2>2. Newest(longer) = SubSeq(longer, first + 1, n + 1)
    <3> HIDE DEF longer
    <3>1. (IF Len(longer) <= MaxRecentTrades THEN 1 ELSE Len(longer) - MaxRecentTrades + 1)
            = first + 1
      BY <1>1, <1>2, <1>4
    <3> QED
      BY <1>2, <3>1 DEF Newest
  <2>3. /\ first \in 1..(n + 1) /\ kept \in Seq(Trade) /\ Len(kept) = MaxRecentTrades
        /\ \A i \in 1..MaxRecentTrades : kept[i] = trades[first + i - 1]
    BY <1>1, <1>4, SubSeqProperties
  <2> HIDE DEF kept, longer
  <2>4. /\ Tail(kept) \in Seq(Trade) /\ Len(Tail(kept)) = MaxRecentTrades - 1
        /\ \A i \in 1..(MaxRecentTrades - 1) : Tail(kept)[i] = kept[i + 1]
    <3>1. kept # <<>>
      BY <1>1, <2>3
    <3> QED
      BY <1>1, <2>3, <3>1, HeadTailProperties
  <2> DEFINE left == Append(Tail(kept), trade)
             right == SubSeq(longer, first + 1, n + 1)
  <2>5. /\ left \in Seq(Trade) /\ Len(left) = MaxRecentTrades
        /\ left[MaxRecentTrades] = trade
        /\ \A i \in 1..(MaxRecentTrades - 1) : left[i] = trades[first + i]
    <3>1. /\ left \in Seq(Trade) /\ Len(left) = MaxRecentTrades - 1 + 1
          /\ left[MaxRecentTrades - 1 + 1] = trade
          /\ \A i \in 1..(MaxRecentTrades - 1) : left[i] = Tail(kept)[i]
      BY <2>4, AppendProperties
    <3>2. \A i \in 1..(MaxRecentTrades - 1) : kept[i + 1] = trades[first + i]
      <4> TAKE i \in 1..(MaxRecentTrades - 1)
      <4>1. i + 1 \in 1..MaxRecentTrades /\ first + (i + 1) - 1 = first + i
        BY <1>1
      <4> QED
        BY <2>3, <4>1
    <3> HIDE DEF left
    <3> QED
      BY <1>1, <2>4, <3>1, <3>2
  <2>6. /\ right \in Seq(Trade) /\ Len(right) = MaxRecentTrades
        /\ \A i \in 1..MaxRecentTrades : right[i] = longer[first + i]
    BY <1>1, <1>2, <1>4, <2>3, SubSeqProperties
  <2>7. \A i \in 1..MaxRecentTrades : left[i] = right[i]
    <3> HIDE DEF left, right
    <3> TAKE i \in 1..MaxRecentTrades
    <3>1. right[i] = longer[first + i]
      BY <2>6
    <3>2. CASE i = MaxRecentTrades
      <4>1. first + i = n + 1
        BY <1>1, <3>2
      <4> QED
        BY <1>2, <2>5, <3>1, <3>2, <4>1
    <3>3. CASE i # MaxRecentTrades
      <4>1. i \in 1..(MaxRecentTrades - 1) /\ first + i \in 1..n
        BY <1>1, <1>4, <3>3
      <4> QED
        BY <1>2, <2>5, <3>1, <4>1
    <3> QED
      BY <3>2, <3>3
  <2>8. left = right
    <3> HIDE DEF left, right
    <3> QED
      BY <2>5, <2>6, <2>7, SeqEqual
  <2> HIDE DEF right
  <2>9. RetainRecent(kept, trade) = left
    <3>1. (IF Len(kept) = MaxRecentTrades THEN Tail(kept) ELSE kept) = Tail(kept)
      BY <2>3
    <3> QED
      BY <3>1 DEF RetainRecent
  <2> QED
    BY <2>1, <2>2, <2>8, <2>9 DEF right, longer
<1> QED
  BY <1>1, <1>3, <1>4

\* GET /trades answers with the newest trades in the order they were made, whatever the
\* limit and however many there were (trade.rs:27-36).
THEOREM NewestRetained == Spec => []RecentTradesNewest
<1> DEFINE Inv == TypeInv /\ RecentTradesNewest
<1>1. RecentTradesNewest <=> recentTrades = Newest(tape)
  BY DEF RecentTradesNewest, Newest
<1>2. Init => Inv
  <2> SUFFICES ASSUME Init PROVE RecentTradesNewest
    BY TypeInit
  <2>1. recentTrades = <<>> /\ tape = <<>>
    BY DEF Init
  <2>2. Newest(<<>>) = <<>>
    BY ConfigAssumption DEF Newest
  <2> QED
    BY <1>1, <2>1, <2>2
<1>3. Inv /\ [Next]_vars => Inv'
  <2> SUFFICES ASSUME Inv, [Next]_vars PROVE RecentTradesNewest'
    BY TypeStep
  <2>1. CASE FillBest
    <3>1. tape \in Seq(Trade)
      BY DEF TypeInv, TypeOK
    <3>2. NextTrade \in Trade
      BY <2>1, NextTradeType DEF FillBest
    <3>3. recentTrades' = RetainRecent(Newest(tape), NextTrade)
      BY <1>1, <2>1 DEF FillBest
    <3>4. recentTrades' = Newest(tape')
      BY <2>1, <3>1, <3>2, <3>3, RetainNewest DEF FillBest
    <3> QED
      BY <3>4 DEF RecentTradesNewest, Newest
  <2>2. CASE ~FillBest
    <3>1. recentTrades' = recentTrades /\ tape' = tape
      BY <2>2 DEF Next, EngineStep, Command, Submit, RejectInvalid, AcceptStop, RejectFok,
                  BeginExecution, RejectPostOnly, Settle, ActivateStop, SkipStop,
                  MassCancelOne, MassCancelDone, Cancel, Replace, MassCancel, vars,
                  ghostVars
    <3> QED
      BY <3>1 DEF RecentTradesNewest
  <2> QED
    BY <2>1, <2>2
<1>4. Spec => []Inv
  BY <1>2, <1>3, PTL DEF Spec
<1> QED
  BY <1>4, PTL
==============================================================================
