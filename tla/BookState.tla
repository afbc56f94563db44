------------------------------ MODULE BookState ------------------------------
(***************************************************************************)
(* The data of one order book (src/backend/src/model.rs and the helpers of *)
(* src/backend/src/engine) and the pure functions its operations are made  *)
(* of: price levels, the order history, the retained trades, the risk      *)
(* checks and the matching rules.  Every operator here is a function of    *)
(* its arguments, so the live engine (OrderBook) and the restore and       *)
(* replay paths (Recovery) share them exactly as the Rust methods do.      *)
(*                                                                         *)
(* Abstractions.  A price level map keeps only the prices that have a      *)
(* level (its DOMAIN), as the BTreeMap does.  `bids' and `asks' are one    *)
(* function indexed by the side that rests there.  An absent Option<u64>   *)
(* of a request or an order is 0: the code treats Some(0) as absent        *)
(* wherever it reads one.  The two MarketByNotional quote fields are one,  *)
(* the remaining one, since the engine never reads the original.  A risk   *)
(* limit of None is a number above every value of the instance.            *)
(*                                                                         *)
(* An operator named ...Mutant is the next one with a plausible bug.  No   *)
(* specification uses it: substituted for the right one it must break the  *)
(* property PROJECT.json names, which shows that the property can fail.    *)
(***************************************************************************)
EXTENDS Naturals, FiniteSets, Sequences, SequencesExt

CONSTANTS
  Accounts, NoAccount,      (* account ids, and the empty (anonymous) one  *)
  TickSize, LotSize,        (* BookConfig.tick_size, lot_size              *)
  MaxRecentTrades,          (* BookConfig.max_recent_trades                *)
  MaxOrderQuantity,         (* RiskConfig.max_order_quantity               *)
  MaxOrderNotional,         (* RiskConfig.max_order_notional               *)
  MaxOpenOrders,            (* RiskConfig.max_open_orders                  *)
  MaxOpenOrdersPerAccount,  (* RiskConfig.max_open_orders_per_account      *)
  BlockedAccounts           (* RiskConfig.blocked_accounts                 *)

ASSUME ConfigAssumption ==
  /\ TickSize \in Nat \ {0}
  /\ LotSize \in Nat \ {0}
  /\ MaxRecentTrades \in Nat \ {0}
  /\ MaxOrderQuantity \in Nat
  /\ MaxOrderNotional \in Nat
  /\ MaxOpenOrders \in Nat
  /\ MaxOpenOrdersPerAccount \in Nat
  /\ NoAccount \in Accounts

Side        == {"buy", "sell"}
OrderKind   == {"limit", "market", "market_by_notional", "post_only",
                "stop_limit", "stop_market"}
TimeInForce == {"gtc", "ioc", "fok"}
OrderStatus == {"accepted", "filled", "partially_filled", "resting",
                "rejected", "cancelled"}

None == 0   \* an absent price, stop price or quote quantity

NewOrder ==
  [account : Accounts, side : Side, kind : OrderKind, tif : TimeInForce,
   price : Nat, stop : Nat, quantity : Nat, quote : Nat]

Order ==
  [id : Nat, account : Accounts, side : Side, kind : OrderKind,
   tif : TimeInForce, price : Nat, stop : Nat, original : Nat,
   remaining : Nat, quote : Nat, createdAt : Nat]

Trade ==
  [id : Nat, maker : Nat, taker : Nat, price : Nat, quantity : Nat,
   aggressor : Side, sequence : Nat]

HistoryEntry == [sequence : Nat, status : OrderStatus, remaining : Nat]

Opposite(side) == IF side = "buy" THEN "sell" ELSE "buy"

IsStopOrder(kind) == kind \in {"stop_limit", "stop_market"}

\* The kinds whose price the book reads: the others carry none.
IsPriced(kind) == kind \in {"limit", "post_only", "stop_limit"}

\* The prices an order can rest at: validate_order bounds price * quantity.
Price == 1..MaxOrderNotional

\* Is f a map from a subset of K to V, that is a partial function?
IsMap(f, K, V) ==
  /\ f = [x \in DOMAIN f |-> f[x]]
  /\ DOMAIN f \subseteq K
  /\ \A x \in DOMAIN f : f[x] \in V

\* The bids and asks: side -> price -> FIFO queue of a level.
IsLevels(levels) ==
  /\ DOMAIN levels = Side
  /\ \A side \in Side : IsMap(levels[side], Price, Seq(Order))

Location == [side : Side, price : Price]

\* The content of `taker' while no order is executing.
NoOrder ==
  [id |-> 0, account |-> NoAccount, side |-> "buy", kind |-> "limit",
   tif |-> "gtc", price |-> None, stop |-> None, original |-> 0,
   remaining |-> 0, quote |-> None, createdAt |-> 0]

(***************************************************************************)
(* Risk and shape checks.                                                  *)
(***************************************************************************)

OpensOrderMutant(kind, tif) == kind \in {"limit", "post_only"}

OpensOrder(kind, tif) ==
  \/ kind \in {"limit", "post_only", "stop_limit", "stop_market"}
  \/ kind = "market" /\ tif = "gtc"

ValidNotional(req) ==
  /\ req.side = "buy"
  /\ req.quote > 0
  /\ req.quote <= MaxOrderNotional

ValidBase(req, open, openOfAccount) ==
  /\ req.quantity > 0
  /\ req.quantity <= MaxOrderQuantity
  /\ req.quantity % LotSize = 0
  /\ OpensOrder(req.kind, req.tif) =>
       /\ open < MaxOpenOrders
       /\ req.account # NoAccount => openOfAccount < MaxOpenOrdersPerAccount
  /\ IsPriced(req.kind) =>
       /\ req.price > 0
       /\ req.price % TickSize = 0
       /\ req.price * req.quantity <= MaxOrderNotional
  /\ IsStopOrder(req.kind) =>
       /\ req.stop > 0
       /\ req.stop % TickSize = 0

\* validate_order, which of the typed errors it returns left out.
Validates(req, open, openOfAccount) ==
  /\ req.account # NoAccount => req.account \notin BlockedAccounts
  /\ IF req.kind = "market_by_notional"
       THEN ValidNotional(req)
       ELSE ValidBase(req, open, openOfAccount)

\* The order a request becomes: `price' survives only where the kind has one.
MakeOrder(id, req, seq) ==
  [id |-> id, account |-> req.account, side |-> req.side, kind |-> req.kind,
   tif |-> req.tif, price |-> IF IsPriced(req.kind) THEN req.price ELSE None,
   stop |-> req.stop, original |-> req.quantity, remaining |-> req.quantity,
   quote |-> req.quote, createdAt |-> seq]

(***************************************************************************)
(* Price levels: levels[side][price] is the FIFO queue of a level.         *)
(***************************************************************************)

EmptyLevels == [side \in Side |-> <<>>]

Queue(levels, side, price) ==
  IF price \in DOMAIN levels[side] THEN levels[side][price] ELSE <<>>

SetQueueMutant(levels, side, price, queue) ==
  [levels EXCEPT ![side] =
     [p \in DOMAIN @ \cup {price} |-> IF p = price THEN queue ELSE @[p]]]

\* A level whose queue becomes empty leaves the map.
SetQueue(levels, side, price, queue) ==
  [levels EXCEPT ![side] =
     IF queue = <<>>
       THEN Restrict(@, DOMAIN @ \ {price})
       ELSE [p \in DOMAIN @ \cup {price} |-> IF p = price THEN queue ELSE @[p]]]

Push(levels, order) ==
  SetQueue(levels, order.side, order.price,
           Append(Queue(levels, order.side, order.price), order))

\* Where order `id' stands in its level's queue, 0 if it is not there.
PositionOf(queue, id) ==
  IF \E i \in DOMAIN queue : queue[i].id = id
    THEN CHOOSE i \in DOMAIN queue : /\ queue[i].id = id
                                     /\ \A j \in 1..(i - 1) : queue[j].id # id
    ELSE 0

RemoveFromLevelMutant(levels, side, price, id) == levels

RemoveFromLevel(levels, side, price, id) ==
  LET queue == Queue(levels, side, price)
      i == PositionOf(queue, id)
  IN  IF i = 0 THEN levels ELSE SetQueue(levels, side, price, RemoveAt(queue, i))

\* The i-th order of a level loses `quantity', and its place once it has none left.
Deplete(levels, side, price, i, quantity) ==
  LET queue == levels[side][price]
      left == queue[i].remaining - quantity
  IN  SetQueue(levels, side, price,
               IF left = 0 THEN RemoveAt(queue, i)
                           ELSE [queue EXCEPT ![i].remaining = left])

RestingOn(levels, side) ==
  UNION {ToSet(levels[side][p]) : p \in DOMAIN levels[side]}

Resting(levels) == RestingOn(levels, "buy") \cup RestingOn(levels, "sell")

StopsOf(stops) == {stops[id] : id \in DOMAIN stops}

(***************************************************************************)
(* Matching rules.                                                         *)
(***************************************************************************)

MatchableMutant(maker, account) == TRUE

\* Self-trade prevention: who a taker of `account' may trade with.
Matchable(maker, account) == account = NoAccount \/ maker.account # account

HasMatchable(queue, account) == \E i \in DOMAIN queue : Matchable(queue[i], account)

FirstMatchableMutant(queue, account) ==
  CHOOSE i \in DOMAIN queue :
    /\ Matchable(queue[i], account)
    /\ \A j \in (i + 1)..Len(queue) : ~Matchable(queue[j], account)

FirstMatchable(queue, account) ==
  CHOOSE i \in DOMAIN queue :
    /\ Matchable(queue[i], account)
    /\ \A j \in 1..(i - 1) : ~Matchable(queue[j], account)

WithinLimitMutant(order, price) ==
  IF order.side = "buy" THEN price < order.price ELSE price > order.price

\* Is `price' on the opposite side acceptable for `order'?
WithinLimit(order, price) ==
  IF order.side = "buy" THEN price <= order.price ELSE price >= order.price

\* Is price p better than q for a taker on `side'?
BetterFor(side, p, q) == IF side = "buy" THEN p < q ELSE p > q

MatchablePrices(levels, taker) ==
  LET makers == levels[Opposite(taker.side)]
  IN  {p \in DOMAIN makers :
         /\ taker.kind \in {"limit", "post_only"} => WithinLimit(taker, p)
         /\ HasMatchable(makers[p], taker.account)}

BestMatchableMutant(levels, taker) ==
  LET prices == MatchablePrices(levels, taker)
  IN  CHOOSE p \in prices : \A q \in prices : p >= q

BestMatchable(levels, taker) ==
  LET prices == MatchablePrices(levels, taker)
  IN  CHOOSE p \in prices : \A q \in prices \ {p} : BetterFor(taker.side, p, q)

HasInterest(taker) ==
  IF taker.kind = "market_by_notional" THEN taker.quote > 0
                                       ELSE taker.remaining > 0

IsFilled(taker) ==
  IF taker.kind = "market_by_notional" THEN taker.quote = 0
                                       ELSE taker.remaining = 0

TradeQuantityMutant(available, taker, price) ==
  IF taker.kind = "market_by_notional"
    THEN IF available < taker.quote THEN available ELSE taker.quote
    ELSE taker.remaining

TradeQuantity(available, taker, price) ==
  LET wanted == IF taker.kind = "market_by_notional" THEN taker.quote \div price
                                                     ELSE taker.remaining
  IN  IF available < wanted THEN available ELSE wanted

ReduceTakerMutant(taker, price, quantity) == [taker EXCEPT !.remaining = @ - 1]

ReduceTaker(taker, price, quantity) ==
  IF taker.kind = "market_by_notional"
    THEN [taker EXCEPT !.quote = @ - price * quantity]
    ELSE [taker EXCEPT !.remaining = @ - quantity]

\* Post-only looks at the best opposite level, whoever owns it.
WouldCross(levels, order) ==
  \E p \in DOMAIN levels[Opposite(order.side)] : WithinLimit(order, p)

CrossesOwnLiquidity(levels, order) ==
  /\ order.account # NoAccount
  /\ \E p \in DOMAIN levels[Opposite(order.side)] :
       /\ WithinLimit(order, p)
       /\ \E maker \in ToSet(levels[Opposite(order.side)][p]) :
            maker.account = order.account

MatchableDepthMutant(levels, order) ==
  MapThenSumSet(LAMBDA maker : maker.remaining,
                RestingOn(levels, Opposite(order.side)))

\* The quantity resting where `order' may trade, its own orders left out.
MatchableDepth(levels, order) ==
  LET makers == {maker \in RestingOn(levels, Opposite(order.side)) :
                   /\ Matchable(maker, order.account)
                   /\ order.kind \in {"limit", "post_only"} =>
                        WithinLimit(order, maker.price)}
  IN  MapThenSumSet(LAMBDA maker : maker.remaining, makers)

CanFullyFill(levels, order) ==
  /\ order.kind # "market_by_notional"
  /\ MatchableDepth(levels, order) >= order.remaining

BlockedBySelfTradeMutant(levels, taker) == FALSE

\* A good-till-cancelled limit order may not rest across its own account's orders.
BlockedBySelfTrade(levels, taker) ==
  /\ taker.remaining > 0
  /\ taker.kind = "limit"
  /\ taker.tif = "gtc"
  /\ CrossesOwnLiquidity(levels, taker)

\* Does what is left of a taker vanish instead of resting?
Discards(levels, taker) ==
  \/ taker.kind \in {"market", "market_by_notional"}
  \/ taker.tif = "ioc"
  \/ BlockedBySelfTrade(levels, taker)

Rests(levels, taker) == ~IsFilled(taker) /\ ~Discards(levels, taker)

SettledStatus(levels, taker, traded) ==
  CASE IsFilled(taker)                            -> "filled"
    [] ~IsFilled(taker) /\ Discards(levels, taker) ->
         IF traded THEN "partially_filled" ELSE "rejected"
    [] Rests(levels, taker) ->
         IF taker.remaining = taker.original THEN "resting" ELSE "partially_filled"

(***************************************************************************)
(* Stop orders.                                                            *)
(***************************************************************************)

StopTriggered(order, price) ==
  /\ order.stop # None
  /\ IF order.side = "buy" THEN price >= order.stop ELSE price <= order.stop

TriggeredStops(stops, price) == {id \in DOMAIN stops : StopTriggered(stops[id], price)}

\* What a triggered stop executes as.
Activated(order) ==
  [order EXCEPT !.kind = CASE @ = "stop_limit"  -> "limit"
                           [] @ = "stop_market" -> "market"
                           [] OTHER             -> @]

(***************************************************************************)
(* The order history and the retained trades.                              *)
(***************************************************************************)

Entry(seq, status, remaining) ==
  [sequence |-> seq, status |-> status, remaining |-> remaining]

Record(history, id, entry) ==
  [x \in DOMAIN history \cup {id} |->
     IF x # id THEN history[x]
     ELSE IF id \in DOMAIN history THEN Append(history[id], entry) ELSE <<entry>>]

RecordStatus(history, seq, order, status) ==
  Record(history, order.id, Entry(seq, status, order.remaining))

RecordMakerFillMutant(history, seq, id, remaining) ==
  Record(history, id, Entry(seq, "filled", remaining))

RecordMakerFill(history, seq, id, remaining) ==
  Record(history, id,
         Entry(seq, IF remaining = 0 THEN "filled" ELSE "partially_filled", remaining))

RetainRecentMutant(trades, trade) ==
  Append(IF Len(trades) > MaxRecentTrades THEN Tail(trades) ELSE trades, trade)

RetainRecent(trades, trade) ==
  Append(IF Len(trades) = MaxRecentTrades THEN Tail(trades) ELSE trades, trade)

\* Adds or replaces one key of a map; removes one.
Put(f, key, value) ==
  [x \in DOMAIN f \cup {key} |-> IF x = key THEN value ELSE f[x]]

Without(f, key) == Restrict(f, DOMAIN f \ {key})
==============================================================================
