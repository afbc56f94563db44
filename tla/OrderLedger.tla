----------------------------- MODULE OrderLedger -----------------------------
(***************************************************************************)
(* What an order book promises, whatever its data structures: a ledger of  *)
(* orders.  An order is entered once, under an id that is never used       *)
(* again.  While it is open, trades between two open orders take from both *)
(* what they trade, and never more than is left.  Once nothing is left, or *)
(* once it is closed, an order never trades and never reopens.             *)
(*                                                                         *)
(* Prices, sides, priorities, levels, histories and the distinction        *)
(* between resting, dormant and executing orders are the business of the   *)
(* implementation (OrderBook, by way of OrderBookRefinement).              *)
(***************************************************************************)
EXTENDS Naturals, Sequences

CONSTANTS
  Ids,    (* the ids orders can have                                       *)
  Sizes   (* what an order can be entered with: [amount, unit]             *)

VARIABLES
  entered,  (* id -> the size the order was entered with                   *)
  open,     (* id -> what is left of it; only open orders, more than 0     *)
  matches   (* the matches made: [maker, taker, quantity]                  *)

ledgerVars == <<entered, open, matches>>

Entered(id, size) == [x \in DOMAIN entered \cup {id} |-> IF x = id THEN size ELSE entered[x]]

\* The open orders once `id' has `left' left.
Leaving(orders, id, left) ==
  IF left = 0
    THEN [x \in DOMAIN orders \ {id} |-> orders[x]]
    ELSE [x \in DOMAIN orders \cup {id} |-> IF x = id THEN left ELSE orders[x]]

LedgerInit ==
  /\ entered = <<>>
  /\ open = <<>>
  /\ matches = <<>>

\* An order is refused at once or is open with all it was entered with.
Enter(id, size) ==
  /\ id \notin DOMAIN entered
  /\ entered' = Entered(id, size)
  /\ \/ UNCHANGED open
     \/ open' = Leaving(open, id, size.amount)
  /\ UNCHANGED matches

\* A maker is always measured in base units; a taker with a budget pays `cost'.
Match(maker, taker, quantity, cost) ==
  /\ maker # taker
  /\ entered[maker].unit = "base"
  /\ quantity \in 1..open[maker]
  /\ cost \in 1..open[taker]
  /\ entered[taker].unit = "base" => cost = quantity
  /\ open' = Leaving(Leaving(open, maker, open[maker] - quantity), taker,
                     open[taker] - cost)
  /\ matches' = Append(matches, [maker |-> maker, taker |-> taker, quantity |-> quantity])
  /\ UNCHANGED entered

\* Cancelled, or what is left of it discarded.
Close(id) ==
  /\ open' = Leaving(open, id, 0)
  /\ UNCHANGED <<entered, matches>>

LedgerNext ==
  \/ \E id \in Ids, size \in Sizes : Enter(id, size)
  \/ \E maker, taker \in DOMAIN open :
       \E quantity \in 1..open[maker], cost \in 1..open[taker] :
         Match(maker, taker, quantity, cost)
  \/ \E id \in DOMAIN open : Close(id)

LedgerSpec == LedgerInit /\ [][LedgerNext]_ledgerVars
==============================================================================
