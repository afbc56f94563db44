------------------------------- MODULE AuditDb -------------------------------
(***************************************************************************)
(* The audit database (src/backend/src/db.rs): its five tables as one      *)
(* value, and what each call of the Database does to them.  SQLite and     *)
(* PostgreSQL have the same tables, statements and transactions; where the *)
(* two implementations are line for line alike, the SQLite one is named.   *)
(*                                                                         *)
(* A row id of event_journal or engine_snapshots is the row's place in the *)
(* sequence.  (PostgreSQL may skip ids after a transaction that rolled     *)
(* back; ids are only ever compared.)  Rows keep the columns the engine    *)
(* reads or writes again; time stamps and the text of a row are left out.  *)
(***************************************************************************)
EXTENDS BookState

\* orders: id -> row; trades: id -> trade; orderHistory: [order, entry] rows,
\* whose four columns are the key; journal and snapshots: rows, oldest first.
EmptyDb ==
  [orders |-> <<>>, trades |-> <<>>, orderHistory |-> {}, journal |-> <<>>,
   snapshots |-> <<>>]

(***************************************************************************)
(* Statements.                                                             *)
(***************************************************************************)

\* INSERT ... ON CONFLICT(id) DO UPDATE: the side, kind, prices, original
\* quantities and creation sequence of a row are those it was inserted with.
UpsertedRow(rows, order, status) ==
  [status |-> status,
   order |-> IF order.id \notin DOMAIN rows THEN order
             ELSE [rows[order.id].order EXCEPT !.account = order.account,
                                               !.tif = order.tif,
                                               !.remaining = order.remaining,
                                               !.quote = order.quote]]

UpsertOrder(db, order, status) ==
  [db EXCEPT !.orders = Put(@, order.id, UpsertedRow(@, order, status))]

\* INSERT OR IGNORE.
InsertTrade(rows, trade) ==
  IF trade.id \in DOMAIN rows THEN rows ELSE Put(rows, trade.id, trade)

\* INSERT OR IGNORE of each entry, and every column belongs to the key.
InsertOrderHistory(rows, id, entries) ==
  rows \cup {[order |-> id, entry |-> entry] : entry \in ToSet(entries)}

(***************************************************************************)
(* Writing calls: each is one transaction, or a single statement.          *)
(***************************************************************************)

RecordAckMutant(db, ack) == UpsertOrder(db, ack.order, ack.status)

RecordAck(db, ack) ==
  [UpsertOrder(db, ack.order, ack.status) EXCEPT
     !.trades = FoldLeft(InsertTrade, @, ack.trades)]

RecordCancel(db, order) == UpsertOrder(db, order, "cancelled")

RecordOrderHistory(db, id, entries) ==
  [db EXCEPT !.orderHistory = InsertOrderHistory(@, id, entries)]

RecordEvents(db, recorded) == [db EXCEPT !.journal = @ \o recorded]

RecordSnapshot(db, checkpoint) == [db EXCEPT !.snapshots = Append(@, checkpoint)]

(***************************************************************************)
(* Reading calls.                                                          *)
(***************************************************************************)

\* GET /trades: by sequence, newest first.
StoredTrades(db) ==
  LET rows == {db.trades[id] : id \in DOMAIN db.trades}
  IN  CHOOSE list \in [1..Cardinality(rows) -> rows] :
        \A i, j \in DOMAIN list : i < j => list[i].sequence > list[j].sequence

HistoryRows(db, id) == {row.entry : row \in {r \in db.orderHistory : r.order = id}}

LatestEventJournalId(db) == Len(db.journal)

\* Also `events', which reads them all: those after id 0.
EventsAfterId(db, id) == SubSeq(db.journal, id + 1, Len(db.journal))

\* None or one checkpoint, as a sequence.
LatestSnapshot(db) == IF db.snapshots = <<>> THEN <<>> ELSE <<Last(db.snapshots)>>

(***************************************************************************)
(* The calls of one closure handed to with_db, as data: they commit one    *)
(* after the other, each on its own.                                       *)
(***************************************************************************)

AckCall(ack)             == [call |-> "record_ack", ack |-> ack]
CancelCall(order)        == [call |-> "record_cancel", order |-> order]
HistoryCall(id, entries) == [call |-> "record_order_history", id |-> id, entries |-> entries]
EventsCall(recorded)     == [call |-> "record_events", events |-> recorded]

Perform(db, call) ==
  CASE call.call = "record_ack"           -> RecordAck(db, call.ack)
    [] call.call = "record_cancel"        -> RecordCancel(db, call.order)
    [] call.call = "record_order_history" -> RecordOrderHistory(db, call.id, call.entries)
    [] call.call = "record_events"        -> RecordEvents(db, call.events)

PerformAll(db, calls) == FoldLeft(Perform, db, calls)
==============================================================================
