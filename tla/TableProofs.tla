----------------------------- MODULE TableProofs -----------------------------
(***************************************************************************)
(* Theorems about what the tables of the audit database hold of the        *)
(* engine, once every client has its answer, however many handlers wrote.  *)
(***************************************************************************)
EXTENDS ServerProofs, MatchingProofs

(***************************************************************************)
(* What the tables may hold: trades of the tape under their ids, and       *)
(* entries of the histories.                                               *)
(***************************************************************************)

OnTape(trade) == trade.id \in DOMAIN tape /\ tape[trade.id] = trade

InHistory(id, entry) == id \in DOMAIN history /\ entry \in ToSet(history[id])

TradesTrue(rows) == \A id \in DOMAIN rows : id \in DOMAIN tape /\ rows[id] = tape[id]

TablesTrue(rows) ==
  /\ DOMAIN rows = Tables
  /\ TradesTrue(rows.trades)
  /\ \A row \in rows.orderHistory : InHistory(row.order, row.entry)

\* A call that writes only such rows.
CallTrue(call) ==
  /\ call.call \in RowCalls \cup {"record_events"}
  /\ call.call = "record_ack" =>
       /\ IsSequence(call.ack.trades)
       /\ \A i \in DOMAIN call.ack.trades : OnTape(call.ack.trades[i])
  /\ call.call = "record_order_history" =>
       \A entry \in ToSet(call.entries) : InHistory(call.id, entry)

KeepsTrades(base, acc) ==
  DOMAIN base \subseteq DOMAIN acc /\ (TradesTrue(base) => TradesTrue(acc))

HoldsTrade(trade, rows) == trade.id \in DOMAIN rows

Inserting == INSTANCE FoldProofs WITH Op <- InsertTrade, Rel <- KeepsTrades
Inserted  == INSTANCE FoldProofs WITH Op <- InsertTrade, Rel <- HoldsTrade

LEMMA InsertsTrades ==
  ASSUME NEW rows, NEW trades, IsSequence(trades),
         \A i \in DOMAIN trades : OnTape(trades[i])
  PROVE  LET after == FoldLeft(InsertTrade, rows, trades)
         IN  /\ KeepsTrades(rows, after)
             /\ \A i \in DOMAIN trades : trades[i].id \in DOMAIN after
<1> DEFINE after == FoldLeft(InsertTrade, rows, trades)
<1>1. PICK S : trades \in Seq(S)
  BY DEF IsSequence
<1>2. after = Inserting!Fold(rows, trades) /\ after = Inserted!Fold(rows, trades)
  BY DEF FoldLeft, MapThenFoldSet, Max, Inserting!Fold, Inserting!Recursion,
         Inserting!Greatest, Inserted!Fold, Inserted!Recursion, Inserted!Greatest
<1> HIDE DEF after
<1>3. KeepsTrades(rows, after)
  <2>1. \A acc : \A i \in DOMAIN trades :
          KeepsTrades(rows, acc) => KeepsTrades(rows, InsertTrade(acc, trades[i]))
    BY DEF KeepsTrades, InsertTrade, Put, TradesTrue, OnTape
  <2>2. KeepsTrades(rows, rows)
    BY DEF KeepsTrades
  <2> QED
    BY <1>1, <1>2, <2>1, <2>2, Inserting!FoldKeeps
<1>4. \A i \in DOMAIN trades : HoldsTrade(trades[i], after)
  <2>1. \A acc : \A i \in DOMAIN trades : HoldsTrade(trades[i], InsertTrade(acc, trades[i]))
    BY DEF HoldsTrade, InsertTrade, Put
  <2>2. \A acc : \A i, j \in DOMAIN trades :
          HoldsTrade(trades[i], acc) => HoldsTrade(trades[i], InsertTrade(acc, trades[j]))
    BY DEF HoldsTrade, InsertTrade, Put
  <2> QED
    BY <1>1, <1>2, <2>1, <2>2, Inserted!FoldReaches
<1> QED
  BY <1>3, <1>4 DEF HoldsTrade, after

(***************************************************************************)
(* What the calls of a handler do to the tables.                           *)
(***************************************************************************)

KeepsTables(base, acc) ==
  DOMAIN base = Tables =>
    /\ DOMAIN acc = Tables
    /\ DOMAIN base.trades \subseteq DOMAIN acc.trades
    /\ base.orderHistory \subseteq acc.orderHistory
    /\ TablesTrue(base) => TablesTrue(acc)

\* What `call' is to write is there.
Written(call, rows) ==
  DOMAIN rows = Tables =>
    /\ call.call = "record_ack" =>
         \A i \in DOMAIN call.ack.trades : call.ack.trades[i].id \in DOMAIN rows.trades
    /\ call.call = "record_order_history" =>
         \A entry \in ToSet(call.entries) :
           [order |-> call.id, entry |-> entry] \in rows.orderHistory

LEMMA CallWrites ==
  ASSUME NEW base, NEW call, CallTrue(call)
  PROVE  KeepsTables(base, Perform(base, call)) /\ Written(call, Perform(base, call))
<1> DEFINE after == Perform(base, call)
<1>1. CASE call.call = "record_ack"
  <2> DEFINE upserted == UpsertOrder(base, call.ack.order, call.ack.status)
             rows == FoldLeft(InsertTrade, upserted.trades, call.ack.trades)
  <2>1. /\ DOMAIN upserted = DOMAIN base
        /\ DOMAIN base = Tables => /\ upserted.trades = base.trades
                                   /\ upserted.orderHistory = base.orderHistory
    <3>1. \A orders : /\ DOMAIN [base EXCEPT !.orders = orders] = DOMAIN base
                      /\ DOMAIN base = Tables =>
                           /\ [base EXCEPT !.orders = orders].trades = base.trades
                           /\ [base EXCEPT !.orders = orders].orderHistory = base.orderHistory
      BY DEF Tables
    <3> QED
      BY <3>1 DEF UpsertOrder
  <2>2. after = [upserted EXCEPT !.trades = rows]
    BY <1>1 DEF Perform, RecordAck
  <2>3. /\ KeepsTrades(upserted.trades, rows)
        /\ \A i \in DOMAIN call.ack.trades : call.ack.trades[i].id \in DOMAIN rows
    <3>1. IsSequence(call.ack.trades) /\ \A i \in DOMAIN call.ack.trades : OnTape(call.ack.trades[i])
      BY <1>1 DEF CallTrue
    <3> HIDE DEF upserted
    <3> QED
      BY <3>1, InsertsTrades
  <2> HIDE DEF upserted, rows, after
  <2>4. /\ DOMAIN after = DOMAIN base
        /\ DOMAIN base = Tables => /\ after.trades = rows
                                   /\ after.orderHistory = base.orderHistory
    BY <2>1, <2>2 DEF Tables
  <2>5. KeepsTables(base, after)
    BY <2>1, <2>3, <2>4 DEF KeepsTables, KeepsTrades, TablesTrue
  <2>6. Written(call, after)
    BY <1>1, <2>3, <2>4 DEF Written
  <2> QED
    BY <2>5, <2>6 DEF after
<1>2. CASE call.call \in {"record_cancel", "record_events"}
  <2>1. /\ DOMAIN after = DOMAIN base
        /\ DOMAIN base = Tables => /\ after.trades = base.trades
                                   /\ after.orderHistory = base.orderHistory
    <3>1. CASE call.call = "record_cancel"
      <4>1. after = UpsertOrder(base, call.order, "cancelled")
        BY <3>1 DEF Perform, RecordCancel
      <4>2. \A orders : /\ DOMAIN [base EXCEPT !.orders = orders] = DOMAIN base
                        /\ DOMAIN base = Tables =>
                             /\ [base EXCEPT !.orders = orders].trades = base.trades
                             /\ [base EXCEPT !.orders = orders].orderHistory
                                  = base.orderHistory
        BY DEF Tables
      <4> HIDE DEF after
      <4> QED
        BY <4>1, <4>2 DEF UpsertOrder
    <3>2. CASE call.call = "record_events"
      <4>1. after = [base EXCEPT !.journal = @ \o call.events]
        BY <3>2 DEF Perform, RecordEvents
      <4> HIDE DEF after
      <4> QED
        BY <4>1 DEF Tables
    <3> QED
      BY <1>2, <3>1, <3>2
  <2> HIDE DEF after
  <2>2. KeepsTables(base, after)
    BY <2>1 DEF KeepsTables, TablesTrue
  <2>3. Written(call, after)
    BY <1>2 DEF Written
  <2> QED
    BY <2>2, <2>3 DEF after
<1>3. CASE call.call = "record_order_history"
  <2> DEFINE rows == InsertOrderHistory(base.orderHistory, call.id, call.entries)
  <2>1. after = [base EXCEPT !.orderHistory = rows]
    BY <1>3 DEF Perform, RecordOrderHistory
  <2>2. rows = base.orderHistory
                 \cup {[order |-> call.id, entry |-> entry] : entry \in ToSet(call.entries)}
    BY DEF InsertOrderHistory
  <2> HIDE DEF rows, after
  <2>3. /\ DOMAIN after = DOMAIN base
        /\ DOMAIN base = Tables => after.trades = base.trades /\ after.orderHistory = rows
    BY <2>1 DEF Tables
  <2>4. (\A row \in base.orderHistory : InHistory(row.order, row.entry))
          => \A row \in rows : InHistory(row.order, row.entry)
    BY <1>3, <2>2 DEF CallTrue
  <2>5. KeepsTables(base, after)
    BY <2>2, <2>3, <2>4 DEF KeepsTables, TablesTrue
  <2>6. Written(call, after)
    BY <1>3, <2>2, <2>3 DEF Written
  <2> QED
    BY <2>5, <2>6 DEF after
<1> QED
  BY <1>1, <1>2, <1>3 DEF CallTrue, RowCalls

LEMMA CallKeepsDomain ==
  ASSUME NEW base, NEW call, CallTrue(call)
  PROVE  DOMAIN Perform(base, call) = DOMAIN base
<1>1. \A rows, orders : /\ DOMAIN [base EXCEPT !.orders = orders] = DOMAIN base
                        /\ DOMAIN [base EXCEPT !.orderHistory = rows] = DOMAIN base
                        /\ DOMAIN [base EXCEPT !.journal = rows] = DOMAIN base
  OBVIOUS
<1>2. \A order, status : DOMAIN UpsertOrder(base, order, status) = DOMAIN base
  BY <1>1 DEF UpsertOrder
<1>3. \A one, rows : DOMAIN [one EXCEPT !.trades = rows] = DOMAIN one
  OBVIOUS
<1>4. CASE call.call = "record_ack"
  BY <1>2, <1>3, <1>4 DEF Perform, RecordAck
<1>5. CASE call.call = "record_cancel"
  BY <1>2, <1>5 DEF Perform, RecordCancel
<1>6. CASE call.call = "record_order_history"
  BY <1>1, <1>6 DEF Perform, RecordOrderHistory
<1>7. CASE call.call = "record_events"
  BY <1>1, <1>7 DEF Perform, RecordEvents
<1> QED
  BY <1>4, <1>5, <1>6, <1>7 DEF CallTrue, RowCalls

Performing == INSTANCE FoldProofs WITH Op <- Perform, Rel <- KeepsTables
Performed  == INSTANCE FoldProofs WITH Op <- Perform, Rel <- Written

LEMMA CallsWrite ==
  ASSUME NEW base, NEW calls, IsSequence(calls), \A i \in DOMAIN calls : CallTrue(calls[i])
  PROVE  /\ KeepsTables(base, PerformAll(base, calls))
         /\ \A i \in DOMAIN calls : Written(calls[i], PerformAll(base, calls))
<1> DEFINE after == PerformAll(base, calls)
<1>1. PICK S : calls \in Seq(S)
  BY DEF IsSequence
<1>2. after = Performing!Fold(base, calls) /\ after = Performed!Fold(base, calls)
  BY DEF PerformAll, FoldLeft, MapThenFoldSet, Max, Performing!Fold, Performing!Recursion,
         Performing!Greatest, Performed!Fold, Performed!Recursion, Performed!Greatest
<1> HIDE DEF after
<1>3. \A acc : \A i \in DOMAIN calls :
        /\ KeepsTables(acc, Perform(acc, calls[i]))
        /\ Written(calls[i], Perform(acc, calls[i]))
  BY CallWrites
<1>4. KeepsTables(base, after)
  <2>1. \A acc : \A i \in DOMAIN calls :
          KeepsTables(base, acc) => KeepsTables(base, Perform(acc, calls[i]))
    BY <1>3 DEF KeepsTables
  <2>2. KeepsTables(base, base)
    BY DEF KeepsTables
  <2> QED
    BY <1>1, <1>2, <2>1, <2>2, Performing!FoldKeeps
<1>5. \A i \in DOMAIN calls : Written(calls[i], after)
  <2>1. \A acc : \A i, j \in DOMAIN calls :
          Written(calls[i], acc) => Written(calls[i], Perform(acc, calls[j]))
    <3>1. SUFFICES ASSUME NEW acc, NEW i \in DOMAIN calls, NEW j \in DOMAIN calls,
                          Written(calls[i], acc)
                   PROVE  Written(calls[i], Perform(acc, calls[j]))
      OBVIOUS
    <3>2. DOMAIN Perform(acc, calls[j]) = DOMAIN acc
      BY CallKeepsDomain
    <3>3. KeepsTables(acc, Perform(acc, calls[j]))
      BY <1>3
    <3> QED
      BY <3>1, <3>2, <3>3 DEF Written, KeepsTables
  <2> QED
    BY <1>1, <1>2, <1>3, <2>1, Performed!FoldReaches
<1> QED
  BY <1>4, <1>5 DEF after

(***************************************************************************)
(* Until it is replaced, the book of the server is one that commands made. *)
(***************************************************************************)

\* Trades are numbered as they are made, and so are their sequence numbers.
TapeOK ==
  /\ nextTradeId = Len(tape) + 1
  /\ \A i \in DOMAIN tape : tape[i].id = i
  /\ \A i, j \in DOMAIN tape : i < j => tape[i].sequence < tape[j].sequence

EngineInv == BaseInv /\ PriorityOK /\ StopsOK /\ MassCancelInv /\ TapeOK

LEMMA TapeStep ==
  ASSUME BaseInv, StopsOK, TapeOK, [Next]_vars
  PROVE  TapeOK'
<1>1. CASE tape' = tape /\ nextTradeId' = nextTradeId
  BY <1>1 DEF TapeOK
<1>2. CASE FillBest
  <2>1. tape \in Seq(Trade) /\ sequence \in Nat
    BY BaseImplies DEF BaseFacts
  <2> DEFINE trade == NextTrade
  <2>2. /\ tape' = Append(tape, trade) /\ nextTradeId' = nextTradeId + 1
        /\ trade.id = nextTradeId /\ trade.sequence = sequence + 1
    BY <1>2 DEF FillBest, NextTrade
  <2> HIDE DEF trade
  <2>3. IsSequence(tape)
    BY <2>1 DEF IsSequence
  <2>4. /\ Len(tape) \in Nat /\ DOMAIN tape = 1..Len(tape)
        /\ Len(tape') = Len(tape) + 1 /\ tape'[Len(tape) + 1] = trade
        /\ IsSequence(tape')
        /\ \A i \in 1..Len(tape) : tape'[i] = tape[i]
    BY <2>2, <2>3, SequenceGrows
  <2>5. DOMAIN tape' = 1..(Len(tape) + 1)
    BY <2>4, SequenceGrows
  <2>6. \A i \in DOMAIN tape : tape[i].sequence \in Nat /\ tape[i].sequence <= sequence
    <3>1. \A i \in DOMAIN tape : tape[i] \in Trade
      BY <2>1, <2>4, ElementOfSeq
    <3> QED
      BY <3>1 DEF StopsOK, TapePast, Trade
  <2>7. \A i \in DOMAIN tape' : tape'[i].id = i
    BY <2>2, <2>4, <2>5 DEF TapeOK
  <2>8. \A i, j \in DOMAIN tape' : i < j => tape'[i].sequence < tape'[j].sequence
    <3> TAKE i, j \in DOMAIN tape'
    <3> HAVE i < j
    <3>1. i \in DOMAIN tape /\ tape'[i] = tape[i]
      BY <2>4, <2>5
    <3>2. CASE j \in DOMAIN tape
      BY <2>4, <3>1, <3>2 DEF TapeOK
    <3>3. CASE j = Len(tape) + 1
      BY <2>1, <2>2, <2>4, <2>6, <3>1, <3>3
    <3> QED
      BY <2>4, <2>5, <3>2, <3>3
  <2> QED
    BY <2>2, <2>4, <2>7, <2>8 DEF TapeOK
<1>3. CASE \E req \in Requests : Submit(req)
  BY <1>1, <1>3 DEF Submit, RejectInvalid, AcceptStop, RejectFok, BeginExecution
<1>4. CASE RejectPostOnly \/ Settle \/ ActivateStop \/ SkipStop
  BY <1>1, <1>4 DEF RejectPostOnly, Settle, ActivateStop, SkipStop, ghostVars, counterVars
<1>5. CASE \/ \E id \in ActiveIds : Cancel(id) \/ Replace(id)
           \/ \E id \in cancelling : MassCancelOne(id)
  BY <1>1, <1>5 DEF Cancel, Replace, MassCancelOne, ghostVars, counterVars
<1>6. CASE MassCancel \/ MassCancelDone \/ UNCHANGED vars
  BY <1>1, <1>6 DEF MassCancel, MassCancelDone, vars, ghostVars, counterVars
<1> QED
  BY <1>2, <1>3, <1>4, <1>5, <1>6 DEF Next, EngineStep, Command

LEMMA EngineBegins == Init => EngineInv
<1> SUFFICES ASSUME Init PROVE EngineInv
  OBVIOUS
<1>1. TapeOK
  BY DEF Init, TapeOK
<1> QED
  BY <1>1, BaseInit, PriorityInit, StopsInit, MassCancelInit DEF EngineInv

LEMMA EngineKeeps == EngineInv /\ [Next]_vars => EngineInv'
BY BaseStep, PriorityStep, StopsStep, MassCancelStep, TapeStep DEF EngineInv

\* A command about an order that is not active leaves no trace.
LEMMA EngineForgets ==
  ASSUME EngineInv, pc = "idle", OrderNotFound
  PROVE  EngineInv'
<1>1. /\ UNCHANGED <<nextOrderId, nextTradeId, sequence, levels, orderIndex, stopOrders,
                     history, recentTrades, pc, taker, fills, pending, replaced,
                     cancelling, cancelled, submitted, tape>>
      /\ events' = <<>> /\ pc = "idle" /\ pc' = "idle"
  BY DEF OrderNotFound, controlVars, counterVars, bookVars, ghostVars
<1>2. TypeInv'
  BY <1>1, BaseImplies DEF EngineInv, BaseFacts, TypeInv, TypeOK, ControlOK, ActiveIds
<1>3. IndexInv'
  BY <1>1, <1>2, BaseImplies, IndexStill DEF EngineInv, BaseFacts, IndexInv, TypeInv, TypeOK
<1>4. HistoryInv'
  BY <1>1, <1>3, BaseImplies
     DEF EngineInv, BaseFacts, HistoryInv, HistoryOK, HistoryTracksBook, Live, ActiveIds,
         Executing
<1>5. LedgerInv'
  BY <1>1, <1>3, BaseImplies DEF EngineInv, BaseFacts, LedgerInv, LedgerOK, ActiveOrders
<1>6. QuantityInv'
  BY <1>1, <1>4, <1>5, BaseImplies
     DEF EngineInv, BaseFacts, QuantityInv, QuantityOK, QuantityConserved,
         NotionalWithinBudget, IsNotional, Left, Filled, Spent, Executing
<1>7. AccountInv'
  BY <1>1, <1>2, BaseImplies
     DEF EngineInv, BaseFacts, AccountInv, AccountsOK, Known, ApartTrade
<1>8. PriorityOK'
  BY <1>1 DEF EngineInv, PriorityOK, QueuesInTurn, InTurn, Placed, Place, QueuedAt,
              StopsWait, TakerDue
<1>9. StopsOK'
  BY <1>1 DEF EngineInv, StopsOK, StopDue, TapePast, FillsFlow, EndsTaker
<1>10. MassCancelInv'
  BY <1>1, <1>4, EmptySeq
     DEF EngineInv, MassCancelInv, MassCancelOK, NoMassCancel, MassCancelComplete, ActiveIds
<1>11. TapeOK'
  BY <1>1 DEF EngineInv, TapeOK
<1> QED
  BY <1>6, <1>7, <1>8, <1>9, <1>10, <1>11 DEF EngineInv, BaseInv

(***************************************************************************)
(* What the worker does to the book.                                       *)
(***************************************************************************)

Legal(command) == command.op \in {"submit", "replace"} => command.req \in Requests

\* The command the worker runs.
Asked == handler[serving].command

CommandsOK ==
  /\ faults \in Nat
  /\ \A h \in Handlers : Legal(handler[h].command)
  /\ ~WorkerWaits /\ pc # "idle" => Asked.op \in {"submit", "replace", "mass_cancel"}

LEMMA StartBusy ==
  ASSUME NEW command, Start(command), pc = "idle", pc' # "idle"
  PROVE  command.op \in {"submit", "replace", "mass_cancel"}
<1>1. CASE \E id : Cancel(id)
  BY <1>1 DEF Cancel, Answer
<1>2. CASE OrderNotFound
  BY <1>2 DEF OrderNotFound, controlVars
<1>3. CASE \E book : Load(book)
  BY <1>3 DEF Load, controlVars
<1>4. CASE UNCHANGED vars
  BY <1>4 DEF vars, controlVars
<1> QED
  BY <1>1, <1>2, <1>3, <1>4 DEF Start

LEMMA CommandsInit == ServerInit => CommandsOK
BY DEF ServerInit, CommandsOK, Legal, Free, NoCommand, WorkerWaits

\* No handler gets a command that no request could be, and the worker goes on with its own.
LEMMA CommandsKept ==
  ASSUME CommandsOK, \A h \in Handlers : Legal(handler'[h].command),
         faults' = faults \/ faults' = faults + 1,
         \/ pc' = "idle" \/ WorkerWaits'
         \/ ~WorkerWaits /\ pc' = pc /\ serving' = serving /\ Asked' = Asked
  PROVE  CommandsOK'
BY DEF CommandsOK

LEMMA CommandsStep == ControlInv /\ CommandsOK /\ [ServerNext]_allVars => CommandsOK'
<1> SUFFICES ASSUME ControlInv, CommandsOK, [ServerNext]_allVars PROVE CommandsOK'
  OBVIOUS
<1>0. /\ DOMAIN handler = Handlers
      /\ \A h \in Handlers : DOMAIN handler[h] = Fields /\ Legal(handler[h].command)
      /\ WorkerWaits => pc = "idle"
  BY DEF ControlInv, HandlersOK, ServingOK, Shaped, CommandsOK
<1>1. Legal(Free.command)
  BY DEF Legal, Free, NoCommand
<1>2. CASE UNCHANGED allVars
  BY <1>2 DEF CommandsOK, WorkerWaits, Asked, allVars, serverVars, vars, controlVars
<1>3. CASE Serve
  <2> DEFINE h == queue[1]
  <2>1. h \in Handlers /\ Head(queue) = h /\ pc = "idle"
    BY <1>3 DEF ControlInv, QueueOK, ServingOK, Serve
  <2>2. /\ handler' = [handler EXCEPT ![h].phase = "running",
                                      ![h].orders = Condemned(handler[h].command)]
        /\ serving' = h /\ Start(handler[h].command) /\ faults' = faults
    BY <1>3, <2>1 DEF Serve
  <2> HIDE DEF h
  <2>3. \A other \in Handlers : handler'[other].command = handler[other].command
    BY <1>0, <2>1, <2>2 DEF Fields
  <2>4. pc' # "idle" => handler'[h].command.op \in {"submit", "replace", "mass_cancel"}
    BY <2>1, <2>2, <2>3, StartBusy
  <2> QED
    BY <1>0, <2>2, <2>3, <2>4 DEF CommandsOK, Asked
<1>4. CASE Work
  <2>1. UNCHANGED serverVars /\ ~WorkerWaits /\ pc # "idle"
    BY <1>4, WorkPhase DEF Work
  <2> QED
    BY <2>1 DEF CommandsOK, Asked, WorkerWaits, serverVars
<1>5. CASE Respond \/ AnswerUnheard
  <2>1. /\ serving \in Handlers /\ Shaped(handler[serving])
        /\ handler[serving].phase = "running"
    <3>1. ~WorkerWaits
      BY <1>5 DEF Respond, AnswerUnheard
    <3> QED
      BY <3>1 DEF ControlInv, ServingOK, HandlersOK, WorkerWaits
  <2>2. /\ serving' = NoHandler /\ faults' \in {faults, faults + 1}
    BY <1>5 DEF Respond, AnswerUnheard, Fault
  <2>3. \A other \in Handlers : Legal(handler'[other].command)
    <3>1. CASE Respond
      <4>1. handler' = [handler EXCEPT ![serving] = Answered(handler[serving])]
        BY <3>1 DEF Respond
      <4>2. Legal(Answered(handler[serving]).command)
        BY <1>0, <1>1, <2>1, AnsweredShaped
      <4> QED
        BY <1>0, <4>1, <4>2
    <3>2. CASE AnswerUnheard
      BY <1>0, <1>1, <3>2 DEF AnswerUnheard, Release
    <3> QED
      BY <1>5, <3>1, <3>2
  <2> QED
    BY <2>2, <2>3, CommandsKept DEF WorkerWaits
<1>6. ASSUME NEW h \in Handlers, Receive(h)
      PROVE  CommandsOK'
  <2>1. PICK command \in ArrivingCommands :
          handler' = [handler EXCEPT
                        ![h].command = command,
                        ![h].phase = IF command.op = "replay" THEN "loading"
                                                              ELSE "received"]
    BY <1>6 DEF Receive
  <2>2. Legal(command)
    BY DEF Legal, ArrivingCommands, SubmitCommand, CancelCommand, ReplaceCommand,
           MassCancelCommand, CheckpointCommand, ReplayCommand, StreamCommand, RestoreCommand
  <2>3. \A other \in Handlers :
          handler'[other].command = IF other = h THEN command ELSE handler[other].command
    BY <1>0, <2>1 DEF Fields
  <2>4. faults' = faults /\ WorkerWaits'
    BY <1>6 DEF Receive, WorkerWaits
  <2> QED
    BY <1>0, <2>2, <2>3, <2>4, CommandsKept
<1>7. ASSUME NEW h \in Handlers,
             \/ Persist(h) \/ Publish(h) \/ CoverJournal(h) \/ SaveCheckpoint(h)
             \/ PersistFails(h) \/ DbFails(h)
      PROVE  CommandsOK'
  <2>1. faults' \in {faults, faults + 1} /\ WorkerWaits'
    BY <1>7 DEF Persist, Publish, CoverJournal, SaveCheckpoint, PersistFails, DbFails, Fault,
                WorkerWaits
  <2>2. \A other \in Handlers :
          handler'[other].command = handler[other].command \/ handler'[other] = Free
    <3>1. CASE Persist(h) \/ CoverJournal(h)
      BY <1>0, <3>1 DEF Persist, CoverJournal, Fields
    <3>2. CASE Publish(h)
      BY <1>0, <3>2 DEF Publish, Fields
    <3>3. CASE SaveCheckpoint(h) \/ PersistFails(h) \/ DbFails(h)
      BY <1>0, <3>3 DEF SaveCheckpoint, PersistFails, DbFails, Release
    <3> QED
      BY <1>7, <3>1, <3>2, <3>3
  <2> QED
    BY <1>0, <1>1, <2>1, <2>2, CommandsKept
<1>8. ASSUME NEW h \in Handlers, LoadCheckpoint(h) \/ ReadEvents(h)
      PROVE  CommandsOK'
  <2>1. PICK record : Goes(h, record) /\ handler' = [handler EXCEPT ![h] = record]
    BY <1>8, HandlerGoes DEF Goes
  <2>2. handler[h].command.op = "replay"
    BY <1>8 DEF LoadCheckpoint, ReadEvents, ControlInv, HandlersOK, Shaped
  <2>3. handler'[h].command.op = "replay"
    <3>1. PICK command : handler'[h].command = command /\ command.op = handler[h].command.op
      <4>1. CASE LoadCheckpoint(h)
        <5> DEFINE next == [handler[h].command EXCEPT !.checkpoint = LatestSnapshot(db)]
        <5>1. next.op = handler[h].command.op
          BY DEF ControlInv, HandlersOK, Shaped
        <5> HIDE DEF next
        <5>2. handler'[h].command = next
          BY <1>0, <4>1 DEF LoadCheckpoint, Fields, next
        <5> QED
          BY <5>1, <5>2
      <4>2. CASE ReadEvents(h)
        <5> DEFINE next == [handler[h].command EXCEPT
                              !.events = EventsAfterId(db,
                                           CoveredBy(handler[h].command.checkpoint))]
        <5>1. next.op = handler[h].command.op
          BY DEF ControlInv, HandlersOK, Shaped
        <5> HIDE DEF next
        <5>2. handler'[h].command = next
          BY <1>0, <4>2 DEF ReadEvents, Fields, next
        <5> QED
          BY <5>1, <5>2
      <4> QED
        BY <1>8, <4>1, <4>2
    <3> QED
      BY <2>2, <3>1
  <2>4. \A other \in Handlers : other # h => handler'[other] = handler[other]
    BY <1>0, <2>1
  <2>5. faults' = faults /\ WorkerWaits'
    BY <1>8 DEF LoadCheckpoint, ReadEvents, WorkerWaits
  <2>6. \A other \in Handlers : Legal(handler'[other].command)
    BY <1>0, <2>3, <2>4 DEF Legal
  <2> QED
    BY <2>5, <2>6, CommandsKept
<1>9. ASSUME NEW h \in Handlers, Enqueue(h) \/ Abandon(h) \/ SetKillSwitch(h)
      PROVE  CommandsOK'
  <2>1. /\ faults' = faults /\ pc' = pc /\ serving' = serving
        /\ ~WorkerWaits => Abandon(h)
    BY <1>9 DEF Enqueue, Abandon, SetKillSwitch, vars, controlVars
  <2>2. \A other \in Handlers :
          handler'[other].command = handler[other].command \/ handler'[other] = Free
    BY <1>0, <1>9 DEF Enqueue, Abandon, SetKillSwitch, To, Release, Fields
  <2>3. Abandon(h) => \A other \in Handlers : other # h => handler'[other] = handler[other]
    BY <1>0 DEF Abandon, Release
  <2>4. Abandon(h) /\ ~WorkerWaits => serving # h /\ serving \in Handlers
    BY DEF Abandon, ControlInv, ServingOK, WorkerWaits
  <2>5. ~WorkerWaits => Asked' = Asked
    BY <2>1, <2>3, <2>4 DEF Asked
  <2> QED
    BY <1>0, <1>1, <2>1, <2>2, <2>5, CommandsKept
<1>10. CASE Panic \/ Crash
  <2>1. /\ faults' = faults + 1 /\ WorkerWaits'
        /\ \A h \in Handlers : handler'[h] = handler[h] \/ handler'[h] = Free
    BY <1>10 DEF Panic, Crash, Fault, WorkerWaits
  <2> QED
    BY <1>0, <1>1, <2>1, CommandsKept
<1> QED
  BY <1>2, <1>3, <1>4, <1>5, <1>6, <1>7, <1>8, <1>9, <1>10
     DEF ServerNext, Worker, HandlerStep, Arrival, Failure, Finished

\* As long as the book is not replaced, it takes the steps of commands and no others.
LEMMA EngineMoves ==
  ASSUME ControlInv, CommandsOK, [ServerNext]_allVars, ~reloaded'
  PROVE  /\ ~reloaded
         /\ [Next]_vars \/ (pc = "idle" /\ OrderNotFound)
<1>1. CASE UNCHANGED allVars
  BY <1>1 DEF allVars, serverVars
<1>2. CASE Serve
  <2> DEFINE command == handler[queue[1]].command
  <2>1. queue[1] \in Handlers /\ Head(queue) = queue[1] /\ pc = "idle"
    BY <1>2 DEF ControlInv, QueueOK, ServingOK, Serve
  <2>2. Start(command) /\ reloaded' = (reloaded \/ command.op \in Reloads) /\ Legal(command)
    BY <1>2, <2>1 DEF Serve, CommandsOK
  <2> HIDE DEF command
  <2> QED
    BY <2>1, <2>2 DEF Start, Legal, Reloads, Next, Command
<1>3. CASE Work
  <2>1. pc = "replace" => handler[serving].command.req \in Requests
    BY <1>3 DEF ControlInv, ServingOK, CommandsOK, Work, Legal, WorkerWaits
  <2> QED
    BY <1>3, <2>1 DEF Work, serverVars, Next, EngineStep
<1>4. CASE Respond \/ AnswerUnheard \/ Panic
  BY <1>4 DEF Respond, AnswerUnheard, Panic
<1>5. ASSUME NEW h \in Handlers,
             \/ HandlerStep(h) \/ Arrival(h) \/ PersistFails(h) \/ DbFails(h)
      PROVE  UNCHANGED vars /\ reloaded' = reloaded
  BY <1>5 DEF HandlerStep, Arrival, Receive, SetKillSwitch, Enqueue, Abandon, Persist,
              Publish, CoverJournal, SaveCheckpoint, LoadCheckpoint, ReadEvents,
              PersistFails, DbFails
<1>6. ~Crash
  BY DEF Crash
<1> QED
  BY <1>1, <1>2, <1>3, <1>4, <1>5, <1>6 DEF ServerNext, Worker, Failure, Finished

CommandedInv == JournalInv /\ CommandsOK /\ (~reloaded => EngineInv)

LEMMA CommandedInit == ServerInit => CommandedInv
BY JournalInit, CommandsInit, EngineBegins DEF CommandedInv, ServerInit

LEMMA CommandedStep == CommandedInv /\ [ServerNext]_allVars => CommandedInv'
<1> SUFFICES ASSUME CommandedInv, [ServerNext]_allVars PROVE CommandedInv'
  OBVIOUS
<1>1. JournalInv' /\ CommandsOK'
  BY JournalStep, CommandsStep DEF CommandedInv, JournalInv
<1>2. ASSUME ~reloaded' PROVE EngineInv'
  BY <1>2, EngineMoves, EngineKeeps, EngineForgets DEF CommandedInv, JournalInv
<1> QED
  BY <1>1, <1>2 DEF CommandedInv

(***************************************************************************)
(* What a command adds to the histories.                                   *)
(***************************************************************************)

\* `after' is `before' with more entries about `id' and nothing else.
AddsRows(before, after, id) ==
  /\ DOMAIN after = DOMAIN before \cup {id}
  /\ \A x \in DOMAIN after : IsSequence(after[x])
  /\ \A x \in DOMAIN before \ {id} : after[x] = before[x]
  /\ id \in DOMAIN before =>
       /\ ToSet(before[id]) \subseteq ToSet(after[id])
       /\ before[id] # <<>> => after[id] # <<>> /\ after[id][1] = before[id][1]

LEMMA RecordAdds ==
  ASSUME NEW book, \A x \in DOMAIN book : IsSequence(book[x]), NEW id, NEW entry
  PROVE  AddsRows(book, Record(book, id, entry), id)
<1> DEFINE after == Record(book, id, entry)
<1>1. /\ DOMAIN after = DOMAIN book \cup {id}
      /\ \A x \in DOMAIN book \ {id} : after[x] = book[x]
      /\ after[id] = IF id \in DOMAIN book THEN Append(book[id], entry) ELSE <<entry>>
  BY DEF Record
<1> HIDE DEF after
<1>2. CASE id \in DOMAIN book
  <2>1. /\ IsSequence(after[id]) /\ Len(book[id]) \in Nat /\ Len(after[id]) = Len(book[id]) + 1
        /\ DOMAIN book[id] = 1..Len(book[id])
        /\ \A i \in 1..Len(book[id]) : after[id][i] = book[id][i]
    BY <1>1, <1>2, SequenceGrows
  <2>2. DOMAIN after[id] = 1..(Len(book[id]) + 1)
    BY <2>1, SequenceGrows
  <2>3. ToSet(book[id]) \subseteq ToSet(after[id])
    BY <2>1, <2>2 DEF ToSet
  <2>4. book[id] # <<>> => after[id] # <<>> /\ after[id][1] = book[id][1]
    <3>1. book[id] # <<>> => 1 \in 1..Len(book[id])
      BY <1>2, <2>1, EmptySeq DEF IsSequence
    <3> QED
      BY <2>1, <2>2, <3>1
  <2> QED
    BY <1>1, <1>2, <2>1, <2>3, <2>4 DEF AddsRows, after
<1>3. CASE id \notin DOMAIN book
  BY <1>1, <1>3, ShortSequences DEF AddsRows, after
<1> QED
  BY <1>2, <1>3

LEMMA AddsTwice ==
  ASSUME NEW one, NEW two, NEW three, NEW id, AddsRows(one, two, id), AddsRows(two, three, id)
  PROVE  AddsRows(one, three, id)
BY DEF AddsRows

HistoryGrows ==
  /\ DOMAIN history \subseteq DOMAIN history'
  /\ \A id, entry : InHistory(id, entry) => InHistory(id, entry)'

LEMMA HistoryAdds ==
  ASSUME HistoryOK, NEW id, AddsRows(history, history', id)
  PROVE  /\ HistoryGrows
         /\ NoneTurnedAway' => NoneTurnedAway
         /\ \A x, entry : InHistory(x, entry)' => InHistory(x, entry) \/ x = id
         /\ id \in DOMAIN history'
<1>1. HistoryGrows
  BY DEF HistoryGrows, InHistory, AddsRows
<1>2. NoneTurnedAway' => NoneTurnedAway
  BY DEF NoneTurnedAway, AddsRows, HistoryOK
<1>3. \A x, entry : InHistory(x, entry)' => InHistory(x, entry) \/ x = id
  BY DEF InHistory, AddsRows
<1> QED
  BY <1>1, <1>2, <1>3 DEF AddsRows

(***************************************************************************)
(* What the running command will write once it is done: the trades it has  *)
(* made, and the histories of the orders it has touched.                   *)
(***************************************************************************)

MakersOf(trades) == {trades[i].maker : i \in DOMAIN trades}

\* The order that executes, the one acknowledged first, and those either traded with.
OrderDirty(id) ==
  \/ pc = "match" /\ id = taker.id
  \/ id \in MakersOf(fills)
  \/ events # <<>> /\ id \in {events[1].ack.order.id} \cup MakersOf(events[1].ack.trades)

Dirty(command, id) ==
  \/ command.op \in {"submit", "replace"} /\ OrderDirty(id)
  \/ command.op = "replace" /\ id = command.id /\ (pc # "idle" \/ events # <<>>)
  \/ command.op = "cancel" /\ id = command.id /\ events # <<>>
  \/ /\ command.op = "mass_cancel"
     /\ id \in ToSet(cancelled) \/ (events # <<>> /\ id \in ToSet(events[1].ids))

OrderHeld(trade) ==
  \/ \E i \in DOMAIN fills : fills[i] = trade
  \/ events # <<>> /\ \E i \in DOMAIN events[1].ack.trades : events[1].ack.trades[i] = trade

TradeHeld(command, trade) == command.op \in {"submit", "replace"} /\ OrderHeld(trade)

\* No trade is reported that was not made, and no order that has no history.
RunningOK(command) ==
  /\ pc \in {"match", "replace", "mass_cancel"} => events = <<>>
  /\ pc = "trigger" => events # <<>>
  /\ command.op \in {"submit", "replace"} => \A trade : OrderHeld(trade) => OnTape(trade)
  /\ \A id : Dirty(command, id) => id \in DOMAIN history

TapeGrows == \A trade : OnTape(trade) => OnTape(trade)'

\* What is new in the histories and on the tape is the command's.
Recorded(command) ==
  \A id, entry : InHistory(id, entry)' => InHistory(id, entry) \/ Dirty(command, id)'

Taped(command) == \A trade : OnTape(trade)' => OnTape(trade) \/ TradeHeld(command, trade)'

Begins(command) ==
  /\ HistoryGrows /\ TapeGrows
  /\ RunningOK(command)'
  /\ Taped(command)
  /\ NoneTurnedAway' => NoneTurnedAway /\ Recorded(command)

Advances(command) ==
  /\ Begins(command)
  /\ \A trade : TradeHeld(command, trade) => TradeHeld(command, trade)'
  /\ NoneTurnedAway' => \A id : Dirty(command, id) => Dirty(command, id)'

LEMMA HistoryLists == EngineInv => \A id \in DOMAIN history : IsSequence(history[id])
BY BaseImplies DEF EngineInv, BaseFacts, IsMap, IsSequence

LEMMA StatusAdds ==
  ASSUME EngineInv, NEW seq, NEW order, NEW status
  PROVE  AddsRows(history, RecordStatus(history, seq, order, status), order.id)
BY HistoryLists, RecordAdds DEF RecordStatus

LEMMA NoMakers == MakersOf(<<>>) = {}
BY DEF MakersOf

\* What a submission leaves the engine with, whatever becomes of it.
SubmitDone ==
  /\ HistoryGrows /\ tape' = tape
  /\ fills' = <<>> /\ pc' \in {"idle", "match"}
  /\ pc' = "match" => events' = <<>>
  /\ \A trade : ~OrderHeld(trade)'
  /\ \A id : OrderDirty(id)' => id \in DOMAIN history'
  /\ NoneTurnedAway' =>
       /\ NoneTurnedAway
       /\ pc' # "idle" \/ events' # <<>>
       /\ \A id, entry : InHistory(id, entry)' => InHistory(id, entry) \/ OrderDirty(id)'

LEMMA SubmitDoes ==
  ASSUME EngineInv, NEW req \in Requests, Submit(req)
  PROVE  SubmitDone
<1> DEFINE id == nextOrderId
           order == Incoming(req)
<1>1. /\ HistoryOK /\ pc \in {"idle", "replace"} /\ fills = <<>>
      /\ order.id = id /\ id \notin DOMAIN history
  <2>1. BaseFacts
    BY BaseImplies DEF EngineInv
  <2>2. pc \in {"idle", "replace"}
    BY DEF Submit
  <2>3. order.id = id
    BY <2>1, IncomingType DEF BaseFacts
  <2>4. HistoryOK /\ id \in Nat /\ \A x \in DOMAIN history : x \in Nat
    BY <2>1 DEF BaseFacts, HistoryInv, IsMap
  <2>5. id \notin DOMAIN history
    BY <2>4 DEF HistoryOK
  <2> QED
    BY <2>2, <2>3, <2>4, <2>5 DEF EngineInv, StopsOK, FillsFlow
<1> HIDE DEF id, order
<1>2. CASE RejectInvalid(req)
  <2>1. /\ history' = RecordStatus(history, sequence + 1, order, "rejected")
        /\ pc' = "idle" /\ events' = <<>> /\ fills' = fills /\ tape' = tape /\ cancelled' = <<>>
    BY <1>2 DEF RejectInvalid, Answer, order
  <2>2. AddsRows(history, history', id)
    BY <1>1, <2>1, StatusAdds
  <2>3. ~NoneTurnedAway'
    <3>1. id \in DOMAIN history' /\ history'[id] = <<Entry(sequence + 1, "rejected", order.remaining)>>
      BY <1>1, <2>1 DEF RecordStatus, Record
    <3>2. history'[id][1].status = "rejected"
      BY <3>1 DEF Entry
    <3> QED
      BY <3>1, <3>2 DEF NoneTurnedAway
  <2> QED
    BY <1>1, <2>1, <2>2, <2>3, HistoryAdds, NoMakers DEF SubmitDone, OrderHeld, OrderDirty
<1>3. ASSUME NEW status, AcceptAs(req, status), tape' = tape
      PROVE  SubmitDone
  <2> DEFINE one == RecordStatus(history, sequence + 1, order, "accepted")
             ack == Ack(order, status, <<>>)
  <2>1. /\ history' = RecordStatus(one, sequence + 1, order, status)
        /\ events' = AckEvents(ack, sequence + 1)
        /\ pc' = "idle" /\ fills' = fills /\ cancelled' = <<>>
    BY <1>3 DEF AcceptAs, Answer, order
  <2>2. AddsRows(history, one, id)
    BY <1>1, StatusAdds
  <2>3. \A x \in DOMAIN one : IsSequence(one[x])
    BY <2>2 DEF AddsRows
  <2> HIDE DEF one
  <2>4. AddsRows(one, history', id)
    BY <1>1, <2>1, <2>3, RecordAdds DEF RecordStatus
  <2>5. AddsRows(history, history', id)
    BY <2>2, <2>4, AddsTwice
  <2>6. events' # <<>> /\ events'[1].ack = ack
    BY <2>1, ShortSequences, AckEventsReport
  <2>7. ack.order.id = id /\ ack.trades = <<>>
    BY <1>1 DEF Ack
  <2> HIDE DEF ack
  <2>8. \A x : OrderDirty(x)' <=> x = id
    BY <1>1, <2>1, <2>6, <2>7, NoMakers DEF OrderDirty
  <2>9. \A trade : ~OrderHeld(trade)'
    BY <1>1, <2>1, <2>6, <2>7 DEF OrderHeld
  <2> QED
    BY <1>1, <1>3, <2>1, <2>5, <2>6, <2>8, <2>9, HistoryAdds DEF SubmitDone
<1>4. CASE BeginExecution(req)
  <2>1. /\ history' = RecordStatus(history, sequence + 1, order, "accepted")
        /\ pc' = "match" /\ events' = <<>> /\ fills' = <<>> /\ tape' = tape
        /\ taker' = order /\ cancelled' = cancelled
    BY <1>4 DEF BeginExecution, order
  <2>2. AddsRows(history, history', id)
    BY <1>1, <2>1, StatusAdds
  <2>3. \A x : OrderDirty(x)' <=> x = id
    BY <1>1, <2>1, NoMakers DEF OrderDirty
  <2>4. \A trade : ~OrderHeld(trade)'
    BY <2>1 DEF OrderHeld
  <2> QED
    BY <1>1, <2>1, <2>2, <2>3, <2>4, HistoryAdds DEF SubmitDone
<1> QED
  BY <1>2, <1>3, <1>4 DEF Submit, AcceptStop, RejectFok

LEMMA TapeSame == tape' = tape => TapeGrows /\ \A command : Taped(command)
BY DEF TapeGrows, Taped, OnTape

LEMMA HistorySame ==
  history' = history =>
    HistoryGrows /\ (NoneTurnedAway' => NoneTurnedAway) /\ \A command : Recorded(command)
BY DEF HistoryGrows, NoneTurnedAway, Recorded, InHistory

LEMMA StartBegins ==
  ASSUME EngineInv, pc = "idle", NEW command, Legal(command), Start(command),
         command.op \notin Reloads
  PROVE  Begins(command)
<1>1. fills = <<>> /\ cancelled = <<>> /\ IndexInv /\ HistoryOK
  BY BaseImplies
     DEF EngineInv, BaseFacts, StopsOK, FillsFlow, MassCancelInv, MassCancelOK, HistoryInv
<1>2. CASE command.op = "submit"
  <2>1. SubmitDone
    BY <1>2, SubmitDoes DEF Start, Legal
  <2>2. \A id : Dirty(command, id)' <=> OrderDirty(id)'
    BY <1>2 DEF Dirty
  <2>3. \A trade : ~TradeHeld(command, trade)'
    BY <2>1 DEF SubmitDone, TradeHeld
  <2>4. RunningOK(command)'
    BY <2>1, <2>2 DEF SubmitDone, RunningOK
  <2>5. NoneTurnedAway' => NoneTurnedAway /\ Recorded(command)
    BY <2>1, <2>2 DEF SubmitDone, Recorded
  <2> QED
    BY <2>1, <2>4, <2>5, TapeSame DEF SubmitDone, Begins
<1>3. ASSUME command.op \in {"cancel", "replace"}, command.id \in ActiveIds,
             CancelOrder(command.id), fills' = fills, tape' = tape,
             \/ command.op = "cancel" /\ pc' = "idle" /\ (Cancelled(command.id) # {} => events' # <<>>)
             \/ /\ command.op = "replace" /\ (Cancelled(command.id) # {} => pc' = "replace")
                /\ events' = <<>>
      PROVE  Begins(command)
  <2>1. PICK order \in ActiveOrders :
          /\ order.id = command.id /\ Cancelled(command.id) = {order}
          /\ history' = RecordStatus(history, sequence + 1, order, "cancelled")
    BY <1>1, <1>3, ActiveCancelOrder
  <2>2. AddsRows(history, history', command.id)
    BY <2>1, StatusAdds
  <2>3. /\ pc' \in {"replace", "mass_cancel", "match"} => events' = <<>>
        /\ pc' # "trigger"
    BY <1>3, <2>1
  <2>4. \A id : Dirty(command, id)' <=> id = command.id
    BY <1>1, <1>3, <2>1, NoMakers DEF Dirty, OrderDirty
  <2>5. command.op \in {"submit", "replace"} => \A trade : ~OrderHeld(trade)'
    BY <1>1, <1>3 DEF OrderHeld
  <2>6. HistoryGrows /\ (NoneTurnedAway' => NoneTurnedAway) /\ Recorded(command)
        /\ command.id \in DOMAIN history'
    BY <1>1, <2>2, <2>4, HistoryAdds DEF Recorded
  <2>7. RunningOK(command)'
    BY <2>3, <2>4, <2>5, <2>6 DEF RunningOK
  <2> QED
    BY <1>3, <2>6, <2>7, TapeSame DEF Begins
<1>4. CASE command.op = "cancel" /\ command.id \in ActiveIds /\ Cancel(command.id)
  <2>1. /\ CancelOrder(command.id) /\ fills' = fills /\ tape' = tape /\ pc' = "idle"
        /\ Cancelled(command.id) # {} =>
             events' = <<CancelEvent(command.id), BookEvent(sequence + 1)>>
    BY <1>4 DEF Cancel, Answer, ghostVars
  <2> QED
    BY <1>3, <1>4, <2>1, ShortSequences
<1>5. CASE command.op = "replace" /\ command.id \in ActiveIds /\ Replace(command.id)
  BY <1>3, <1>5 DEF Replace, ghostVars
<1>6. ASSUME history' = history, tape' = tape, fills' = fills,
             pc' \in {"idle", "mass_cancel"}, pc' = "mass_cancel" => events' = <<>>,
             \/ command.op \in {"cancel", "replace"} /\ pc' = "idle" /\ events' = <<>>
             \/ command.op = "mass_cancel" /\ events' = <<>> /\ cancelled' = cancelled
             \/ command.op \in {"checkpoint", "stream"}
      PROVE  Begins(command)
  <2>1. \A id : ~Dirty(command, id)'
    <3>1. ToSet(<<>>) = {}
      BY DEF ToSet
    <3>2. cancelled' = cancelled => \A id : id \notin ToSet(cancelled')
      BY <1>1, <3>1
    <3> QED
      BY <1>1, <1>6, <3>2, NoMakers DEF Dirty, OrderDirty
  <2>2. command.op \in {"submit", "replace"} => \A trade : ~OrderHeld(trade)'
    BY <1>1, <1>6 DEF OrderHeld
  <2>3. RunningOK(command)'
    BY <1>6, <2>1, <2>2 DEF RunningOK
  <2> QED
    BY <1>6, <2>3, TapeSame, HistorySame DEF Begins
<1>7. CASE command.op \in {"cancel", "replace"} /\ OrderNotFound
  BY <1>6, <1>7 DEF OrderNotFound, controlVars, ghostVars
<1>8. CASE command.op = "mass_cancel" /\ MassCancel
  BY <1>6, <1>8 DEF MassCancel, ghostVars
<1>9. CASE command.op \in {"checkpoint", "stream"} /\ UNCHANGED vars
  BY <1>6, <1>9 DEF vars, controlVars, ghostVars
<1> QED
  BY <1>2, <1>4, <1>5, <1>7, <1>8, <1>9 DEF Start, Reloads

(***************************************************************************)
(* The steps of a running command.                                         *)
(***************************************************************************)

\* A replacement is submitted.
LEMMA ReplaceAdvances ==
  ASSUME EngineInv, NEW command, RunningOK(command), command.op = "replace",
         pc = "replace", NEW req \in Requests, Submit(req)
  PROVE  Advances(command)
<1>1. fills = <<>> /\ events = <<>>
  BY DEF EngineInv, StopsOK, FillsFlow, RunningOK
<1>2. SubmitDone
  BY SubmitDoes
<1>3. \A id : Dirty(command, id)' <=> \/ OrderDirty(id)'
                                      \/ id = command.id /\ (pc' # "idle" \/ events' # <<>>)
  BY DEF Dirty
<1>4. \A id : Dirty(command, id) <=> id = command.id
  BY <1>1, NoMakers DEF Dirty, OrderDirty
<1>5. \A trade : ~TradeHeld(command, trade)
  BY <1>1 DEF TradeHeld, OrderHeld
<1>6. RunningOK(command)'
  <2>1. command.id \in DOMAIN history
    BY <1>4 DEF RunningOK
  <2> QED
    BY <1>2, <1>3, <2>1 DEF SubmitDone, RunningOK, HistoryGrows
<1>7. NoneTurnedAway' =>
        /\ NoneTurnedAway /\ Recorded(command)
        /\ \A id : Dirty(command, id) => Dirty(command, id)'
  BY <1>2, <1>3, <1>4 DEF SubmitDone, Recorded
<1> QED
  BY <1>2, <1>5, <1>6, <1>7, TapeSame DEF SubmitDone, Begins, Advances

\* The executing order is rejected, filled, left to rest or discarded.
LEMMA TakerAdvances ==
  ASSUME EngineInv, NEW command, RunningOK(command), command.op \in {"submit", "replace"},
         pc = "match", NEW status, history' = RecordStatus(history, sequence, taker, status),
         events' = events \o AckEvents(Ack(taker, status, fills), sequence),
         IsSequence(fills), fills' = <<>>, tape' = tape, pc' \in {"idle", "trigger"}
  PROVE  Advances(command)
<1> DEFINE ack == Ack(taker, status, fills)
           own == AckEvents(ack, sequence)
<1>1. events = <<>>
  BY DEF RunningOK
<1>2. IsSequence(own) /\ own # <<>> /\ own[1].ack = ack
  BY AckEventsReport
<1>3. ack.order = taker /\ ack.trades = fills
  BY DEF Ack
<1>4. events' = events \o own
  OBVIOUS
<1> HIDE DEF ack, own
<1>5. events' = own
  BY <1>1, <1>2, <1>4, ShortSequences, SequencesJoin
<1>6. \A id : OrderDirty(id)' <=> id = taker.id \/ id \in MakersOf(fills)
  BY <1>2, <1>3, <1>5, NoMakers DEF OrderDirty
<1>7. \A id : OrderDirty(id) <=> id = taker.id \/ id \in MakersOf(fills)
  BY <1>1 DEF OrderDirty
<1>8. \A trade : OrderHeld(trade)' <=> OrderHeld(trade)
  BY <1>1, <1>2, <1>3, <1>5 DEF OrderHeld
<1>9. AddsRows(history, history', taker.id) /\ HistoryOK
  BY StatusAdds, BaseImplies DEF EngineInv, BaseFacts, HistoryInv
<1>10. \A id : Dirty(command, id)' <=> Dirty(command, id)
  BY <1>2, <1>5, <1>6, <1>7 DEF Dirty
<1>11. HistoryGrows /\ (NoneTurnedAway' => NoneTurnedAway)
       /\ \A x, entry : InHistory(x, entry)' => InHistory(x, entry) \/ x = taker.id
  BY <1>9, HistoryAdds
<1>12. Recorded(command)
  BY <1>6, <1>11 DEF Recorded, Dirty
<1>13. TapeGrows /\ Taped(command)
  BY TapeSame
<1>14. RunningOK(command)'
  <2>1. events' # <<>>
    BY <1>2, <1>5
  <2>2. \A trade : OrderHeld(trade)' => OnTape(trade)'
    BY <1>8, <1>13 DEF RunningOK, TapeGrows
  <2>3. \A id : Dirty(command, id)' => id \in DOMAIN history'
    BY <1>10, <1>11 DEF RunningOK, HistoryGrows
  <2> QED
    BY <2>1, <2>2, <2>3 DEF RunningOK
<1> QED
  BY <1>8, <1>10, <1>11, <1>12, <1>13, <1>14 DEF Begins, Advances, TradeHeld

\* The executing order trades.
LEMMA FillAdvances ==
  ASSUME EngineInv, NEW command, RunningOK(command), command.op \in {"submit", "replace"},
         IsSequence(fills), FillBest
  PROVE  Advances(command)
<1>0. PICK trade, maker : trade = NextTrade /\ maker = BestMaker.id
  OBVIOUS
<1>1. /\ pc = "match" /\ pc' = "match" /\ events = <<>> /\ events' = <<>>
      /\ fills' = Append(fills, trade) /\ tape' = Append(tape, trade)
      /\ history' = RecordMakerFill(history, sequence + 1, maker,
                                    BestMaker.remaining - NextAmount)
      /\ trade.maker = maker /\ trade.id = nextTradeId
  BY <1>0 DEF FillBest, RunningOK, NextTrade
<1>2. taker'.id = taker.id /\ maker \in DOMAIN history
  <2>1. BaseFacts
    BY BaseImplies DEF EngineInv
  <2>2. taker'.id = taker.id
    BY <2>1, TradeParties DEF BaseFacts
  <2>3. BestMaker \in Resting(levels)
    BY <2>1, ActiveFillBest DEF BaseFacts
  <2> QED
    BY <1>0, <2>1, <2>2, <2>3 DEF BaseFacts, HistoryInv, HistoryOK, HistoryTracksBook
<1>3. /\ Len(tape) \in Nat /\ trade.id = Len(tape) + 1
      /\ DOMAIN tape = 1..Len(tape) /\ DOMAIN tape' = 1..(Len(tape) + 1)
      /\ tape'[Len(tape) + 1] = trade /\ \A i \in DOMAIN tape : tape'[i] = tape[i]
  <2>1. IsSequence(tape)
    BY BaseImplies DEF EngineInv, BaseFacts, IsSequence
  <2>2. IsSequence(tape') /\ Len(tape') = Len(tape) + 1
    BY <1>1, <2>1, SequenceGrows
  <2>3. DOMAIN tape' = 1..Len(tape')
    BY <2>2, SequenceGrows
  <2> QED
    BY <1>1, <2>1, <2>2, <2>3, SequenceGrows DEF EngineInv, TapeOK
<1>4. /\ Len(fills) \in Nat /\ DOMAIN fills = 1..Len(fills)
      /\ DOMAIN fills' = 1..(Len(fills) + 1)
      /\ fills'[Len(fills) + 1] = trade /\ \A i \in DOMAIN fills : fills'[i] = fills[i]
  <2>1. IsSequence(fills') /\ Len(fills') = Len(fills) + 1
    BY <1>1, SequenceGrows
  <2>2. DOMAIN fills' = 1..Len(fills')
    BY <2>1, SequenceGrows
  <2> QED
    BY <1>1, <2>1, <2>2, SequenceGrows
<1>5. \A other : OnTape(other)' <=> OnTape(other) \/ other = trade
  <2> TAKE other
  <2>1. OnTape(other) => OnTape(other)'
    BY <1>3 DEF OnTape
  <2>2. OnTape(trade)'
    BY <1>3 DEF OnTape
  <2>3. OnTape(other)' => OnTape(other) \/ other = trade
    <3>1. SUFFICES ASSUME other.id \in 1..(Len(tape) + 1), tape'[other.id] = other
                   PROVE  OnTape(other) \/ other = trade
      BY <1>3 DEF OnTape
    <3>2. CASE other.id = Len(tape) + 1
      BY <1>3, <3>1, <3>2
    <3>3. CASE other.id \in 1..Len(tape)
      BY <1>3, <3>1, <3>3 DEF OnTape
    <3> QED
      BY <1>3, <3>1, <3>2, <3>3
  <2> QED
    BY <2>1, <2>2, <2>3
<1>6. \A other : OrderHeld(other)' <=> OrderHeld(other) \/ other = trade
  <2> TAKE other
  <2>1. OrderHeld(other) <=> \E i \in DOMAIN fills : fills[i] = other
    BY <1>1 DEF OrderHeld
  <2>2. OrderHeld(other)' <=> \E i \in DOMAIN fills' : fills'[i] = other
    BY <1>1 DEF OrderHeld
  <2>3. (\E i \in DOMAIN fills' : fills'[i] = other)
          <=> (\E i \in DOMAIN fills : fills[i] = other) \/ other = trade
    BY <1>4
  <2> QED
    BY <2>1, <2>2, <2>3
<1>7. \A id : id \in MakersOf(fills') <=> id \in MakersOf(fills) \/ id = maker
  BY <1>1, <1>4 DEF MakersOf
<1>8. \A id : OrderDirty(id)' <=> OrderDirty(id) \/ id = maker
  BY <1>1, <1>2, <1>7 DEF OrderDirty
<1>9. \A id : Dirty(command, id)' <=> Dirty(command, id) \/ id = maker
  BY <1>1, <1>8 DEF Dirty
<1>10. AddsRows(history, history', maker) /\ HistoryOK
  BY <1>1, HistoryLists, RecordAdds, BaseImplies
     DEF RecordMakerFill, EngineInv, BaseFacts, HistoryInv
<1>11. HistoryGrows /\ (NoneTurnedAway' => NoneTurnedAway)
       /\ \A x, entry : InHistory(x, entry)' => InHistory(x, entry) \/ x = maker
  BY <1>10, HistoryAdds
<1>12. Recorded(command)
  BY <1>9, <1>11 DEF Recorded
<1>13. TapeGrows /\ Taped(command)
  BY <1>5, <1>6 DEF TapeGrows, Taped, TradeHeld
<1>14. RunningOK(command)'
  <2>1. \A other : OrderHeld(other)' => OnTape(other)'
    BY <1>5, <1>6 DEF RunningOK
  <2>2. \A id : Dirty(command, id)' => id \in DOMAIN history'
    BY <1>2, <1>9, <1>11 DEF RunningOK, HistoryGrows
  <2> QED
    BY <1>1, <2>1, <2>2 DEF RunningOK
<1>15. \A other : TradeHeld(command, other) => TradeHeld(command, other)'
  BY <1>6 DEF TradeHeld
<1> QED
  BY <1>9, <1>11, <1>12, <1>13, <1>14, <1>15 DEF Begins, Advances

\* A triggered stop that is gone already is passed over.
LEMMA SkipAdvances ==
  ASSUME EngineInv, NEW command, RunningOK(command), command.op \in {"submit", "replace"},
         SkipStop
  PROVE  Advances(command)
<1>1. /\ UNCHANGED <<history, tape, events, fills>> /\ pc = "trigger"
      /\ pc' \in {"idle", "trigger"} /\ events # <<>>
  BY DEF SkipStop, ghostVars, RunningOK
<1>2. \A id : Dirty(command, id)' <=> Dirty(command, id)
  BY <1>1 DEF Dirty, OrderDirty
<1>3. \A trade : OrderHeld(trade)' <=> OrderHeld(trade)
  BY <1>1 DEF OrderHeld
<1>4. RunningOK(command)'
  BY <1>1, <1>2, <1>3 DEF RunningOK, OnTape
<1> QED
  BY <1>1, <1>2, <1>3, <1>4, TapeSame, HistorySame DEF Begins, Advances, TradeHeld

\* An order of a mass cancel is cancelled, or all of them are.
LEMMA MassCancelAdvances ==
  ASSUME EngineInv, NEW command, RunningOK(command), command.op = "mass_cancel",
         IsSequence(cancelled), (\E id \in cancelling : MassCancelOne(id)) \/ MassCancelDone
  PROVE  Advances(command)
<1>1. events = <<>> /\ tape' = tape
  BY DEF RunningOK, MassCancelOne, MassCancelDone, ghostVars
<1>2. \A trade : ~TradeHeld(command, trade)
  BY DEF TradeHeld
<1>3. ASSUME NEW id \in cancelling, MassCancelOne(id)
      PROVE  Advances(command)
  <2>1. /\ CancelOrder(id) /\ pc = "mass_cancel" /\ pc' = pc /\ events' = events
        /\ cancelled' = IF Cancelled(id) = {} THEN cancelled ELSE Append(cancelled, id)
    BY <1>3 DEF MassCancelOne
  <2>2. IndexInv /\ HistoryOK /\ id \in ActiveIds
    <3>1. IndexInv /\ HistoryOK /\ ControlOK
      BY BaseImplies DEF EngineInv, BaseFacts, TypeInv, HistoryInv
    <3> QED
      BY <3>1, <1>3, <2>1 DEF ControlOK
  <2>3. PICK order \in ActiveOrders :
          /\ order.id = id /\ Cancelled(id) = {order}
          /\ history' = RecordStatus(history, sequence + 1, order, "cancelled")
    BY <2>1, <2>2, ActiveCancelOrder
  <2>4. AddsRows(history, history', id)
    BY <2>3, StatusAdds
  <2>5. HistoryGrows /\ (NoneTurnedAway' => NoneTurnedAway) /\ id \in DOMAIN history'
        /\ \A x, entry : InHistory(x, entry)' => InHistory(x, entry) \/ x = id
    BY <2>2, <2>4, HistoryAdds
  <2>6. \A x : x \in ToSet(cancelled') <=> x \in ToSet(cancelled) \/ x = id
    <3>1. cancelled' = Append(cancelled, id)
      BY <2>1, <2>3
    <3>2. /\ IsSequence(cancelled') /\ Len(cancelled) \in Nat
          /\ DOMAIN cancelled = 1..Len(cancelled) /\ Len(cancelled') = Len(cancelled) + 1
          /\ cancelled'[Len(cancelled) + 1] = id
          /\ \A i \in 1..Len(cancelled) : cancelled'[i] = cancelled[i]
      BY <3>1, SequenceGrows
    <3>3. DOMAIN cancelled' = 1..(Len(cancelled) + 1)
      BY <3>2, SequenceGrows
    <3> QED
      BY <3>2, <3>3 DEF ToSet
  <2>7. \A x : Dirty(command, x)' <=> Dirty(command, x) \/ x = id
    BY <1>1, <2>1, <2>6 DEF Dirty
  <2>8. RunningOK(command)'
    BY <1>1, <2>1, <2>5, <2>7 DEF RunningOK, HistoryGrows
  <2>9. Recorded(command)
    BY <2>5, <2>7 DEF Recorded
  <2> QED
    BY <1>1, <1>2, <2>5, <2>7, <2>8, <2>9, TapeSame DEF Begins, Advances
<1>4. CASE MassCancelDone
  <2> DEFINE own == MassCancelEvent(cancelled)
             last == BookEvent(sequence)
  <2>1. /\ history' = history /\ pc' = "idle" /\ events' = <<own, last>>
        /\ cancelled' = <<>> /\ own.ids = cancelled
    BY <1>4 DEF MassCancelDone, Answer, MassCancelEvent
  <2> HIDE DEF own, last
  <2>2. events' # <<>> /\ events'[1].ids = cancelled
    BY <2>1, ShortSequences
  <2>3. \A x : x \notin ToSet(<<>>)
    BY DEF ToSet
  <2>4. \A x : Dirty(command, x)' <=> Dirty(command, x)
    BY <1>1, <2>1, <2>2, <2>3 DEF Dirty
  <2>5. RunningOK(command)'
    BY <2>1, <2>4 DEF RunningOK
  <2> QED
    BY <1>1, <1>2, <2>1, <2>4, <2>5, TapeSame, HistorySame DEF Begins, Advances
<1> QED
  BY <1>3, <1>4

(***************************************************************************)
(* As long as no stop order has left the stop orders, none is activated.   *)
(***************************************************************************)

LEMMA DormantBefore ==
  ASSUME EngineInv, [Next]_vars \/ (pc = "idle" /\ OrderNotFound), StopsDormant'
  PROVE  StopsDormant /\ ~ActivateStop
<1>1. /\ \A id \in DOMAIN submitted : id # nextOrderId
      /\ \A id \in DOMAIN stopOrders : id \in DOMAIN submitted /\ IsStopOrder(submitted[id].kind)
      /\ nextOrderId \in Nat
  <2>1. BaseFacts /\ StopsWait
    BY BaseImplies DEF EngineInv, PriorityOK
  <2> QED
    BY <2>1 DEF BaseFacts, AccountInv, AccountsOK, StopsWait, IsMap
<1>2. \A id \in DOMAIN submitted : id \in DOMAIN submitted' /\ submitted'[id] = submitted[id]
  <2>1. ASSUME NEW req \in Requests, Submit(req)
        PROVE  submitted' = Put(submitted, nextOrderId, Incoming(req))
    BY <2>1 DEF Submit, RejectInvalid, AcceptStop, RejectFok, BeginExecution, Create
  <2>2. CASE \E req \in Requests : Submit(req)
    BY <1>1, <2>1, <2>2 DEF Put
  <2>3. CASE RejectPostOnly \/ FillBest \/ Settle \/ ActivateStop \/ SkipStop
    BY <2>3 DEF RejectPostOnly, FillBest, Settle, ActivateStop, SkipStop, ghostVars
  <2>4. CASE \/ \E id \in ActiveIds : Cancel(id) \/ Replace(id)
             \/ \E id \in cancelling : MassCancelOne(id)
    BY <2>4 DEF Cancel, Replace, MassCancelOne, ghostVars
  <2>5. CASE MassCancel \/ MassCancelDone \/ UNCHANGED vars \/ OrderNotFound
    BY <2>5 DEF MassCancel, MassCancelDone, vars, OrderNotFound, ghostVars
  <2> QED
    BY <2>2, <2>3, <2>4, <2>5 DEF Next, EngineStep, Command
<1>3. DOMAIN stopOrders' \subseteq DOMAIN stopOrders \cup {nextOrderId}
  <2>1. CASE \E req \in Requests : Submit(req)
    BY <2>1 DEF Submit, RejectInvalid, AcceptStop, RejectFok, BeginExecution, bookVars, Put
  <2>2. CASE RejectPostOnly \/ FillBest \/ Settle \/ ActivateStop \/ SkipStop
    BY <2>2 DEF RejectPostOnly, FillBest, Settle, ActivateStop, SkipStop, bookVars, Without,
                Restrict
  <2>3. ASSUME NEW id, CancelOrder(id)
        PROVE  DOMAIN stopOrders' \subseteq DOMAIN stopOrders
    BY <2>3 DEF CancelOrder, Without, Restrict
  <2>4. CASE \/ \E id \in ActiveIds : Cancel(id) \/ Replace(id)
             \/ \E id \in cancelling : MassCancelOne(id)
    BY <2>3, <2>4 DEF Cancel, Replace, MassCancelOne
  <2>5. CASE MassCancel \/ MassCancelDone \/ UNCHANGED vars \/ OrderNotFound
    BY <2>5 DEF MassCancel, MassCancelDone, vars, OrderNotFound, bookVars
  <2> QED
    BY <2>1, <2>2, <2>4, <2>5 DEF Next, EngineStep, Command
<1>4. StopsDormant
  BY <1>1, <1>2, <1>3 DEF StopsDormant
<1>5. ~ActivateStop
  <2>1. SUFFICES ASSUME ActivateStop PROVE FALSE
    OBVIOUS
  <2>2. PICK id : id = NextTriggered
    OBVIOUS
  <2>3. id \in DOMAIN stopOrders /\ id \notin DOMAIN stopOrders' /\ submitted' = submitted
    BY <2>1, <2>2 DEF ActivateStop, Without, Restrict, ghostVars
  <2> QED
    BY <1>1, <2>3 DEF StopsDormant
<1> QED
  BY <1>4, <1>5

\* A step of the worker, on the command it has been given.
LEMMA WorkAdvances ==
  ASSUME JournalInv, CommandsOK, EngineInv, Work, StopsDormant', RunningOK(Asked)
  PROVE  \A command : command = Asked => Advances(command)
<1> SUFFICES ASSUME NEW command, command = Asked PROVE Advances(command)
  OBVIOUS
<1>1. /\ ~WorkerWaits /\ pc # "idle" /\ Lists /\ Reports(command.op) /\ RunningOK(command)
      /\ command.op \in {"submit", "replace", "mass_cancel"}
      /\ pc = "replace" => command.op = "replace" /\ command.req \in Requests
  BY DEF Work, JournalInv, ReportOK, Lists, Asked, CommandsOK, Legal, ControlInv, ServingOK,
         WorkerWaits
<1>2. CASE pc = "replace"
  <2>1. Submit(command.req)
    BY <1>2 DEF Work, Asked
  <2> QED
    BY <1>1, <1>2, <2>1, ReplaceAdvances
<1>3. CASE pc # "replace"
  <2>1. EngineStep
    BY <1>3 DEF Work
  <2>2. pc = "mass_cancel" <=> command.op = "mass_cancel"
    BY <1>1 DEF Reports
  <2>3. ~ActivateStop
    BY <2>1, DormantBefore DEF Next
  <2>4. CASE RejectPostOnly
    <3>1. taker.kind = "post_only" /\ pc = "match" /\ fills = <<>> /\ fills' = <<>>
      BY <2>4 DEF RejectPostOnly, PostOnlyCrosses, EngineInv, StopsOK, FillsFlow
    <3> QED
      BY <1>1, <2>2, <2>4, <3>1, TakerAdvances DEF RejectPostOnly, Lists, ghostVars
  <2>5. CASE Settle
    <3> DEFINE status == SettledStatus(levels, taker, fills # <<>>)
    <3>1. /\ pc = "match" /\ history' = RecordStatus(history, sequence, taker, status)
          /\ events' = events \o AckEvents(Ack(taker, status, fills), sequence)
          /\ fills' = <<>> /\ tape' = tape /\ pc' \in {"idle", "trigger"}
      BY <2>5 DEF Settle, ghostVars
    <3> HIDE DEF status
    <3> QED
      BY <1>1, <2>2, <3>1, TakerAdvances DEF Lists
  <2>6. CASE FillBest
    BY <1>1, <2>2, <2>6, FillAdvances DEF FillBest, Lists
  <2>7. CASE SkipStop
    BY <1>1, <2>2, <2>7, SkipAdvances DEF SkipStop
  <2>8. CASE (\E id \in cancelling : MassCancelOne(id)) \/ MassCancelDone
    BY <1>1, <2>2, <2>8, MassCancelAdvances DEF MassCancelOne, MassCancelDone, Lists
  <2> QED
    BY <1>3, <2>1, <2>3, <2>4, <2>5, <2>6, <2>7, <2>8 DEF EngineStep
<1> QED
  BY <1>2, <1>3

(***************************************************************************)
(* The orders whose histories a handler writes.                            *)
(***************************************************************************)

StayKnown(base, ids) ==
  /\ IsSequence(ids) /\ ToSet(base) \subseteq ToSet(ids)
  /\ ToSet(ids) \subseteq DOMAIN history

HoldsMaker(trade, ids) == IsSequence(ids) /\ trade.maker \in ToSet(ids)

Knowing  == INSTANCE FoldProofs WITH Op <- Touch, Rel <- StayKnown
Reaching == INSTANCE FoldProofs WITH Op <- Touch, Rel <- HoldsMaker

LEMMA TouchAdds ==
  ASSUME NEW ids, IsSequence(ids), NEW trade
  PROVE  /\ IsSequence(Touch(ids, trade))
         /\ ToSet(Touch(ids, trade)) = ToSet(ids) \cup {trade.maker}
<1>1. CASE trade.maker \in ToSet(ids)
  BY <1>1 DEF Touch
<1>2. CASE trade.maker \notin ToSet(ids)
  <2> DEFINE more == Append(ids, trade.maker)
  <2>1. /\ IsSequence(more) /\ Len(ids) \in Nat /\ DOMAIN ids = 1..Len(ids)
        /\ Len(more) = Len(ids) + 1 /\ more[Len(ids) + 1] = trade.maker
        /\ \A i \in 1..Len(ids) : more[i] = ids[i]
    BY SequenceGrows
  <2>2. Touch(ids, trade) = more
    BY <1>2 DEF Touch
  <2> HIDE DEF more
  <2>3. DOMAIN more = 1..(Len(ids) + 1)
    BY <2>1, SequenceGrows
  <2>4. \A x : x \in ToSet(more) <=> x \in ToSet(ids) \/ x = trade.maker
    <3>1. \A i : i \in 1..(Len(ids) + 1) <=> i \in 1..Len(ids) \/ i = Len(ids) + 1
      BY <2>1
    <3> QED
      BY <2>1, <2>3, <3>1 DEF ToSet
  <2> QED
    BY <2>1, <2>2, <2>4
<1> QED
  BY <1>1, <1>2

LEMMA TouchedKnown ==
  ASSUME NEW ack, IsSequence(ack.trades), ack.order.id \in DOMAIN history,
         MakersOf(ack.trades) \subseteq DOMAIN history
  PROVE  /\ IsSequence(TouchedIds(ack))
         /\ ToSet(TouchedIds(ack)) \subseteq DOMAIN history
         /\ {ack.order.id} \cup MakersOf(ack.trades) \subseteq ToSet(TouchedIds(ack))
<1> DEFINE base == <<ack.order.id>>
           trades == ack.trades
<1>1. PICK S : trades \in Seq(S)
  BY DEF IsSequence
<1>2. /\ TouchedIds(ack) = Knowing!Fold(base, trades)
      /\ TouchedIds(ack) = Reaching!Fold(base, trades)
  BY DEF TouchedIds, FoldLeft, MapThenFoldSet, Max, Knowing!Fold, Knowing!Recursion,
         Knowing!Greatest, Reaching!Fold, Reaching!Recursion, Reaching!Greatest
<1>3. IsSequence(base) /\ ToSet(base) = {ack.order.id}
  BY ShortSequences DEF ToSet
<1>4. \A i \in DOMAIN trades : trades[i].maker \in MakersOf(trades)
  BY DEF MakersOf
<1> HIDE DEF base
<1>5. StayKnown(base, Knowing!Fold(base, trades))
  <2>1. \A acc : \A i \in DOMAIN trades :
          StayKnown(base, acc) => StayKnown(base, Touch(acc, trades[i]))
    BY <1>4, TouchAdds DEF StayKnown
  <2>2. StayKnown(base, base)
    BY <1>3 DEF StayKnown
  <2> QED
    BY <1>1, <2>1, <2>2, Knowing!FoldKeeps
<1>6. \A i \in DOMAIN trades : HoldsMaker(trades[i], Reaching!Fold(base, trades))
  <2>1. \A acc \in Reaching!Partials(base, trades) : IsSequence(acc)
    <3>1. SUFFICES ASSUME NEW n \in 0..Len(trades)
                   PROVE  IsSequence(Reaching!Fold(base, SubSeq(trades, 1, n)))
      BY DEF Reaching!Partials
    <3> DEFINE front == SubSeq(trades, 1, n)
    <3>2. front \in Seq(S)
      BY <1>1
    <3> HIDE DEF front
    <3>3. Reaching!Fold(base, front) = Touching!Fold(base, front)
      BY DEF Reaching!Fold, Reaching!Recursion, Reaching!Greatest, Touching!Fold,
             Touching!Recursion, Touching!Greatest
    <3>4. \A acc : \A i \in DOMAIN front :
            KeepsSequence(base, acc) => KeepsSequence(base, Touch(acc, front[i]))
      BY TouchAdds DEF KeepsSequence
    <3>5. KeepsSequence(base, base)
      BY DEF KeepsSequence
    <3>6. KeepsSequence(base, Touching!Fold(base, front))
      BY <3>2, <3>4, <3>5, Touching!FoldKeeps
    <3> QED
      BY <1>3, <3>3, <3>6 DEF KeepsSequence, front
  <2>2. \A acc \in Reaching!Partials(base, trades) : \A i \in DOMAIN trades :
          HoldsMaker(trades[i], Touch(acc, trades[i]))
    BY <2>1, TouchAdds DEF HoldsMaker
  <2>3. \A acc \in Reaching!Partials(base, trades) : \A i, j \in DOMAIN trades :
          HoldsMaker(trades[i], acc) => HoldsMaker(trades[i], Touch(acc, trades[j]))
    BY <2>1, TouchAdds DEF HoldsMaker
  <2> QED
    BY <1>1, <2>2, <2>3, Reaching!FoldReaches
<1> QED
  BY <1>2, <1>3, <1>5, <1>6 DEF StayKnown, HoldsMaker, MakersOf

(***************************************************************************)
(* What the answer of a command makes the handler write.                   *)
(***************************************************************************)

CallsTrue(calls) == IsSequence(calls) /\ \A i \in DOMAIN calls : CallTrue(calls[i])

WritesTrade(calls, trade) ==
  \E i \in DOMAIN calls :
    calls[i].call = "record_ack" /\ \E j \in DOMAIN calls[i].ack.trades :
                                      calls[i].ack.trades[j] = trade

WritesEntry(calls, id, entry) ==
  \E i \in DOMAIN calls :
    /\ calls[i].call = "record_order_history"
    /\ calls[i].id = id /\ entry \in ToSet(calls[i].entries)

LEMMA SequencesUnion ==
  ASSUME NEW s, IsSequence(s), NEW t, IsSequence(t)
  PROVE  IsSequence(s \o t) /\ ToSet(s \o t) = ToSet(s) \cup ToSet(t)
<1> DEFINE joined == s \o t
<1>1. /\ IsSequence(joined) /\ Len(s) \in Nat /\ Len(t) \in Nat
      /\ DOMAIN s = 1..Len(s) /\ DOMAIN t = 1..Len(t)
      /\ Len(joined) = Len(s) + Len(t)
      /\ \A i \in 1..Len(s) : joined[i] = s[i]
      /\ \A i \in 1..Len(t) : joined[Len(s) + i] = t[i]
  BY SequencesJoin
<1> HIDE DEF joined
<1>2. DOMAIN joined = 1..(Len(s) + Len(t))
  BY <1>1, SequenceGrows
<1>3. \A i \in DOMAIN s : i \in DOMAIN joined /\ joined[i] = s[i]
  BY <1>1, <1>2
<1>4. \A i \in DOMAIN t : Len(s) + i \in DOMAIN joined /\ joined[Len(s) + i] = t[i]
  BY <1>1, <1>2
<1>5. \A i \in DOMAIN joined : joined[i] \in ToSet(s) \cup ToSet(t)
  <2> TAKE i \in DOMAIN joined
  <2>1. CASE i \in DOMAIN s
    BY <1>3, <2>1 DEF ToSet
  <2>2. CASE i \notin DOMAIN s
    <3>1. i - Len(s) \in DOMAIN t /\ Len(s) + (i - Len(s)) = i
      BY <1>1, <1>2, <2>2
    <3>2. joined[i] = t[i - Len(s)]
      BY <1>4, <3>1
    <3> QED
      BY <3>1, <3>2 DEF ToSet
  <2> QED
    BY <2>1, <2>2
<1>6. ToSet(s) \subseteq ToSet(joined) /\ ToSet(t) \subseteq ToSet(joined)
  BY <1>3, <1>4 DEF ToSet
<1>7. ToSet(joined) \subseteq ToSet(s) \cup ToSet(t)
  BY <1>5 DEF ToSet
<1>8. ToSet(joined) = ToSet(s) \cup ToSet(t)
  BY <1>6, <1>7
<1> QED
  BY <1>1, <1>8 DEF joined

LEMMA CallsTrueJoin ==
  ASSUME NEW one, CallsTrue(one), NEW two, CallsTrue(two)
  PROVE  /\ CallsTrue(one \o two)
         /\ \A trade : WritesTrade(one, trade) => WritesTrade(one \o two, trade)
         /\ \A id, entry : WritesEntry(one, id, entry) \/ WritesEntry(two, id, entry)
                             => WritesEntry(one \o two, id, entry)
<1> DEFINE joined == one \o two
<1>1. /\ IsSequence(joined) /\ Len(one) \in Nat /\ Len(two) \in Nat
      /\ DOMAIN one = 1..Len(one) /\ DOMAIN two = 1..Len(two)
      /\ Len(joined) = Len(one) + Len(two)
      /\ \A i \in 1..Len(one) : joined[i] = one[i]
      /\ \A i \in 1..Len(two) : joined[Len(one) + i] = two[i]
  BY SequencesJoin DEF CallsTrue
<1> HIDE DEF joined
<1>2. DOMAIN joined = 1..(Len(one) + Len(two))
  BY <1>1, SequenceGrows
<1>3. /\ \A i \in DOMAIN one : i \in DOMAIN joined /\ joined[i] = one[i]
      /\ \A i \in DOMAIN two : Len(one) + i \in DOMAIN joined /\ joined[Len(one) + i] = two[i]
  BY <1>1, <1>2
<1>4. \A i \in DOMAIN joined : i \in DOMAIN one \/ i - Len(one) \in DOMAIN two
  BY <1>1, <1>2
<1>5. \A i \in DOMAIN joined : CallTrue(joined[i])
  <2> TAKE i \in DOMAIN joined
  <2>1. CASE i \in DOMAIN one
    BY <1>3, <2>1 DEF CallsTrue
  <2>2. CASE i - Len(one) \in DOMAIN two
    <3>1. Len(one) + (i - Len(one)) = i
      BY <1>1, <1>2
    <3>2. joined[i] = two[i - Len(one)]
      BY <1>3, <2>2, <3>1
    <3> QED
      BY <2>2, <3>2 DEF CallsTrue
  <2> QED
    BY <1>4, <2>1, <2>2
<1>6. \A trade : WritesTrade(one, trade) => WritesTrade(joined, trade)
  BY <1>3 DEF WritesTrade
<1>7. \A id, entry : WritesEntry(one, id, entry) => WritesEntry(joined, id, entry)
  BY <1>3 DEF WritesEntry
<1>8. \A id, entry : WritesEntry(two, id, entry) => WritesEntry(joined, id, entry)
  BY <1>3 DEF WritesEntry
<1> QED
  BY <1>1, <1>5, <1>6, <1>7, <1>8 DEF CallsTrue, joined

LEMMA HistoryCallsTrue ==
  ASSUME NEW ids, IsSequence(ids), ToSet(ids) \subseteq DOMAIN history
  PROVE  /\ CallsTrue(HistoryCalls(ids))
         /\ \A id \in ToSet(ids) : \A entry \in ToSet(history[id]) :
              WritesEntry(HistoryCalls(ids), id, entry)
<1> DEFINE calls == HistoryCalls(ids)
<1>1. IsSequence(calls)
  BY HistoryCallsOK
<1>2. /\ DOMAIN calls = DOMAIN ids
      /\ \A i \in DOMAIN ids : calls[i] = HistoryCall(ids[i], history[ids[i]])
  BY DEF HistoryCalls
<1> HIDE DEF calls
<1>3. \A i \in DOMAIN ids : /\ calls[i].call = "record_order_history"
                            /\ calls[i].id = ids[i] /\ calls[i].entries = history[ids[i]]
  BY <1>2 DEF HistoryCall
<1>4. \A i \in DOMAIN ids : ids[i] \in DOMAIN history
  BY DEF ToSet
<1>5. \A i \in DOMAIN calls : CallTrue(calls[i])
  BY <1>2, <1>3, <1>4 DEF CallTrue, RowCalls, InHistory
<1>6. \A id \in ToSet(ids) : \A entry \in ToSet(history[id]) : WritesEntry(calls, id, entry)
  <2> TAKE id \in ToSet(ids)
  <2> TAKE entry \in ToSet(history[id])
  <2>1. PICK i \in DOMAIN ids : ids[i] = id
    BY DEF ToSet
  <2> QED
    BY <1>2, <1>3, <2>1 DEF WritesEntry
<1> QED
  BY <1>1, <1>5, <1>6 DEF CallsTrue, calls

LEMMA CancelCallsTrue ==
  ASSUME NEW ids, IsSequence(ids), NEW orders
  PROVE  CallsTrue(CancelCalls(ids, orders))
<1> DEFINE order(i) == CHOOSE order \in orders : order.id = ids[i]
           calls == CancelCalls(ids, orders)
<1>1. calls = [i \in DOMAIN ids |-> CancelCall(order(i))]
  BY DEF CancelCalls
<1>2. IsSequence(calls)
  BY CancelCallsOK
<1> HIDE DEF calls, order
<1>3. \A i \in DOMAIN calls : calls[i].call = "record_cancel"
  BY <1>1 DEF CancelCall
<1>4. \A i \in DOMAIN calls : CallTrue(calls[i])
  BY <1>3 DEF CallTrue, RowCalls
<1> QED
  BY <1>2, <1>4 DEF CallsTrue, calls

LEMMA OneCallTrue ==
  ASSUME NEW call, CallTrue(call)
  PROVE  /\ CallsTrue(<<call>>)
         /\ call.call = "record_ack" =>
              \A j \in DOMAIN call.ack.trades : WritesTrade(<<call>>, call.ack.trades[j])
<1> DEFINE calls == <<call>>
<1>1. IsSequence(calls) /\ DOMAIN calls = {1} /\ calls[1] = call
  BY ShortSequences
<1> HIDE DEF calls
<1> QED
  BY <1>1 DEF CallsTrue, WritesTrade, calls

\* All that the command has changed and not yet written.
LEMMA CallsCover ==
  ASSUME EngineInv, Lists, pc = "idle", events # <<>>,
         NEW command, command.op \in Mutations, Reports(command.op), RunningOK(command),
         NEW orders
  PROVE  /\ CallsTrue(CallsFor(command, orders))
         /\ \A trade : TradeHeld(command, trade)
                         => WritesTrade(CallsFor(command, orders), trade)
         /\ \A id : Dirty(command, id) =>
              \A entry \in ToSet(history[id]) :
                WritesEntry(CallsFor(command, orders), id, entry)
<1>1. fills = <<>> /\ cancelled = <<>>
  BY DEF EngineInv, StopsOK, FillsFlow, MassCancelInv, MassCancelOK
<1> DEFINE last == <<EventsCall(events)>>
<1>2. CallsTrue(last)
  <2>1. CallTrue(EventsCall(events))
    BY DEF EventsCall, CallTrue, RowCalls
  <2> QED
    BY <2>1, OneCallTrue
<1> HIDE DEF last
<1>3. CASE command.op \in {"submit", "replace"}
  <2> DEFINE own == TouchedIds(OwnAck)
             old == IF command.op = "replace" THEN <<command.id>> ELSE <<>>
             touched == own \o old
             first == <<AckCall(OwnAck)>>
             calls == (first \o HistoryCalls(touched)) \o last
  <2>1. CallsFor(command, orders) = calls
    BY <1>3 DEF CallsFor, last
  <2>2. /\ IsSequence(OwnAck.trades)
        /\ {OwnAck.order.id} \cup MakersOf(OwnAck.trades) \subseteq DOMAIN history
        /\ \A i \in DOMAIN OwnAck.trades : OnTape(OwnAck.trades[i])
        /\ command.op = "replace" => command.id \in DOMAIN history
    BY <1>3 DEF Reports, OwnAck, RunningOK, Dirty, OrderDirty, OrderHeld
  <2>3. /\ IsSequence(own) /\ ToSet(own) \subseteq DOMAIN history
        /\ {OwnAck.order.id} \cup MakersOf(OwnAck.trades) \subseteq ToSet(own)
    BY <2>2, TouchedKnown
  <2>4. /\ IsSequence(old)
        /\ ToSet(old) = IF command.op = "replace" THEN {command.id} ELSE {}
    BY ShortSequences DEF ToSet
  <2> HIDE DEF own, old
  <2>5. IsSequence(touched) /\ ToSet(touched) = ToSet(own) \cup ToSet(old)
    BY <2>3, <2>4, SequencesUnion
  <2> HIDE DEF touched
  <2>6. /\ CallsTrue(HistoryCalls(touched))
        /\ \A id \in ToSet(touched) : \A entry \in ToSet(history[id]) :
             WritesEntry(HistoryCalls(touched), id, entry)
    BY <2>2, <2>3, <2>4, <2>5, HistoryCallsTrue
  <2>7. /\ CallsTrue(first)
        /\ \A j \in DOMAIN OwnAck.trades : WritesTrade(first, OwnAck.trades[j])
    <3>1. /\ AckCall(OwnAck).call = "record_ack" /\ AckCall(OwnAck).ack = OwnAck
          /\ CallTrue(AckCall(OwnAck))
      BY <2>2 DEF AckCall, CallTrue, RowCalls
    <3> QED
      BY <3>1, OneCallTrue
  <2> HIDE DEF first
  <2>8. /\ CallsTrue(calls)
        /\ \A trade : WritesTrade(first, trade) => WritesTrade(calls, trade)
        /\ \A id, entry : WritesEntry(HistoryCalls(touched), id, entry)
                            => WritesEntry(calls, id, entry)
    <3> DEFINE front == first \o HistoryCalls(touched)
    <3>1. /\ CallsTrue(front)
          /\ \A trade : WritesTrade(first, trade) => WritesTrade(front, trade)
          /\ \A id, entry : WritesEntry(HistoryCalls(touched), id, entry)
                              => WritesEntry(front, id, entry)
      BY <2>6, <2>7, CallsTrueJoin
    <3> HIDE DEF front
    <3>2. /\ CallsTrue(front \o last)
          /\ \A trade : WritesTrade(front, trade) => WritesTrade(front \o last, trade)
          /\ \A id, entry : WritesEntry(front, id, entry) => WritesEntry(front \o last, id, entry)
      BY <1>2, <3>1, CallsTrueJoin
    <3> QED
      BY <3>1, <3>2 DEF front
  <2>9. \A trade : TradeHeld(command, trade) =>
          \E j \in DOMAIN OwnAck.trades : OwnAck.trades[j] = trade
    BY <1>1 DEF TradeHeld, OrderHeld, OwnAck
  <2>10. \A id : Dirty(command, id) => id \in ToSet(touched)
    <3>1. \A id : Dirty(command, id) =>
            \/ id \in {OwnAck.order.id} \cup MakersOf(OwnAck.trades)
            \/ command.op = "replace" /\ id = command.id
      BY <1>1, <1>3, NoMakers DEF Dirty, OrderDirty, OwnAck
    <3> QED
      BY <2>3, <2>4, <2>5, <3>1
  <2> HIDE DEF calls
  <2> QED
    BY <2>1, <2>6, <2>7, <2>8, <2>9, <2>10
<1>4. CASE command.op \in {"cancel", "mass_cancel"}
  <2> DEFINE ids == IF command.op = "mass_cancel" THEN events[1].ids ELSE <<command.id>>
             calls == (CancelCalls(ids, orders) \o HistoryCalls(ids)) \o last
  <2>1. CallsFor(command, orders) = calls
    BY <1>4 DEF CallsFor, last
  <2>2. IsSequence(ids) /\ \A id : Dirty(command, id) <=> id \in ToSet(ids)
    <3>1. ToSet(<<>>) = {} /\ \A x : ToSet(<<x>>) = {x}
      BY DEF ToSet
    <3> QED
      BY <1>1, <1>4, <3>1, ShortSequences DEF Reports, Dirty
  <2>3. ToSet(ids) \subseteq DOMAIN history
    BY <2>2 DEF RunningOK
  <2> HIDE DEF ids
  <2>4. /\ CallsTrue(HistoryCalls(ids))
        /\ \A id \in ToSet(ids) : \A entry \in ToSet(history[id]) :
             WritesEntry(HistoryCalls(ids), id, entry)
    BY <2>2, <2>3, HistoryCallsTrue
  <2>5. CallsTrue(CancelCalls(ids, orders))
    BY <2>2, CancelCallsTrue
  <2>6. /\ CallsTrue(calls)
        /\ \A id, entry : WritesEntry(HistoryCalls(ids), id, entry)
                            => WritesEntry(calls, id, entry)
    <3> DEFINE front == CancelCalls(ids, orders) \o HistoryCalls(ids)
    <3>1. /\ CallsTrue(front)
          /\ \A id, entry : WritesEntry(HistoryCalls(ids), id, entry)
                              => WritesEntry(front, id, entry)
      BY <2>4, <2>5, CallsTrueJoin
    <3> HIDE DEF front
    <3>2. /\ CallsTrue(front \o last)
          /\ \A id, entry : WritesEntry(front, id, entry) => WritesEntry(front \o last, id, entry)
      BY <1>2, <3>1, CallsTrueJoin
    <3> QED
      BY <3>1, <3>2 DEF front
  <2>7. \A trade : ~TradeHeld(command, trade)
    BY <1>4 DEF TradeHeld
  <2> HIDE DEF calls
  <2> QED
    BY <2>1, <2>2, <2>4, <2>6, <2>7
<1> QED
  BY <1>3, <1>4 DEF Mutations

(***************************************************************************)
(* Everything that was traded and recorded is in the tables, or a handler  *)
(* is about to write it, or the worker's command is about to report it.    *)
(***************************************************************************)

Tidy == faults = 0 /\ ~reloaded /\ StopsDormant

TradePending(trade) ==
  \E h \in Handlers : handler[h].phase = "persisting" /\ WritesTrade(handler[h].calls, trade)

EntryPending(id, entry) ==
  \E h \in Handlers : handler[h].phase = "persisting" /\ WritesEntry(handler[h].calls, id, entry)

TablesOK ==
  /\ TablesTrue(db)
  /\ \A h \in Handlers : handler[h].phase = "persisting" => CallsTrue(handler[h].calls)
  /\ ~WorkerWaits => RunningOK(Asked)
  /\ \A trade : OnTape(trade) =>
       \/ trade.id \in DOMAIN db.trades
       \/ TradePending(trade)
       \/ ~WorkerWaits /\ TradeHeld(Asked, trade)

HistoryCovered ==
  \A id, entry : InHistory(id, entry) =>
    \/ [order |-> id, entry |-> entry] \in db.orderHistory
    \/ EntryPending(id, entry)
    \/ ~WorkerWaits /\ Dirty(Asked, id)

\* What handlers are about to write, they are still about to write.
WritersSame ==
  \A h \in Handlers :
    /\ handler'[h].phase = "persisting" <=> handler[h].phase = "persisting"
    /\ handler[h].phase = "persisting" => handler'[h].calls = handler[h].calls

\* Requests come and go, and the engine rests or is busy with the same command.
LEMMA TablesStay ==
  ASSUME TablesOK, WritersSame, UNCHANGED vars, serving' = serving,
         ~WorkerWaits => Asked' = Asked,
         db'.trades = db.trades, db'.orderHistory = db.orderHistory, DOMAIN db' = Tables
  PROVE  TablesOK' /\ (HistoryCovered => HistoryCovered')
<1>1. WorkerWaits' <=> WorkerWaits
  BY DEF WorkerWaits
<1>2. /\ \A trade : OnTape(trade)' <=> OnTape(trade)
      /\ \A id, entry : InHistory(id, entry)' <=> InHistory(id, entry)
      /\ \A call : CallTrue(call) => CallTrue(call)'
      /\ \A rows : TradesTrue(rows)' <=> TradesTrue(rows)
  BY DEF vars, bookVars, ghostVars, OnTape, InHistory, CallTrue, TradesTrue
<1>3. TablesTrue(db)'
  BY <1>2 DEF TablesOK, TablesTrue
<1>4. \A calls : CallsTrue(calls) => CallsTrue(calls)'
  BY <1>2 DEF CallsTrue
<1>5. /\ \A trade : TradePending(trade)' <=> TradePending(trade)
      /\ \A id, entry : EntryPending(id, entry)' <=> EntryPending(id, entry)
  BY DEF WritersSame, TradePending, EntryPending
<1>6. \A command : /\ RunningOK(command) => RunningOK(command)'
                   /\ \A trade : TradeHeld(command, trade)' <=> TradeHeld(command, trade)
                   /\ \A id : Dirty(command, id)' <=> Dirty(command, id)
  BY DEF RunningOK, TradeHeld, OrderHeld, Dirty, OrderDirty, OnTape, vars, bookVars,
         controlVars, ghostVars
<1>7. \A h \in Handlers : handler'[h].phase = "persisting" => CallsTrue(handler[h].calls)'
  <2> TAKE h \in Handlers
  <2> HAVE handler'[h].phase = "persisting"
  <2>1. PICK calls : calls = handler[h].calls
    OBVIOUS
  <2>2. handler'[h].calls = calls /\ CallsTrue(calls)
    BY <2>1 DEF TablesOK, WritersSame
  <2> QED
    BY <1>4, <2>2
<1>8. PICK asked : asked = Asked
  OBVIOUS
<1>9. /\ ~WorkerWaits' => RunningOK(Asked)'
      /\ \A trade : OnTape(trade)' =>
           \/ trade.id \in DOMAIN db'.trades
           \/ TradePending(trade)'
           \/ ~WorkerWaits' /\ TradeHeld(Asked, trade)'
  BY <1>1, <1>2, <1>5, <1>6, <1>8 DEF TablesOK
<1>10. TablesOK'
  BY <1>3, <1>7, <1>9 DEF TablesOK
<1>11. ASSUME HistoryCovered PROVE HistoryCovered'
  <2>1. \A id, entry : InHistory(id, entry)' =>
          \/ [order |-> id, entry |-> entry] \in db'.orderHistory
          \/ EntryPending(id, entry)'
          \/ ~WorkerWaits' /\ Dirty(Asked, id)'
    BY <1>1, <1>2, <1>5, <1>6, <1>8, <1>11 DEF HistoryCovered
  <2> QED
    BY <2>1 DEF HistoryCovered
<1> QED
  BY <1>10, <1>11

\* The worker begins a command or goes on with it.
LEMMA TablesFollow ==
  ASSUME TablesOK, TapeOK, WritersSame, db' = db, ~WorkerWaits',
         NEW command, Asked' = command, Begins(command),
         WorkerWaits \/ (Asked = command /\ Advances(command))
  PROVE  TablesOK' /\ (NoneTurnedAway' /\ HistoryCovered => HistoryCovered')
<1>1. /\ \A trade : OnTape(trade) => OnTape(trade)'
      /\ \A id, entry : InHistory(id, entry) => InHistory(id, entry)'
      /\ \A trade : OnTape(trade)' => OnTape(trade) \/ TradeHeld(command, trade)'
  BY DEF Begins, HistoryGrows, TapeGrows, Taped
<1>2. \A rows : TradesTrue(rows) => TradesTrue(rows)'
  <2> TAKE rows
  <2> HAVE TradesTrue(rows)
  <2>1. ASSUME NEW id \in DOMAIN rows PROVE id \in DOMAIN tape' /\ rows[id] = tape'[id]
    <3>1. PICK trade : trade = tape[id]
      OBVIOUS
    <3>2. OnTape(trade) /\ trade.id = id /\ rows[id] = trade
      BY <2>1, <3>1 DEF TradesTrue, TapeOK, OnTape
    <3>3. OnTape(trade)'
      BY <1>1, <3>2
    <3> QED
      BY <3>2, <3>3 DEF OnTape
  <2> QED
    BY <2>1 DEF TradesTrue
<1>3. TablesTrue(db)'
  BY <1>1, <1>2 DEF TablesOK, TablesTrue
<1>4. \A calls : CallsTrue(calls) => CallsTrue(calls)'
  BY <1>1 DEF CallsTrue, CallTrue
<1>5. /\ \A trade : TradePending(trade)' <=> TradePending(trade)
      /\ \A id, entry : EntryPending(id, entry)' <=> EntryPending(id, entry)
  BY DEF WritersSame, TradePending, EntryPending
<1>6. \A h \in Handlers : handler'[h].phase = "persisting" => CallsTrue(handler[h].calls)'
  <2> TAKE h \in Handlers
  <2> HAVE handler'[h].phase = "persisting"
  <2>1. PICK calls : calls = handler[h].calls
    OBVIOUS
  <2>2. handler'[h].calls = calls /\ CallsTrue(calls)
    BY <2>1 DEF TablesOK, WritersSame
  <2> QED
    BY <1>4, <2>2
<1>7. RunningOK(Asked)'
  BY DEF Begins
<1>8. \A trade : OnTape(trade)' =>
        \/ trade.id \in DOMAIN db'.trades
        \/ TradePending(trade)'
        \/ TradeHeld(Asked, trade)'
  <2>1. ~WorkerWaits => \A trade : TradeHeld(Asked, trade) => TradeHeld(command, trade)'
    BY DEF Advances
  <2> QED
    BY <1>1, <1>5, <2>1 DEF TablesOK
<1>9. TablesOK'
  BY <1>3, <1>6, <1>7, <1>8 DEF TablesOK
<1>10. ASSUME NoneTurnedAway', HistoryCovered PROVE HistoryCovered'
  <2>1. ~WorkerWaits => \A id : Dirty(Asked, id) => Dirty(command, id)'
    BY <1>10 DEF Advances
  <2>2. \A id, entry : InHistory(id, entry)' => InHistory(id, entry) \/ Dirty(command, id)'
    BY <1>10 DEF Begins, Recorded
  <2>3. \A id, entry : InHistory(id, entry)' =>
          \/ [order |-> id, entry |-> entry] \in db'.orderHistory
          \/ EntryPending(id, entry)'
          \/ Dirty(Asked, id)'
    BY <1>5, <1>10, <2>1, <2>2 DEF HistoryCovered
  <2> QED
    BY <2>3 DEF HistoryCovered
<1> QED
  BY <1>9, <1>10

\* The answer is what the handler is to write, or there was nothing to write.
LEMMA TablesAnswered ==
  ASSUME TablesOK, UNCHANGED vars, db' = db, DOMAIN db = Tables, DOMAIN handler = Handlers,
         serving \in Handlers, handler[serving].phase = "running", WorkerWaits',
         NEW answer, handler' = [handler EXCEPT ![serving] = answer],
         answer.phase = "persisting" => CallsTrue(answer.calls),
         \A trade : TradeHeld(Asked, trade) =>
           answer.phase = "persisting" /\ WritesTrade(answer.calls, trade),
         \A id : Dirty(Asked, id) =>
           /\ answer.phase = "persisting"
           /\ \A entry \in ToSet(history[id]) : WritesEntry(answer.calls, id, entry)
  PROVE  TablesOK' /\ (HistoryCovered => HistoryCovered')
<1>1. /\ \A trade : OnTape(trade)' <=> OnTape(trade)
      /\ \A id, entry : InHistory(id, entry)' <=> InHistory(id, entry)
      /\ \A call : CallTrue(call) => CallTrue(call)'
      /\ \A rows : TradesTrue(rows)' <=> TradesTrue(rows)
  BY DEF vars, bookVars, ghostVars, OnTape, InHistory, CallTrue, TradesTrue
<1>2. TablesTrue(db)'
  BY <1>1 DEF TablesOK, TablesTrue
<1>3. /\ handler'[serving] = answer
      /\ \A h \in Handlers : h # serving => handler'[h] = handler[h]
  OBVIOUS
<1>4. \A h \in Handlers : handler'[h].phase = "persisting" => CallsTrue(handler[h].calls)'
  <2> TAKE h \in Handlers
  <2> HAVE handler'[h].phase = "persisting"
  <2>1. PICK calls : calls = IF h = serving THEN answer.calls ELSE handler[h].calls
    OBVIOUS
  <2>2. handler'[h].calls = calls /\ CallsTrue(calls)
    BY <1>3, <2>1 DEF TablesOK
  <2>3. CallsTrue(calls)'
    BY <1>1, <2>2 DEF CallsTrue
  <2> QED
    BY <2>2, <2>3
<1>5. /\ \A trade : TradePending(trade) => TradePending(trade)'
      /\ \A id, entry : EntryPending(id, entry) => EntryPending(id, entry)'
  BY <1>3 DEF TradePending, EntryPending
<1>6. \A trade : TradeHeld(Asked, trade) => TradePending(trade)'
  BY <1>3 DEF TradePending
<1>7. \A id : Dirty(Asked, id) =>
        \A entry \in ToSet(history[id]) : EntryPending(id, entry)'
  BY <1>3 DEF EntryPending
<1>8. TablesOK'
  <2>1. \A trade : OnTape(trade)' => trade.id \in DOMAIN db'.trades \/ TradePending(trade)'
    BY <1>1, <1>5, <1>6 DEF TablesOK
  <2> QED
    BY <1>2, <1>4, <2>1 DEF TablesOK
<1>9. ASSUME HistoryCovered PROVE HistoryCovered'
  <2>1. \A id, entry : InHistory(id, entry)' =>
          \/ [order |-> id, entry |-> entry] \in db'.orderHistory
          \/ EntryPending(id, entry)'
    BY <1>1, <1>5, <1>7, <1>9 DEF HistoryCovered, InHistory
  <2> QED
    BY <2>1 DEF HistoryCovered
<1> QED
  BY <1>8, <1>9

TableInv ==
  /\ CommandedInv
  /\ Tidy => TablesOK
  /\ Tidy /\ NoneTurnedAway => HistoryCovered

LEMMA TableInit == ServerInit => TableInv
<1> SUFFICES ASSUME ServerInit PROVE TableInv
  OBVIOUS
<1>1. \A h \in Handlers : handler[h].phase # "persisting"
  BY DEF ServerInit, Free
<1>2. WorkerWaits /\ tape = <<>> /\ history = <<>>
  BY DEF ServerInit, Init, WorkerWaits
<1>3. TablesOK
  BY <1>1, <1>2 DEF ServerInit, EmptyDb, TablesOK, TablesTrue, TradesTrue, Tables, OnTape
<1>4. HistoryCovered
  BY <1>2 DEF HistoryCovered, InHistory
<1> QED
  BY <1>3, <1>4, CommandedInit DEF TableInv

\* Requests that come, are queued, are turned away, publish or read the tables.
LEMMA TableQuiet ==
  ASSUME TableInv, Tidy',
         \/ UNCHANGED allVars
         \/ \E h \in Handlers :
              \/ Receive(h) \/ SetKillSwitch(h) \/ Enqueue(h) \/ Abandon(h) \/ Publish(h)
              \/ CoverJournal(h) \/ SaveCheckpoint(h) \/ LoadCheckpoint(h) \/ ReadEvents(h)
  PROVE  TablesOK' /\ (NoneTurnedAway' => HistoryCovered')
<1>0. /\ DOMAIN handler = Handlers /\ DOMAIN db = Tables
      /\ \A h \in Handlers : DOMAIN handler[h] = Fields
      /\ \A h \in Handlers : handler[h].phase = "running" <=> serving = h
      /\ serving \in Handlers \cup {NoHandler}
  BY DEF TableInv, CommandedInv, JournalInv, ControlInv, HandlersOK, ServingOK, Shaped,
         JournalOK
<1>1. UNCHANGED vars /\ serving' = serving /\ UNCHANGED <<faults, reloaded>>
  BY DEF Receive, SetKillSwitch, Enqueue, Abandon, Publish, CoverJournal, SaveCheckpoint,
         LoadCheckpoint, ReadEvents, allVars, serverVars
<1>2. db'.trades = db.trades /\ db'.orderHistory = db.orderHistory /\ DOMAIN db' = Tables
  <2>1. CASE \E h \in Handlers : SaveCheckpoint(h)
    BY <1>0, <2>1 DEF SaveCheckpoint, RecordSnapshot, Tables
  <2>2. CASE db' = db
    BY <1>0, <2>2
  <2> QED
    BY <2>1, <2>2 DEF Receive, SetKillSwitch, Enqueue, Abandon, Publish, CoverJournal,
                      LoadCheckpoint, ReadEvents, allVars, serverVars
<1>3. WritersSame /\ (~WorkerWaits => Asked' = Asked)
  <2>1. CASE handler' = handler
    BY <1>1, <2>1 DEF WritersSame, Asked
  <2>2. ASSUME NEW h \in Handlers, NEW record, handler' = [handler EXCEPT ![h] = record],
               handler[h].phase \notin {"persisting", "running"}, record.phase # "persisting"
        PROVE  WritersSame /\ (~WorkerWaits => Asked' = Asked)
    <3>1. WritersSame
      BY <1>0, <2>2 DEF WritersSame
    <3>2. ~WorkerWaits => serving \in Handlers /\ serving # h
      BY <1>0, <2>2 DEF WorkerWaits
    <3> QED
      BY <1>0, <1>1, <2>2, <3>1, <3>2 DEF Asked
  <2>3. ASSUME NEW h \in Handlers, Abandon(h) \/ SaveCheckpoint(h)
        PROVE  WritersSame /\ (~WorkerWaits => Asked' = Asked)
    <3>1. Free.phase # "persisting"
      BY DEF Free
    <3> QED
      BY <2>2, <2>3, <3>1 DEF Abandon, SaveCheckpoint, Release
  <2>4. ASSUME NEW h \in Handlers, Enqueue(h)
        PROVE  WritersSame /\ (~WorkerWaits => Asked' = Asked)
    <3> DEFINE record == [handler[h] EXCEPT !.phase = "queued"]
    <3>1. handler' = [handler EXCEPT ![h] = record] /\ record.phase = "queued"
      BY <1>0, <2>4 DEF Enqueue, To, Fields
    <3> QED
      BY <2>2, <2>4, <3>1 DEF Enqueue
  <2>5. ASSUME NEW h \in Handlers, Receive(h)
        PROVE  WritersSame /\ (~WorkerWaits => Asked' = Asked)
    <3>1. PICK command \in ArrivingCommands :
            handler' = [handler EXCEPT
                          ![h].command = command,
                          ![h].phase = IF command.op = "replay" THEN "loading"
                                                                ELSE "received"]
      BY <2>5 DEF Receive
    <3> DEFINE record == [handler[h] EXCEPT
                            !.command = command,
                            !.phase = IF command.op = "replay" THEN "loading" ELSE "received"]
    <3>2. handler' = [handler EXCEPT ![h] = record]
      BY <1>0, <3>1
    <3>3. record.phase \in {"loading", "received"}
      BY <1>0 DEF Fields
    <3> HIDE DEF record
    <3> QED
      BY <2>2, <2>5, <3>2, <3>3 DEF Receive
  <2>6. ASSUME NEW h \in Handlers, Publish(h)
        PROVE  WritersSame /\ (~WorkerWaits => Asked' = Asked)
    <3> DEFINE record == IF handler[h].sent + 1 = Len(handler[h].events) THEN Free
                         ELSE [handler[h] EXCEPT !.sent = @ + 1]
    <3>1. handler' = [handler EXCEPT ![h] = record] /\ handler[h].phase = "publishing"
      BY <2>6 DEF Publish
    <3>2. record.phase \in {"free", "publishing"}
      BY <1>0, <3>1 DEF Fields, Free
    <3> HIDE DEF record
    <3> QED
      BY <2>2, <3>1, <3>2
  <2>7. ASSUME NEW h \in Handlers, CoverJournal(h) \/ LoadCheckpoint(h) \/ ReadEvents(h)
        PROVE  WritersSame /\ (~WorkerWaits => Asked' = Asked)
    <3>1. /\ handler[h].phase \in {"capturing", "loading", "reading"} /\ WorkerWaits
          /\ \A other \in Handlers : other # h => handler'[other] = handler[other]
      BY <1>0, <2>7 DEF CoverJournal, LoadCheckpoint, ReadEvents
    <3>2. handler'[h].phase \in {"saving", "reading", "received"}
      BY <1>0, <2>7 DEF CoverJournal, LoadCheckpoint, ReadEvents, Fields
    <3> QED
      BY <3>1, <3>2 DEF WritersSame
  <2>8. \/ handler' = handler
        \/ \E h \in Handlers :
             \/ Receive(h) \/ Enqueue(h) \/ Abandon(h) \/ Publish(h) \/ CoverJournal(h)
             \/ SaveCheckpoint(h) \/ LoadCheckpoint(h) \/ ReadEvents(h)
    BY DEF SetKillSwitch, allVars, serverVars
  <2> QED
    BY <2>1, <2>3, <2>4, <2>5, <2>6, <2>7, <2>8
<1>4. Tidy /\ (NoneTurnedAway' => NoneTurnedAway)
  BY <1>1 DEF Tidy, StopsDormant, NoneTurnedAway, vars, bookVars, ghostVars
<1> QED
  BY <1>1, <1>2, <1>3, <1>4, TablesStay DEF TableInv

LEMMA TableServe ==
  ASSUME TableInv, Serve, Tidy'
  PROVE  TablesOK' /\ (NoneTurnedAway' => HistoryCovered')
<1> DEFINE h == queue[1]
<1>1. /\ h \in Handlers /\ Head(queue) = h /\ pc = "idle" /\ handler[h].phase = "queued"
      /\ DOMAIN handler = Handlers /\ DOMAIN handler[h] = Fields /\ WorkerWaits
  BY DEF TableInv, CommandedInv, JournalInv, ControlInv, HandlersOK, QueueOK, ServingOK,
         Serve, Shaped
<1> HIDE DEF h
<1>2. PICK command : command = handler[h].command
  OBVIOUS
<1>3. /\ handler' = [handler EXCEPT ![h].phase = "running", ![h].orders = Condemned(command)]
      /\ serving' = h /\ Start(command) /\ db' = db /\ faults' = faults
      /\ reloaded' = (reloaded \/ command.op \in Reloads)
  BY <1>1, <1>2 DEF Serve
<1>4. ~reloaded /\ command.op \notin Reloads /\ EngineInv /\ Legal(command)
  BY <1>1, <1>2, <1>3 DEF Tidy, TableInv, CommandedInv, CommandsOK
<1>5. Begins(command)
  BY <1>1, <1>3, <1>4, StartBegins
<1>6. Tidy
  <2>1. [Next]_vars \/ (pc = "idle" /\ OrderNotFound)
    BY <1>4, EngineMoves DEF ServerNext, Worker, TableInv, CommandedInv, JournalInv, Tidy
  <2>2. StopsDormant
    BY <1>4, <2>1, DormantBefore DEF Tidy
  <2> QED
    BY <1>3, <1>4, <2>2 DEF Tidy
<1>7. WritersSame /\ Asked' = command /\ ~WorkerWaits'
  <2>1. /\ handler'[h].phase = "running" /\ handler'[h].command = command
        /\ \A other \in Handlers : other # h => handler'[other] = handler[other]
    BY <1>1, <1>2, <1>3 DEF Fields
  <2> QED
    BY <1>1, <1>3, <2>1, ServerAssumption DEF WritersSame, Asked, WorkerWaits
<1>8. TablesOK /\ (NoneTurnedAway' => HistoryCovered)
  BY <1>5, <1>6 DEF TableInv, Begins
<1> QED
  BY <1>1, <1>3, <1>4, <1>5, <1>7, <1>8, TablesFollow DEF EngineInv

LEMMA TableWork ==
  ASSUME TableInv, Work, Tidy'
  PROVE  TablesOK' /\ (NoneTurnedAway' => HistoryCovered')
<1>1. UNCHANGED serverVars /\ ~WorkerWaits /\ ~WorkerWaits'
  BY WorkPhase DEF serverVars, WorkerWaits
<1>2. EngineInv
  BY <1>1 DEF Tidy, TableInv, CommandedInv, serverVars
<1>3. Tidy
  <2>1. [Next]_vars \/ (pc = "idle" /\ OrderNotFound)
    BY EngineMoves DEF ServerNext, Worker, TableInv, CommandedInv, JournalInv, Tidy
  <2>2. StopsDormant
    BY <1>2, <2>1, DormantBefore DEF Tidy
  <2> QED
    BY <1>1, <2>2 DEF Tidy, serverVars
<1>4. TablesOK /\ RunningOK(Asked)
  BY <1>1, <1>3 DEF TableInv, TablesOK
<1>5. PICK command : command = Asked
  OBVIOUS
<1>6. Advances(command)
  BY <1>2, <1>4, <1>5, WorkAdvances DEF TableInv, CommandedInv, Tidy
<1>7. WritersSame /\ Asked' = command /\ db' = db
  BY <1>1, <1>5 DEF WritersSame, Asked, serverVars
<1>8. Begins(command)
  BY <1>6 DEF Advances
<1>9. NoneTurnedAway' => HistoryCovered
  BY <1>3, <1>8 DEF TableInv, Begins
<1> QED
  BY <1>1, <1>2, <1>4, <1>5, <1>6, <1>7, <1>8, <1>9, TablesFollow DEF EngineInv

\* The handler gets the answer, and what it is to write.
LEMMA TableRespond ==
  ASSUME TableInv, Respond, Tidy'
  PROVE  TablesOK' /\ (NoneTurnedAway' => HistoryCovered')
<1>1. /\ serving \in Handlers /\ DOMAIN handler = Handlers /\ DOMAIN db = Tables
      /\ Shaped(handler[serving]) /\ handler[serving].phase = "running"
      /\ pc = "idle" /\ ~WorkerWaits
  <2>1. ~WorkerWaits /\ pc = "idle"
    BY DEF Respond
  <2> QED
    BY <2>1 DEF TableInv, CommandedInv, JournalInv, ControlInv, ServingOK, HandlersOK,
                JournalOK, WorkerWaits
<1>2. /\ UNCHANGED vars /\ serving' = NoHandler /\ WorkerWaits' /\ db' = db
      /\ UNCHANGED <<faults, reloaded>>
      /\ handler' = [handler EXCEPT ![serving] = Answered(handler[serving])]
  BY DEF Respond, WorkerWaits
<1>3. Tidy /\ (NoneTurnedAway' => NoneTurnedAway)
  BY <1>2 DEF Tidy, StopsDormant, NoneTurnedAway, vars, bookVars, ghostVars
<1>4. /\ TablesOK /\ (NoneTurnedAway' => HistoryCovered)
      /\ EngineInv /\ Lists /\ RunningOK(Asked) /\ Reports(Asked.op)
  BY <1>1, <1>3 DEF TableInv, TablesOK, Tidy, CommandedInv, JournalInv, ReportOK, Lists, Asked
<1>5. fills = <<>> /\ cancelled = <<>>
  BY <1>1, <1>4 DEF EngineInv, StopsOK, FillsFlow, MassCancelInv, MassCancelOK
<1> DEFINE answer == Answered(handler[serving])
<1>8. handler' = [handler EXCEPT ![serving] = answer]
  BY <1>2
<1>6. CASE Asked.op \in Mutations /\ events # <<>>
  <2> DEFINE calls == CallsFor(Asked, handler[serving].orders)
  <2>1. answer = [handler[serving] EXCEPT !.phase = "persisting", !.orders = {},
                                          !.events = events, !.calls = calls]
    BY <1>6 DEF Answered, Mutations, Reloads, Asked
  <2>2. /\ CallsTrue(calls)
        /\ \A trade : TradeHeld(Asked, trade) => WritesTrade(calls, trade)
        /\ \A id : Dirty(Asked, id) =>
             \A entry \in ToSet(history[id]) : WritesEntry(calls, id, entry)
    BY <1>1, <1>4, <1>6, CallsCover
  <2> HIDE DEF calls
  <2>3. answer.phase = "persisting" /\ answer.calls = calls
    BY <1>1, <2>1 DEF Shaped, Fields
  <2> HIDE DEF answer
  <2> QED
    BY <1>1, <1>2, <1>4, <1>8, <2>2, <2>3, TablesAnswered
<1>7. CASE ~(Asked.op \in Mutations /\ events # <<>>)
  <2>1. answer.phase # "persisting"
    <3> DEFINE record == handler[serving]
    <3>1. /\ answer.phase \in {"free", "publishing", "capturing", "greeting"}
      BY <1>1, <1>7 DEF Answered, Asked, Shaped, Fields, Free, Mutations, Reloads
    <3> QED
      BY <3>1
  <2>2. /\ \A trade : ~TradeHeld(Asked, trade)
        /\ \A id : ~Dirty(Asked, id)
    <3>1. ToSet(<<>>) = {}
      BY DEF ToSet
    <3> QED
      BY <1>1, <1>5, <1>7, <3>1, NoMakers DEF TradeHeld, OrderHeld, Dirty, OrderDirty, Mutations
  <2> HIDE DEF answer
  <2> QED
    BY <1>1, <1>2, <1>4, <1>8, <2>1, <2>2, TablesAnswered
<1> QED
  BY <1>6, <1>7

\* A handler writes what it had to write.
LEMMA TablePersist ==
  ASSUME TableInv, NEW h \in Handlers, Persist(h), Tidy'
  PROVE  TablesOK' /\ (NoneTurnedAway' => HistoryCovered')
<1>1. /\ DOMAIN handler = Handlers /\ DOMAIN handler[h] = Fields /\ DOMAIN db = Tables
      /\ handler[h].phase = "persisting" /\ WorkerWaits
  BY DEF Persist, TableInv, CommandedInv, JournalInv, ControlInv, HandlersOK, Shaped, JournalOK
<1>2. /\ UNCHANGED vars /\ WorkerWaits' /\ UNCHANGED <<faults, reloaded>>
  BY DEF Persist, WorkerWaits
<1>3. PICK calls : calls = handler[h].calls
  OBVIOUS
<1>4. /\ db' = PerformAll(db, calls)
      /\ handler'[h].phase = "publishing"
      /\ \A other \in Handlers : other # h => handler'[other] = handler[other]
  BY <1>1, <1>3 DEF Persist, Fields
<1>5. Tidy /\ (NoneTurnedAway' => NoneTurnedAway)
  BY <1>2 DEF Tidy, StopsDormant, NoneTurnedAway, vars, bookVars, ghostVars
<1>6. TablesOK /\ (NoneTurnedAway' => HistoryCovered) /\ CallsTrue(calls)
  BY <1>1, <1>3, <1>5 DEF TableInv, TablesOK
<1>7. KeepsTables(db, db') /\ \A i \in DOMAIN calls : Written(calls[i], db')
  BY <1>4, <1>6, CallsWrite DEF CallsTrue
<1>8. /\ DOMAIN db' = Tables /\ TablesTrue(db')
      /\ DOMAIN db.trades \subseteq DOMAIN db'.trades
      /\ db.orderHistory \subseteq db'.orderHistory
  BY <1>1, <1>6, <1>7 DEF KeepsTables, TablesOK
<1>9. /\ \A trade : WritesTrade(calls, trade) => trade.id \in DOMAIN db'.trades
      /\ \A id, entry : WritesEntry(calls, id, entry)
                          => [order |-> id, entry |-> entry] \in db'.orderHistory
  BY <1>7, <1>8 DEF Written, WritesTrade, WritesEntry
<1>10. /\ \A trade : OnTape(trade)' <=> OnTape(trade)
       /\ \A id, entry : InHistory(id, entry)' <=> InHistory(id, entry)
       /\ \A call : CallTrue(call) => CallTrue(call)'
       /\ \A rows : TablesTrue(rows) => TablesTrue(rows)'
  BY <1>2 DEF vars, bookVars, ghostVars, OnTape, InHistory, CallTrue, TablesTrue, TradesTrue
<1>11. \A other \in Handlers :
         handler'[other].phase = "persisting" => CallsTrue(handler[other].calls)'
  <2> TAKE other \in Handlers
  <2> HAVE handler'[other].phase = "persisting"
  <2>1. PICK theirs : theirs = handler[other].calls
    OBVIOUS
  <2>2. handler'[other].calls = theirs /\ CallsTrue(theirs)
    BY <1>4, <1>6, <2>1 DEF TablesOK
  <2>3. CallsTrue(theirs)'
    BY <1>10, <2>2 DEF CallsTrue
  <2> QED
    BY <2>2, <2>3
<1>12. /\ \A trade : TradePending(trade) => TradePending(trade)' \/ WritesTrade(calls, trade)
       /\ \A id, entry : EntryPending(id, entry)
                           => EntryPending(id, entry)' \/ WritesEntry(calls, id, entry)
  BY <1>3, <1>4 DEF TradePending, EntryPending
<1>13. TablesOK'
  <2>1. \A trade : OnTape(trade)' => trade.id \in DOMAIN db'.trades \/ TradePending(trade)'
    BY <1>1, <1>6, <1>8, <1>9, <1>10, <1>12 DEF TablesOK
  <2>2. PICK rows : rows = db'
    OBVIOUS
  <2>3. TablesTrue(rows)'
    BY <1>8, <1>10, <2>2
  <2>4. TablesTrue(db)'
    BY <2>2, <2>3
  <2> QED
    BY <1>2, <1>11, <2>1, <2>4 DEF TablesOK
<1>14. ASSUME NoneTurnedAway' PROVE HistoryCovered'
  <2>1. \A id, entry : InHistory(id, entry)' =>
          \/ [order |-> id, entry |-> entry] \in db'.orderHistory
          \/ EntryPending(id, entry)'
    BY <1>1, <1>6, <1>8, <1>9, <1>10, <1>12, <1>14 DEF HistoryCovered
  <2> QED
    BY <2>1 DEF HistoryCovered
<1> QED
  BY <1>13, <1>14

LEMMA TableStep == TableInv /\ [ServerNext]_allVars => TableInv'
<1> SUFFICES ASSUME TableInv, [ServerNext]_allVars PROVE TableInv'
  OBVIOUS
<1>1. CommandedInv'
  BY CommandedStep DEF TableInv
<1>2. ASSUME Tidy' PROVE TablesOK' /\ (NoneTurnedAway' => HistoryCovered')
  <2>1. CASE UNCHANGED allVars
    BY <1>2, <2>1, TableQuiet
  <2>2. CASE Worker
    BY <1>2, <2>2, TableServe, TableWork, TableRespond DEF Worker
  <2>3. ASSUME NEW h \in Handlers, HandlerStep(h) \/ Arrival(h)
        PROVE  TablesOK' /\ (NoneTurnedAway' => HistoryCovered')
    BY <1>2, <2>3, TableQuiet, TablePersist DEF HandlerStep, Arrival
  <2>4. ~Failure
    <3>1. SUFFICES ASSUME Failure PROVE FALSE
      OBVIOUS
    <3>2. faults' = faults + 1
      BY <3>1 DEF Failure, AnswerUnheard, Panic, PersistFails, DbFails, Crash, Fault
    <3>3. faults \in Nat
      BY DEF TableInv, CommandedInv, CommandsOK
    <3> QED
      BY <1>2, <3>2, <3>3 DEF Tidy
  <2>5. CASE Finished
    BY <2>1, <2>5 DEF Finished
  <2> QED
    BY <2>1, <2>2, <2>3, <2>4, <2>5 DEF ServerNext
<1> QED
  BY <1>1, <1>2 DEF TableInv

(***************************************************************************)
(* At rest.                                                                *)
(***************************************************************************)

LEMMA AtRest ==
  ASSUME TableInv, CleanRest, StopsDormant
  PROVE  /\ TablesOK /\ EngineInv
         /\ NoneTurnedAway => HistoryCovered
         /\ WorkerWaits /\ \A h \in Handlers : handler[h].phase # "persisting"
<1>1. Tidy /\ AllFree
  BY DEF CleanRest, Tidy
<1>2. WorkerWaits
  BY <1>1 DEF AllFree, TableInv, CommandedInv, JournalInv, ControlInv, ServingOK, WorkerWaits
<1> QED
  BY <1>1, <1>2 DEF TableInv, CommandedInv, Tidy, AllFree

\* At a clean rest the order_history table holds what the engine remembers of every
\* order, the makers' part included (command.rs:248-263, db.rs:709-729): each handler
\* writes the histories as they are when it writes, a row that is there already stays,
\* and whatever the engine has added since is for a handler that has yet to write.
THEOREM HistoriesWritten == ServerSpec => []HistoryTableComplete
<1>1. TableInv => HistoryTableComplete
  <2>1. SUFFICES ASSUME TableInv, CleanRest, NoneTurnedAway, StopsDormant
                 PROVE  /\ {row.order : row \in db.orderHistory} = DOMAIN history
                        /\ \A id \in DOMAIN history : HistoryRows(db, id) = ToSet(history[id])
    BY DEF HistoryTableComplete
  <2>2. /\ \A row \in db.orderHistory : InHistory(row.order, row.entry)
        /\ \A id, entry : InHistory(id, entry)
                            => [order |-> id, entry |-> entry] \in db.orderHistory
    BY <2>1, AtRest DEF TablesOK, TablesTrue, HistoryCovered, EntryPending
  <2>3. \A id \in DOMAIN history : \E entry : InHistory(id, entry)
    <3>1. SUFFICES ASSUME NEW id \in DOMAIN history
                   PROVE  \E entry : InHistory(id, entry)
      OBVIOUS
    <3>2. IsSequence(history[id]) /\ history[id] # <<>>
      BY <2>1, <3>1, AtRest, HistoryLists
         DEF EngineInv, MassCancelInv, HistoryInv, HistoryOK
    <3>3. 1 \in DOMAIN history[id]
      BY <3>2, EmptySeq DEF IsSequence
    <3> QED
      BY <3>1, <3>3 DEF InHistory, ToSet
  <2>4. {row.order : row \in db.orderHistory} = DOMAIN history
    <3>1. \A row \in db.orderHistory : row.order \in DOMAIN history
      BY <2>2 DEF InHistory
    <3>2. \A id \in DOMAIN history : \E row \in db.orderHistory : row.order = id
      <4> TAKE id \in DOMAIN history
      <4>1. PICK entry : [order |-> id, entry |-> entry] \in db.orderHistory
        BY <2>2, <2>3
      <4> QED
        BY <4>1
    <3> QED
      BY <3>1, <3>2
  <2>5. ASSUME NEW id \in DOMAIN history
        PROVE  HistoryRows(db, id) = ToSet(history[id])
    <3>1. \A entry \in HistoryRows(db, id) : entry \in ToSet(history[id])
      BY <2>2 DEF HistoryRows, InHistory
    <3>2. \A entry \in ToSet(history[id]) : entry \in HistoryRows(db, id)
      <4> TAKE entry \in ToSet(history[id])
      <4> DEFINE row == [order |-> id, entry |-> entry]
      <4>1. row \in db.orderHistory
        BY <2>2, <2>5 DEF InHistory
      <4>2. row.order = id /\ row.entry = entry
        OBVIOUS
      <4> HIDE DEF row
      <4> QED
        BY <4>1, <4>2 DEF HistoryRows
    <3> QED
      BY <3>1, <3>2
  <2> QED
    BY <2>4, <2>5
<1> QED
  BY <1>1, TableInit, TableStep, PTL DEF ServerSpec

(***************************************************************************)
(* The list of trades.                                                     *)
(***************************************************************************)

\* A decreasing list of n of the numbers up to n counts down.
LEMMA CountsDown ==
  ASSUME NEW n \in Nat, NEW g \in [1..n -> 1..n],
         \A i, j \in 1..n : i < j => g[i] > g[j]
  PROVE  \A i \in 1..n : g[i] = n + 1 - i
<1>1. \A i \in 1..n : g[i] \in 1..n
  OBVIOUS
<1>2. \A i \in 1..n : g[i] <= n + 1 - i
  <2> DEFINE bad == {i \in 1..n : g[i] > n + 1 - i}
  <2>1. SUFFICES ASSUME NEW k \in 1..n, ~(g[k] <= n + 1 - k) PROVE FALSE
    OBVIOUS
  <2>7. bad # {}
    <3>1. g[k] \in 1..n
      BY <1>1
    <3>2. g[k] > n + 1 - k
      BY <2>1, <3>1
    <3> QED
      BY <3>2
  <2>2. PICK i \in bad : \A j \in bad : i <= j
    <3>1. bad \subseteq Nat
      OBVIOUS
    <3> HIDE DEF bad
    <3> QED
      BY <2>7, <3>1, Inserting!LeastNatural
  <2>3. i \in 1..n /\ g[i] > n + 1 - i /\ g[i] \in 1..n
    BY <1>1
  <2>4. i - 1 \in 1..n /\ i - 1 < i /\ i - 1 \notin bad
    <3>1. i # 1
      BY <2>3
    <3>2. i - 1 \in 1..n /\ i - 1 < i
      BY <2>3, <3>1
    <3> HIDE DEF bad
    <3> QED
      BY <2>2, <2>3, <3>2
  <2>5. g[i - 1] > g[i] /\ g[i - 1] \in 1..n
    BY <1>1, <2>3, <2>4
  <2>6. ~(g[i - 1] > n + 1 - (i - 1))
    BY <2>4
  <2> QED
    BY <2>3, <2>4, <2>5, <2>6
<1>3. \A i \in 1..n : g[i] >= n + 1 - i
  <2> DEFINE bad == {i \in 1..n : g[i] < n + 1 - i}
  <2>1. SUFFICES ASSUME NEW k \in 1..n, ~(g[k] >= n + 1 - k) PROVE FALSE
    OBVIOUS
  <2>7. bad # {}
    <3>1. g[k] \in 1..n
      BY <1>1
    <3>2. g[k] < n + 1 - k
      BY <2>1, <3>1
    <3> QED
      BY <3>2
  <2>2. PICK i \in bad : \A j \in bad : j <= i
    <3>1. bad \subseteq 0..n
      OBVIOUS
    <3> HIDE DEF bad
    <3> QED
      BY <2>7, <3>1, Inserting!GreatestNatural
  <2>3. i \in 1..n /\ g[i] < n + 1 - i /\ g[i] \in 1..n
    BY <1>1
  <2>4. i + 1 \in 1..n /\ i < i + 1 /\ i + 1 \notin bad
    <3>1. i # n
      BY <2>3
    <3>2. i + 1 \in 1..n /\ i < i + 1
      BY <2>3, <3>1
    <3> HIDE DEF bad
    <3> QED
      BY <2>2, <2>3, <3>2
  <2>5. g[i] > g[i + 1] /\ g[i + 1] \in 1..n
    BY <1>1, <2>3, <2>4
  <2>6. ~(g[i + 1] < n + 1 - (i + 1))
    BY <2>4
  <2> QED
    BY <2>3, <2>4, <2>5, <2>6
<1> QED
  BY <1>1, <1>2, <1>3

Decreasing(list) == \A i, j \in DOMAIN list : i < j => list[i].sequence > list[j].sequence

\* There is one way to list the trades of the tape by descending sequence number.
LEMMA TapeListed ==
  ASSUME TapeOK, tape \in Seq(Trade), NEW rows, rows = {tape[i] : i \in DOMAIN tape}
  PROVE  /\ Cardinality(rows) = Len(tape)
         /\ Reverse(tape) \in [1..Len(tape) -> rows] /\ Decreasing(Reverse(tape))
         /\ \A list \in [1..Len(tape) -> rows] : Decreasing(list) => list = Reverse(tape)
<1> DEFINE n == Len(tape)
<1>1. n \in Nat /\ DOMAIN tape = 1..n /\ \A i \in 1..n : tape[i] \in Trade
  BY ElementOfSeq
<1>2. \A i \in 1..n : tape[i].id = i /\ tape[i].sequence \in Nat
  BY <1>1 DEF TapeOK, Trade
<1>3. \A i, j \in 1..n : i < j => tape[i].sequence < tape[j].sequence
  BY <1>1 DEF TapeOK
<1> HIDE DEF n
<1>4. Cardinality(rows) = n
  <2> DEFINE f == [i \in 1..n |-> tape[i]]
  <2>1. f \in Bijection(1..n, rows)
    <3>1. f \in [1..n -> rows]
      BY <1>1
    <3>2. \A i, j \in 1..n : f[i] = f[j] => i = j
      BY <1>2
    <3>3. \A t \in rows : \E i \in 1..n : f[i] = t
      BY <1>1
    <3> HIDE DEF f
    <3> QED
      BY <3>1, <3>2, <3>3 DEF Bijection, Injection, Surjection, IsInjective
  <2>2. IsFiniteSet(1..n) /\ Cardinality(1..n) = n
    <3>1. 1 \in Int /\ n \in Int
      BY <1>1
    <3>2. IsFiniteSet(1..n) /\ Cardinality(1..n) = IF 1 > n THEN 0 ELSE n - 1 + 1
      BY <3>1, FS_Interval
    <3> QED
      BY <1>1, <3>2
  <2> QED
    BY <2>1, <2>2, FS_Bijection DEF ExistsBijection
<1> DEFINE reversed == [i \in 1..n |-> tape[(n - i) + 1]]
<1>5. Reverse(tape) = reversed
  BY DEF Reverse, n
<1>6. \A i \in 1..n : (n - i) + 1 \in 1..n
  BY <1>1
<1>7. reversed \in [1..n -> rows]
  BY <1>1, <1>6
<1>8. Decreasing(reversed)
  <2>1. \A i, j \in 1..n : i < j => reversed[i].sequence > reversed[j].sequence
    <3> TAKE i, j \in 1..n
    <3> HAVE i < j
    <3>1. /\ (n - i) + 1 \in 1..n /\ (n - j) + 1 \in 1..n
          /\ (n - j) + 1 < (n - i) + 1
      BY <1>1
    <3>2. tape[(n - j) + 1].sequence < tape[(n - i) + 1].sequence
      BY <1>3, <3>1
    <3> QED
      BY <1>2, <3>1, <3>2
  <2>2. DOMAIN reversed = 1..n
    OBVIOUS
  <2> HIDE DEF reversed
  <2> QED
    BY <2>1, <2>2 DEF Decreasing
<1>9. ASSUME NEW list \in [1..n -> rows], Decreasing(list)
      PROVE  list = reversed
  <2> DEFINE g == [i \in 1..n |-> list[i].id]
  <2>1. \A i \in 1..n : list[i].id \in 1..n /\ list[i] = tape[list[i].id]
    <3> TAKE i \in 1..n
    <3>1. PICK k \in 1..n : list[i] = tape[k]
      BY <1>1
    <3> QED
      BY <1>2, <3>1
  <2>2. \A i, j \in 1..n : i < j => list[i].id > list[j].id
    <3> TAKE i, j \in 1..n
    <3> HAVE i < j
    <3>1. list[i].sequence > list[j].sequence
      BY <1>9 DEF Decreasing
    <3>2. PICK k, m \in 1..n : k = list[i].id /\ m = list[j].id
      BY <2>1
    <3>3. list[i] = tape[k] /\ list[j] = tape[m]
      BY <2>1, <3>2
    <3>4. ~(k < m) /\ k # m
      BY <1>2, <1>3, <3>1, <3>3
    <3>5. k \in Nat /\ m \in Nat
      OBVIOUS
    <3>6. k > m
      BY <3>4, <3>5
    <3> QED
      BY <3>2, <3>6
  <2>3. g \in [1..n -> 1..n] /\ \A i \in 1..n : g[i] = list[i].id
    BY <2>1
  <2> HIDE DEF g
  <2>4. \A i \in 1..n : g[i] = n + 1 - i
    BY <1>1, <2>2, <2>3, CountsDown
  <2>5. \A i \in 1..n : list[i] = tape[(n - i) + 1]
    <3> TAKE i \in 1..n
    <3>1. list[i].id = n + 1 - i /\ n + 1 - i = (n - i) + 1
      <4>1. list[i].id = n + 1 - i
        BY <2>3, <2>4
      <4>2. i \in Nat /\ n + 1 - i = (n - i) + 1
        BY <1>1
      <4> QED
        BY <4>1, <4>2
    <3> QED
      BY <2>1, <3>1
  <2> QED
    BY <2>5
<1> HIDE DEF reversed
<1> QED
  BY <1>4, <1>5, <1>7, <1>8, <1>9 DEF n

\* At a clean rest GET /trades lists every trade the engine has made, once and newest
\* first (db.rs:163-171, 219-240), in whatever order the handlers wrote them.
THEOREM TradesWritten == ServerSpec => []TradesTableComplete
<1>1. TableInv => TradesTableComplete
  <2>1. SUFFICES ASSUME TableInv, CleanRest, StopsDormant
                 PROVE  StoredTrades(db) = Reverse(tape)
    BY DEF TradesTableComplete
  <2>2. /\ TradesTrue(db.trades) /\ TapeOK /\ tape \in Seq(Trade)
        /\ \A trade : OnTape(trade) => trade.id \in DOMAIN db.trades
    BY <2>1, AtRest, BaseImplies
       DEF TablesOK, TablesTrue, TradePending, EngineInv, BaseFacts
  <2> DEFINE rows == {db.trades[id] : id \in DOMAIN db.trades}
  <2>3. DOMAIN db.trades = DOMAIN tape
    <3>1. \A i \in DOMAIN tape : OnTape(tape[i]) /\ tape[i].id = i
      BY <2>2 DEF OnTape, TapeOK
    <3>2. \A i \in DOMAIN tape : i \in DOMAIN db.trades
      BY <2>2, <3>1
    <3>3. \A id \in DOMAIN db.trades : id \in DOMAIN tape
      BY <2>2 DEF TradesTrue
    <3> QED
      BY <3>2, <3>3
  <2>4. \A i \in DOMAIN tape : db.trades[i] = tape[i]
    BY <2>2, <2>3 DEF TradesTrue
  <2>5. rows = {tape[i] : i \in DOMAIN tape}
    BY <2>3, <2>4
  <2>6. StoredTrades(db) = CHOOSE list \in [1..Cardinality(rows) -> rows] : Decreasing(list)
    BY DEF StoredTrades, Decreasing
  <2> HIDE DEF rows
  <2>7. /\ Cardinality(rows) = Len(tape)
        /\ Reverse(tape) \in [1..Len(tape) -> rows] /\ Decreasing(Reverse(tape))
        /\ \A list \in [1..Len(tape) -> rows] : Decreasing(list) => list = Reverse(tape)
    BY <2>2, <2>5, TapeListed
  <2> QED
    BY <2>6, <2>7
<1> QED
  BY <1>1, TableInit, TableStep, PTL DEF ServerSpec
==============================================================================
