------------------------------ MODULE ApiServer ------------------------------
(***************************************************************************)
(* The server around the engine: REST handlers that run concurrently       *)
(* (src/backend/src/api.rs), the worker thread that owns the book and its  *)
(* queue (engine/command.rs), the audit database under its mutex (db.rs),  *)
(* the broadcast of events, and the restart of the process (main.rs).      *)
(*                                                                         *)
(* A handler that changes the book goes through                            *)
(*   free -> received -> queued -> running -> persisting -> publishing     *)
(* and answers its client when it is free again.  A checkpoint goes from   *)
(* running through capturing and saving, a replay through loading and      *)
(* reading before it is received.                                          *)
(*                                                                         *)
(* The worker's steps inside a command are those of OrderBook.  Nothing    *)
(* else moves meanwhile: they touch only the book, which no handler can    *)
(* see, so a behaviour in which another handler moves in the middle of a   *)
(* command differs from one in which it moves before or after in no state  *)
(* that matters.  For the same reason the calls a handler makes to the     *)
(* database under one hold of the mutex are one step.                      *)
(*                                                                         *)
(* Requests that read (GET routes) change nothing and are left out.        *)
(* A request for a stream is served here up to its book snapshot; Feed     *)
(* continues it.                                                           *)
(***************************************************************************)
EXTENDS BookReplay, AuditDb

CONSTANTS
  Handlers,     (* the requests that can be in progress at the same time   *)
  NoHandler,    (* not one of them                                         *)
  Operations,   (* handler -> the operations it may receive                *)
  Faults,       (* which of "db", "panic", "crash", "disconnect" happen    *)
  MaxRequests,  (* bound: requests ever received                           *)
  MaxFaults     (* bound: faults that ever happen                          *)

ASSUME ServerAssumption ==
  /\ NoHandler \notin Handlers
  /\ Faults \subseteq {"db", "panic", "crash", "disconnect"}
  /\ MaxFaults \in Nat
  /\ MaxRequests \in Nat
  /\ MaxRequests <= MaxOrders

VARIABLES
  handler,      (* handler -> what it is doing                             *)
  queue,        (* the worker's mpsc queue: handlers with a command in it  *)
  serving,      (* the handler whose command the worker runs, or NoHandler *)
  workerUp,     (* is the worker thread alive?                             *)
  killSwitch,   (* AppState.kill_switch                                    *)
  db,           (* AppState.db                                             *)
  bus,          (* AppState.events: everything broadcast by this process   *)
  requests,     (* bound: requests received so far                         *)
  faults,       (* bound: faults so far                                    *)
  acknowledged, (* history variable: the event lists of the commands whose *)
                (* clients were told they succeeded                        *)
  reloaded      (* history variable: has the book been replaced by a       *)
                (* replay, a restore or a restart?                         *)

serverVars == <<handler, queue, serving, workerUp, killSwitch, db, bus, requests,
                faults, acknowledged, reloaded>>
allVars == <<vars, serverVars>>

(***************************************************************************)
(* Commands and handlers.                                                  *)
(***************************************************************************)

\* The EngineCommand a request becomes.
NoCommand               == [op |-> "none"]
SubmitCommand(req)      == [op |-> "submit", req |-> req]
CancelCommand(id)       == [op |-> "cancel", id |-> id]
ReplaceCommand(id, req) == [op |-> "replace", id |-> id, req |-> req]
MassCancelCommand       == [op |-> "mass_cancel"]
CheckpointCommand       == [op |-> "checkpoint"]
RestoreCommand(snapshot) == [op |-> "restore", snapshot |-> snapshot]
ReplayCommand(checkpoint, recorded) ==
  [op |-> "replay", checkpoint |-> checkpoint, events |-> recorded]
StreamCommand           == [op |-> "stream"]

Mutations == {"submit", "cancel", "replace", "mass_cancel"}
Reloads   == {"restore", "replay"}

\* The operations the kill switch turns away.
SwitchGuardedMutant(op) == op = "submit"

SwitchGuarded(op) == op \in {"submit", "replace"}

HandlerPhase == {"free", "received", "queued", "running", "persisting", "publishing",
                 "capturing", "saving", "loading", "reading", "greeting", "greeted",
                 "streaming"}

\* `orders' are the orders the running cancel is about to cancel, `calls' what the
\* handler has to persist, `events' what it has to publish, `sent' how many of
\* those are published, `checkpoint' the one it is recording.
Free == [phase |-> "free", command |-> NoCommand, orders |-> {}, calls |-> <<>>,
         events |-> <<>>, sent |-> 0, checkpoint |-> <<>>]

To(h, phase) == handler' = [handler EXCEPT ![h].phase = phase]

\* The client gets its answer, or an error.
Release(h) == handler' = [handler EXCEPT ![h] = Free]

WorkerWaits == serving = NoHandler

Fault(kind) ==
  /\ kind \in Faults
  /\ faults < MaxFaults
  /\ faults' = faults + 1

ServerInit ==
  /\ Init
  /\ handler = [h \in Handlers |-> Free]
  /\ queue = <<>>
  /\ serving = NoHandler
  /\ workerUp = TRUE
  /\ killSwitch = FALSE
  /\ db = EmptyDb
  /\ bus = <<>>
  /\ requests = 0
  /\ faults = 0
  /\ acknowledged = {}
  /\ reloaded = FALSE

(***************************************************************************)
(* A request arrives.                                                      *)
(***************************************************************************)

\* The ids worth naming are those of the active orders and of the next, which may be
\* active by the time the command runs; one that is active at neither time is
\* OrderNotFound like an order that is filled meanwhile.
KnownIds == ActiveIds \cup {nextOrderId}

\* The requests a client may send.  The snapshot it restores is one that a checkpoint
\* has stored, although the code takes any.
ArrivingCommands ==
  {SubmitCommand(req) : req \in Requests}
    \cup {CancelCommand(id) : id \in KnownIds}
    \cup {ReplaceCommand(id, req) : id \in KnownIds, req \in Requests}
    \cup {MassCancelCommand, CheckpointCommand, ReplayCommand(<<>>, <<>>), StreamCommand}
    \cup {RestoreCommand(checkpoint.snapshot) : checkpoint \in ToSet(db.snapshots)}

\* One that the kill switch turns away is answered with an error on the spot and
\* changes nothing.  A replay first reads the database.
Receive(h) ==
  /\ WorkerWaits
  /\ handler[h].phase = "free"
  /\ requests < MaxRequests
  /\ \E command \in ArrivingCommands :
       /\ command.op \in Operations[h]
       /\ SwitchGuarded(command.op) => ~killSwitch
       /\ handler' = [handler EXCEPT
                        ![h].command = command,
                        ![h].phase = IF command.op = "replay" THEN "loading" ELSE "received"]
  /\ requests' = requests + 1
  /\ UNCHANGED <<vars, queue, serving, workerUp, killSwitch, db, bus, faults,
                 acknowledged, reloaded>>

SetKillSwitch(h) ==
  /\ WorkerWaits
  /\ handler[h].phase = "free"
  /\ "kill_switch" \in Operations[h]
  /\ requests < MaxRequests
  /\ killSwitch' = ~killSwitch
  /\ requests' = requests + 1
  /\ UNCHANGED <<vars, handler, queue, serving, workerUp, db, bus, faults,
                 acknowledged, reloaded>>

EnqueueMutant(h) ==
  /\ WorkerWaits
  /\ handler[h].phase = "received"
  /\ queue' = Append(queue, h)
  /\ To(h, "queued")
  /\ UNCHANGED <<vars, serving, workerUp, killSwitch, db, bus, requests, faults,
                 acknowledged, reloaded>>

\* EngineWorker::dispatch.
Enqueue(h) ==
  /\ WorkerWaits
  /\ handler[h].phase = "received"
  /\ workerUp
  /\ queue' = Append(queue, h)
  /\ To(h, "queued")
  /\ UNCHANGED <<vars, serving, workerUp, killSwitch, db, bus, requests, faults,
                 acknowledged, reloaded>>

AbandonMutant(h) ==
  /\ handler[h].phase \in {"received", "queued"}
  /\ ~workerUp
  /\ To(h, "received")
  /\ UNCHANGED <<vars, queue, serving, workerUp, killSwitch, db, bus, requests,
                 faults, acknowledged, reloaded>>

\* QueueClosed for a command that comes too late, ResponseDropped for one that was
\* waiting when the worker died.
Abandon(h) ==
  /\ handler[h].phase \in {"received", "queued"}
  /\ ~workerUp
  /\ Release(h)
  /\ UNCHANGED <<vars, queue, serving, workerUp, killSwitch, db, bus, requests,
                 faults, acknowledged, reloaded>>

(***************************************************************************)
(* The worker.                                                             *)
(***************************************************************************)

\* cancel and replace of an order that is not active: OrderNotFound.
OrderNotFound ==
  /\ events' = <<>>
  /\ UNCHANGED <<counterVars, sequence, bookVars, history, recentTrades, controlVars,
                 ghostVars>>

\* The last journal id a checkpoint covers; `checkpoint' is none or one, as a
\* sequence.
CoveredBy(checkpoint) == IF checkpoint = <<>> THEN 0 ELSE checkpoint[1].covers

FromCheckpoint(checkpoint, recorded) ==
  Replayed(IF checkpoint = <<>> THEN EmptyBook ELSE Restored(checkpoint[1].snapshot),
           recorded)

\* The beginning of apply_command.
Start(command) ==
  \/ command.op = "submit" /\ Submit(command.req)
  \/ command.op = "cancel" /\ command.id \in ActiveIds /\ Cancel(command.id)
  \/ command.op = "replace" /\ command.id \in ActiveIds /\ Replace(command.id)
  \/ command.op \in {"cancel", "replace"} /\ command.id \notin ActiveIds /\ OrderNotFound
  \/ command.op = "mass_cancel" /\ MassCancel
  \/ command.op = "restore" /\ Load(Restored(command.snapshot))
  \/ command.op = "replay" /\ Load(FromCheckpoint(command.checkpoint, command.events))
  \/ command.op \in {"checkpoint", "stream"} /\ UNCHANGED vars

\* The orders `command' is about to cancel and to report.
Condemned(command) ==
  CASE command.op = "cancel" /\ command.id \in ActiveIds -> Cancelled(command.id)
    [] command.op = "mass_cancel" -> UNION {Cancelled(id) : id \in ActiveIds}
    [] OTHER -> {}

Serve ==
  /\ workerUp
  /\ WorkerWaits
  /\ queue # <<>>
  /\ LET h == Head(queue)
     IN  /\ Start(handler[h].command)
         /\ serving' = h
         /\ handler' = [handler EXCEPT ![h].phase = "running",
                                       ![h].orders = Condemned(handler[h].command)]
         /\ reloaded' = (reloaded \/ handler[h].command.op \in Reloads)
  /\ queue' = Tail(queue)
  /\ UNCHANGED <<workerUp, killSwitch, db, bus, requests, faults, acknowledged>>

Work ==
  /\ ~WorkerWaits
  /\ pc # "idle"
  /\ IF pc = "replace" THEN Submit(handler[serving].command.req) ELSE EngineStep
  /\ UNCHANGED serverVars

\* The acknowledgement a submit or replace answers with.
OwnAck == events[1].ack

TouchedIdsMutant(ack) == <<ack.order.id>>

\* touched_histories: the taker and those it traded with, each once.
Touch(ids, trade) == IF trade.maker \in ToSet(ids) THEN ids ELSE Append(ids, trade.maker)

TouchedIds(ack) == FoldLeft(Touch, <<ack.order.id>>, ack.trades)

HistoryCalls(ids) == [i \in DOMAIN ids |-> HistoryCall(ids[i], history[ids[i]])]

\* The orders of a report of cancellations, in its order.
CancelCalls(ids, orders) ==
  [i \in DOMAIN ids |-> CancelCall(CHOOSE order \in orders : order.id = ids[i])]

CallsFor(command, orders) ==
  LET touched == TouchedIds(OwnAck)
                   \o (IF command.op = "replace" THEN <<command.id>> ELSE <<>>)
      ids == IF command.op = "mass_cancel" THEN events[1].ids ELSE <<command.id>>
  IN  IF command.op \in {"submit", "replace"}
        THEN <<AckCall(OwnAck)>> \o HistoryCalls(touched) \o <<EventsCall(events)>>
        ELSE CancelCalls(ids, orders) \o HistoryCalls(ids) \o <<EventsCall(events)>>

\* What the handler makes of the answer: a request the engine turned away has no
\* events and ends here.
Answered(record) ==
  LET command == record.command
  IN  CASE command.op \in Mutations /\ events = <<>> -> Free
        [] command.op \in Mutations /\ events # <<>> ->
             [record EXCEPT !.phase = "persisting", !.orders = {}, !.events = events,
                            !.calls = CallsFor(command, record.orders)]
        [] command.op \in Reloads ->
             [record EXCEPT !.phase = "publishing", !.events = <<BookEvent(sequence)>>]
        [] command.op = "checkpoint" ->
             [record EXCEPT !.phase = "capturing",
                            !.checkpoint = <<[covers |-> 0, snapshot |-> Captured]>>]
        [] command.op = "stream" ->
             [record EXCEPT !.phase = "greeting", !.events = <<BookEvent(sequence)>>]

Respond ==
  /\ ~WorkerWaits
  /\ pc = "idle"
  /\ serving' = NoHandler
  /\ handler' = [handler EXCEPT ![serving] = Answered(@)]
  /\ UNCHANGED <<vars, queue, workerUp, killSwitch, db, bus, requests, faults,
                 acknowledged, reloaded>>

\* The client has gone away: the runtime drops the handler where it awaits the
\* engine, and the answer finds nobody.
AnswerUnheard ==
  /\ ~WorkerWaits
  /\ pc = "idle"
  /\ Fault("disconnect")
  /\ serving' = NoHandler
  /\ Release(serving)
  /\ UNCHANGED <<vars, queue, workerUp, killSwitch, db, bus, requests, acknowledged,
                 reloaded>>

\* A command panics: the thread ends, and with it the queue.  What it did to the
\* book nobody will see.
Panic ==
  /\ workerUp
  /\ WorkerWaits
  /\ queue # <<>>
  /\ Fault("panic")
  /\ workerUp' = FALSE
  /\ queue' = <<>>
  /\ UNCHANGED <<vars, handler, serving, killSwitch, db, bus, requests, acknowledged,
                 reloaded>>

(***************************************************************************)
(* The audit trail, then the feed, then the answer.                        *)
(***************************************************************************)

Persist(h) ==
  /\ WorkerWaits
  /\ handler[h].phase = "persisting"
  /\ db' = PerformAll(db, handler[h].calls)
  /\ handler' = [handler EXCEPT ![h].phase = "publishing", ![h].calls = <<>>]
  /\ UNCHANGED <<vars, queue, serving, workerUp, killSwitch, bus, requests, faults,
                 acknowledged, reloaded>>

PersistFailsMutant(h) ==
  /\ WorkerWaits
  /\ handler[h].phase = "persisting"
  /\ Fault("db")
  /\ handler' = [handler EXCEPT ![h].phase = "publishing", ![h].calls = <<>>]
  /\ UNCHANGED <<vars, queue, serving, workerUp, killSwitch, db, bus, requests,
                 acknowledged, reloaded>>

\* One of the calls fails: those before it have committed, those after it are not
\* made, and nothing is published.
PersistFails(h) ==
  /\ WorkerWaits
  /\ handler[h].phase = "persisting"
  /\ Fault("db")
  /\ \E done \in 0..(Len(handler[h].calls) - 1) :
       db' = PerformAll(db, SubSeq(handler[h].calls, 1, done))
  /\ Release(h)
  /\ UNCHANGED <<vars, queue, serving, workerUp, killSwitch, bus, requests,
                 acknowledged, reloaded>>

\* Events are broadcast one by one; the client is answered after the last.
Publish(h) ==
  /\ WorkerWaits
  /\ handler[h].phase = "publishing"
  /\ LET record == handler[h]
         done == record.sent + 1 = Len(record.events)
     IN  /\ bus' = Append(bus, record.events[record.sent + 1])
         /\ handler' = [handler EXCEPT ![h] = IF done THEN Free
                                              ELSE [record EXCEPT !.sent = @ + 1]]
         /\ acknowledged' = acknowledged
              \cup (IF done /\ record.command.op \in Mutations THEN {record.events} ELSE {})
  /\ UNCHANGED <<vars, queue, serving, workerUp, killSwitch, db, requests, faults,
                 reloaded>>

(***************************************************************************)
(* A checkpoint after the engine has given its snapshot; a replay before   *)
(* the engine is asked.  Each call takes the mutex anew.                   *)
(***************************************************************************)

CoverJournal(h) ==
  /\ WorkerWaits
  /\ handler[h].phase = "capturing"
  /\ handler' = [handler EXCEPT ![h].phase = "saving",
                                ![h].checkpoint[1].covers = LatestEventJournalId(db)]
  /\ UNCHANGED <<vars, queue, serving, workerUp, killSwitch, db, bus, requests, faults,
                 acknowledged, reloaded>>

SaveCheckpoint(h) ==
  /\ WorkerWaits
  /\ handler[h].phase = "saving"
  /\ db' = RecordSnapshot(db, handler[h].checkpoint[1])
  /\ Release(h)
  /\ UNCHANGED <<vars, queue, serving, workerUp, killSwitch, bus, requests, faults,
                 acknowledged, reloaded>>

LoadCheckpoint(h) ==
  /\ WorkerWaits
  /\ handler[h].phase = "loading"
  /\ handler' = [handler EXCEPT ![h].phase = "reading",
                                ![h].command.checkpoint = LatestSnapshot(db)]
  /\ UNCHANGED <<vars, queue, serving, workerUp, killSwitch, db, bus, requests, faults,
                 acknowledged, reloaded>>

ReadEvents(h) ==
  /\ WorkerWaits
  /\ handler[h].phase = "reading"
  /\ handler' = [handler EXCEPT
                   ![h].phase = "received",
                   ![h].command.events =
                      EventsAfterId(db, CoveredBy(handler[h].command.checkpoint))]
  /\ UNCHANGED <<vars, queue, serving, workerUp, killSwitch, db, bus, requests, faults,
                 acknowledged, reloaded>>

\* One of these calls fails: the client gets an error.
DbFails(h) ==
  /\ WorkerWaits
  /\ handler[h].phase \in {"capturing", "saving", "loading", "reading"}
  /\ Fault("db")
  /\ Release(h)
  /\ UNCHANGED <<vars, queue, serving, workerUp, killSwitch, db, bus, requests,
                 acknowledged, reloaded>>

(***************************************************************************)
(* The process ends, at any moment, and is started again: an empty book,   *)
(* no handlers, a new channel and no kill switch over the old database.    *)
(***************************************************************************)

Crash ==
  /\ WorkerWaits
  /\ Fault("crash")
  /\ Becomes(EmptyBook)
  /\ events' = <<>>
  /\ submitted' = <<>>
  /\ tape' = <<>>
  /\ UNCHANGED controlVars
  /\ handler' = [h \in Handlers |-> Free]
  /\ queue' = <<>>
  /\ workerUp' = TRUE
  /\ killSwitch' = FALSE
  /\ bus' = <<>>
  /\ reloaded' = TRUE
  /\ UNCHANGED <<serving, db, requests, acknowledged>>

(***************************************************************************)
(* The specification.                                                      *)
(***************************************************************************)

Worker == Serve \/ Work \/ Respond

\* A handler goes on with its request.
HandlerStep(h) ==
  \/ Enqueue(h)
  \/ Abandon(h)
  \/ Persist(h)
  \/ Publish(h)
  \/ CoverJournal(h)
  \/ SaveCheckpoint(h)
  \/ LoadCheckpoint(h)
  \/ ReadEvents(h)

Arrival(h) == Receive(h) \/ SetKillSwitch(h)

Failure ==
  \/ AnswerUnheard
  \/ Panic
  \/ \E h \in Handlers : PersistFails(h)
  \/ \E h \in Handlers : DbFails(h)
  \/ Crash

AllFree == \A h \in Handlers : handler[h].phase = "free"

\* The bound on requests is reached and every one is answered: only reads follow.
Finished ==
  /\ AllFree
  /\ requests = MaxRequests
  /\ UNCHANGED allVars

ServerNext ==
  \/ Worker
  \/ \E h \in Handlers : HandlerStep(h)
  \/ \E h \in Handlers : Arrival(h)
  \/ Failure
  \/ Finished

\* The worker thread goes on as long as it lives, and so does every handler: the
\* database mutex is held for one closure at a time and the channel never blocks.
\* Requests need not arrive and faults need not happen.
ServerSpec ==
  /\ ServerInit
  /\ [][ServerNext]_allVars
  /\ WF_allVars(Worker)
  /\ \A h \in Handlers : WF_allVars(HandlerStep(h))

(***************************************************************************)
(* Properties.                                                             *)
(***************************************************************************)

ServerTypeOK ==
  /\ TypeOK
  /\ \A h \in Handlers : handler[h].phase \in HandlerPhase
  /\ queue \in Seq(Handlers)
  /\ \A h \in Handlers :
       (h \in ToSet(queue)) <=> (handler[h].phase = "queued" /\ workerUp)
  /\ serving \in Handlers \cup {NoHandler}
  /\ \A h \in Handlers : handler[h].phase = "running" <=> serving = h
  /\ WorkerWaits => pc = "idle"

\* What a client was told has been done is in the journal, all of it, in order and
\* with nothing of another command in between, whatever failed or restarted since
\* (api.rs:182-195).
AcknowledgedIsDurable ==
  \A list \in acknowledged :
    \E i \in 0..(Len(db.journal) - Len(list)) :
      list = SubSeq(db.journal, i + 1, i + Len(list))

\* A client of the feed never sees an event that a restart could forget: what is
\* broadcast is in the journal already (api.rs:86-99, 179-193).  The book that a
\* restore or a replay broadcasts is journaled by nobody (api.rs:301-303, 335-337):
\* from the first of them on, this is said of all events but the books.
PublishedIsJournaled ==
  \A i \in DOMAIN bus :
    \/ bus[i] \in ToSet(db.journal)
    \/ reloaded /\ bus[i].event = "book"

\* Requests on their way to the engine that can create an order.
Entitled ==
  {h \in Handlers : /\ handler[h].phase \in {"received", "queued", "running"}
                    /\ handler[h].command.op \in {"submit", "replace"}}

\* Once the kill switch is on, orders still enter, but only those whose handlers had
\* read it before: none joins them, and when the last of them has been served the
\* engine creates no order any more, while cancels go on (ARCHITECTURE.md:84,
\* api.rs:109-111, 170-172, 378).
KillSwitchDrains ==
  [][killSwitch /\ killSwitch' =>
       /\ Entitled' \subseteq Entitled
       /\ Entitled = {} => submitted' = submitted]_allVars

\* Nothing failed, the book is the one commands made, and every client has its answer.
CleanRest == AllFree /\ faults = 0 /\ ~reloaded

\* Validation has turned no request away: every history begins with an acceptance.
NoneTurnedAway == \A id \in DOMAIN history : history[id][1].status = "accepted"

\* No stop order has left the stop orders.
StopsDormant ==
  \A id \in DOMAIN submitted : IsStopOrder(submitted[id].kind) => id \in DOMAIN stopOrders

\* Then the order_history table holds what the engine remembers of every order, the
\* makers' part included, in whatever order the handlers wrote (command.rs:248-263,
\* db.rs:709-729); unless a stop order has triggered, whose part no handler writes, or
\* validation has turned a request away, which the engine remembers and no event says.
HistoryTableComplete ==
  CleanRest /\ NoneTurnedAway /\ StopsDormant =>
    /\ {row.order : row \in db.orderHistory} = DOMAIN history
    /\ \A id \in DOMAIN history : HistoryRows(db, id) = ToSet(history[id])

\* And GET /trades lists every trade once, newest first (db.rs:163-171, 219-240).
TradesTableComplete == CleanRest /\ StopsDormant => StoredTrades(db) = Reverse(tape)

\* Every request, of whatever operation, is answered -- a stream when its snapshot is
\* there to be sent -- when the worker has died or the database fails too
\* (command.rs:121-137, api.rs:382-406).
RequestsAnswered ==
  \A h \in Handlers :
    (handler[h].phase # "free")
      ~> (handler[h].phase \in {"free", "greeting", "greeted", "streaming"})

\* The book that POST /api/replay would load from the tables.
FromTables ==
  LET checkpoint == LatestSnapshot(db)
  IN  FromCheckpoint(checkpoint, EventsAfterId(db, CoveredBy(checkpoint)))

\* ARCHITECTURE.md:83: at rest, with no failure, replay rebuilds the in-memory book
\* from the latest persisted checkpoint plus the journal: the same orders in the
\* same queues.
TablesRebuildOrders == AllFree /\ faults = 0 => FromTables.levels = levels

\* ARCHITECTURE.md:99: the trades table stores immutable executions: every trade a
\* client was told of is there as it was told.
AcknowledgedTradesStored ==
  \A list \in acknowledged :
    \A event \in ToSet(list) :
      event.event = "trade" => event.trade \in {db.trades[id] : id \in DOMAIN db.trades}
==============================================================================
