---------------------------- MODULE ServerProofs ----------------------------
(***************************************************************************)
(* Theorems about the server and its feed, for any number of handlers and  *)
(* requests and any faults.                                                *)
(***************************************************************************)
EXTENDS Feed, OrderBookProofs, FiniteSetTheorems

(***************************************************************************)
(* The handlers, the queue and the worker agree on who does what.          *)
(***************************************************************************)

Fields == {"phase", "command", "orders", "calls", "events", "sent", "checkpoint"}

\* What a request can become, and what each phase says of it.
Shaped(record) ==
  /\ DOMAIN record = Fields
  /\ "op" \in DOMAIN record.command
  /\ record.phase \in HandlerPhase
  /\ record.phase # "free" => record.command.op
                                \in Mutations \cup Reloads \cup {"checkpoint", "stream"}
  /\ record.phase \in {"loading", "reading"} => record.command.op = "replay"
  /\ record.phase = "persisting" => record.command.op \in Mutations
  /\ record.phase = "publishing" => record.command.op \in Mutations \cup Reloads

HandlersOK ==
  /\ DOMAIN handler = Handlers
  /\ \A h \in Handlers : Shaped(handler[h])

QueueOK ==
  /\ queue \in Seq(Handlers)
  /\ \A i, j \in DOMAIN queue : queue[i] = queue[j] => i = j
  /\ \A h \in Handlers :
       (\E i \in DOMAIN queue : queue[i] = h) <=> (handler[h].phase = "queued" /\ workerUp)

ServingOK ==
  /\ serving \in Handlers \cup {NoHandler}
  /\ \A h \in Handlers : handler[h].phase = "running" <=> serving = h
  /\ WorkerWaits => pc = "idle"
  /\ pc = "replace" => handler[serving].command.op = "replace"

ControlInv == HandlersOK /\ QueueOK /\ ServingOK

LEMMA ControlInit == ServerInit => ControlInv
<1> SUFFICES ASSUME ServerInit PROVE ControlInv
  OBVIOUS
<1> USE DEF ServerInit
<1>1. HandlersOK
  BY DEF HandlersOK, Shaped, Free, NoCommand, Fields, HandlerPhase
<1>2. QueueOK
  BY DEF QueueOK, Free
<1>3. ServingOK
  BY ServerAssumption DEF ServingOK, Free, Init, WorkerWaits
<1> QED
  BY <1>1, <1>2, <1>3 DEF ControlInv

\* Only what handler h is doing changes, and it neither enters nor leaves the queue
\* or the worker.
Goes(h, record) ==
  /\ handler' = [handler EXCEPT ![h] = record]
  /\ Shaped(record)
  /\ handler[h].phase \notin {"queued", "running"}
  /\ record.phase \notin {"queued", "running"}
  /\ UNCHANGED <<queue, serving, workerUp, pc>>

LEMMA ControlGoes ==
  ASSUME ControlInv, NEW h \in Handlers, NEW record, Goes(h, record)
  PROVE  ControlInv'
<1> USE DEF ControlInv, Goes
<1>1. HandlersOK'
  BY DEF HandlersOK
<1>2. QueueOK'
  BY DEF QueueOK, HandlersOK
<1>3. ServingOK'
  <2>1. pc = "replace" => serving \in Handlers /\ handler[serving].phase = "running"
    BY DEF ServingOK, WorkerWaits
  <2>2. pc = "replace" => serving # h
    BY <2>1
  <2> QED
    BY <2>1, <2>2 DEF ServingOK, HandlersOK, WorkerWaits
<1> QED
  BY <1>1, <1>2, <1>3

\* No order is received while the kill switch is on, and no stream begins here.
Allowed(record) ==
  /\ record.phase = "received" /\ record.command.op \in {"submit", "replace"} => ~killSwitch
  /\ record.phase \notin {"greeted", "streaming"}

\* What a handler does by itself.
LEMMA HandlerGoes ==
  ASSUME ControlInv, NEW h \in Handlers,
         \/ Receive(h) \/ Persist(h) \/ Publish(h) \/ CoverJournal(h) \/ SaveCheckpoint(h)
         \/ LoadCheckpoint(h) \/ ReadEvents(h) \/ PersistFails(h) \/ DbFails(h)
  PROVE  \E record : Goes(h, record) /\ Allowed(record)
<1>1. Shaped(handler[h]) /\ DOMAIN handler = Handlers
  BY DEF ControlInv, HandlersOK
<1>2. Shaped(Free) /\ Free.phase = "free"
  BY DEF Shaped, Free, NoCommand, Fields, HandlerPhase
<1> USE DEF Shaped, Fields, HandlerPhase
<1>3. CASE Receive(h)
  <2>1. PICK command \in ArrivingCommands :
          /\ SwitchGuarded(command.op) => ~killSwitch
          /\ handler' = [handler EXCEPT
                           ![h].command = command,
                           ![h].phase = IF command.op = "replay" THEN "loading"
                                                                 ELSE "received"]
    BY <1>3 DEF Receive
  <2> DEFINE record == [handler[h] EXCEPT
                          !.command = command,
                          !.phase = IF command.op = "replay" THEN "loading" ELSE "received"]
  <2>2. handler' = [handler EXCEPT ![h] = record]
    BY <1>1, <2>1
  <2>3. /\ "op" \in DOMAIN command
        /\ command.op \in Mutations \cup Reloads \cup {"checkpoint", "stream"}
    BY <2>1 DEF ArrivingCommands, SubmitCommand, CancelCommand, ReplaceCommand,
                MassCancelCommand, CheckpointCommand, ReplayCommand, StreamCommand,
                RestoreCommand, Mutations, Reloads
  <2>4. Shaped(record) /\ Allowed(record)
    BY <1>1, <2>1, <2>3 DEF Allowed, SwitchGuarded
  <2> QED
    BY <1>1, <1>3, <2>2, <2>4 DEF Goes, Receive, vars, controlVars
<1>4. CASE Persist(h)
  <2> DEFINE record == [handler[h] EXCEPT !.phase = "publishing", !.calls = <<>>]
  <2>1. handler' = [handler EXCEPT ![h] = record]
    BY <1>1, <1>4 DEF Persist
  <2>2. Shaped(record)
    BY <1>1, <1>4 DEF Persist
  <2> QED
    BY <1>1, <1>4, <2>1, <2>2 DEF Allowed, Goes, Persist, vars, controlVars
<1>5. CASE Publish(h)
  <2> DEFINE record == IF handler[h].sent + 1 = Len(handler[h].events) THEN Free
                       ELSE [handler[h] EXCEPT !.sent = @ + 1]
  <2>1. handler' = [handler EXCEPT ![h] = record]
    BY <1>1, <1>5 DEF Publish
  <2>2. Shaped(record) /\ record.phase \in {"free", "publishing"}
    BY <1>1, <1>2, <1>5 DEF Publish
  <2> HIDE DEF record
  <2> QED
    BY <1>1, <1>5, <2>1, <2>2 DEF Allowed, Goes, Publish, vars, controlVars
<1>6. CASE CoverJournal(h)
  <2> DEFINE checkpoint == [handler[h].checkpoint EXCEPT
                              ![1].covers = LatestEventJournalId(db)]
             record == [handler[h] EXCEPT !.phase = "saving", !.checkpoint = checkpoint]
  <2>1. handler' = [handler EXCEPT ![h] = record]
    BY <1>1, <1>6 DEF CoverJournal
  <2> HIDE DEF checkpoint
  <2>2. Shaped(record)
    BY <1>1, <1>6 DEF CoverJournal
  <2> QED
    BY <1>1, <1>6, <2>1, <2>2 DEF Allowed, Goes, CoverJournal, vars, controlVars
<1>7. CASE LoadCheckpoint(h)
  <2> DEFINE command == [handler[h].command EXCEPT !.checkpoint = LatestSnapshot(db)]
             record == [handler[h] EXCEPT !.phase = "reading", !.command = command]
  <2>1. handler' = [handler EXCEPT ![h] = record]
    BY <1>1, <1>7 DEF LoadCheckpoint
  <2>2. "op" \in DOMAIN command /\ command.op = "replay"
    BY <1>1, <1>7 DEF LoadCheckpoint
  <2> HIDE DEF command
  <2>3. Shaped(record)
    BY <1>1, <1>7, <2>2 DEF LoadCheckpoint, Reloads
  <2> QED
    BY <1>1, <1>7, <2>1, <2>3 DEF Allowed, Goes, LoadCheckpoint, vars, controlVars
<1>8. CASE ReadEvents(h)
  <2> DEFINE command == [handler[h].command EXCEPT
                           !.events = EventsAfterId(db,
                                        CoveredBy(handler[h].command.checkpoint))]
             record == [handler[h] EXCEPT !.phase = "received", !.command = command]
  <2>1. handler' = [handler EXCEPT ![h] = record]
    BY <1>1, <1>8 DEF ReadEvents
  <2>2. "op" \in DOMAIN command /\ command.op = "replay"
    BY <1>1, <1>8 DEF ReadEvents
  <2> HIDE DEF command
  <2>3. Shaped(record)
    BY <1>1, <1>8, <2>2 DEF ReadEvents, Reloads
  <2> QED
    BY <1>1, <1>8, <2>1, <2>2, <2>3 DEF Allowed, Goes, ReadEvents, vars, controlVars
<1>9. CASE SaveCheckpoint(h) \/ PersistFails(h) \/ DbFails(h)
  <2>1. handler' = [handler EXCEPT ![h] = Free]
    BY <1>9 DEF SaveCheckpoint, PersistFails, DbFails, Release
  <2>2. handler[h].phase \notin {"queued", "running"}
    BY <1>9 DEF SaveCheckpoint, PersistFails, DbFails
  <2>3. UNCHANGED <<queue, serving, workerUp, pc>>
    BY <1>9 DEF SaveCheckpoint, PersistFails, DbFails, vars, controlVars
  <2> QED
    BY <1>2, <2>1, <2>2, <2>3 DEF Allowed, Goes
<1> QED
  BY <1>3, <1>4, <1>5, <1>6, <1>7, <1>8, <1>9

LEMMA ControlEnqueue ==
  ASSUME ControlInv, NEW h \in Handlers, Enqueue(h)
  PROVE  ControlInv'
<1> USE DEF ControlInv, Enqueue, To
<1>1. /\ handler' = [handler EXCEPT ![h] = [handler[h] EXCEPT !.phase = "queued"]]
      /\ queue' = Append(queue, h) /\ workerUp' /\ workerUp /\ serving' = serving
      /\ handler[h].phase = "received" /\ pc' = pc /\ WorkerWaits /\ WorkerWaits'
  BY DEF vars, controlVars, WorkerWaits
<1>2. HandlersOK'
  BY <1>1 DEF HandlersOK, Shaped, Fields, HandlerPhase
<1>3. \A other \in Handlers :
        handler'[other].phase = IF other = h THEN "queued" ELSE handler[other].phase
  BY <1>1 DEF HandlersOK, Shaped, Fields
<1>4. QueueOK'
  <2>1. queue \in Seq(Handlers) /\ Len(queue) \in Nat /\ DOMAIN queue = 1..Len(queue)
    BY DEF QueueOK
  <2>2. /\ queue' \in Seq(Handlers) /\ DOMAIN queue' = 1..(Len(queue) + 1)
        /\ queue'[Len(queue) + 1] = h /\ \A i \in 1..Len(queue) : queue'[i] = queue[i]
    BY <1>1, <2>1, AppendProperties
  <2>3. \A i \in DOMAIN queue : queue[i] # h
    BY <1>1 DEF QueueOK
  <2>4. \A i, j \in DOMAIN queue' : queue'[i] = queue'[j] => i = j
    BY <2>1, <2>2, <2>3 DEF QueueOK
  <2>5. \A other \in Handlers :
          (\E i \in DOMAIN queue' : queue'[i] = other)
            <=> (other = h \/ \E i \in DOMAIN queue : queue[i] = other)
    BY <2>1, <2>2
  <2>6. \A other \in Handlers :
          (\E i \in DOMAIN queue' : queue'[i] = other)
            <=> (handler'[other].phase = "queued" /\ workerUp')
    BY <1>1, <1>3, <2>5 DEF QueueOK
  <2> QED
    BY <2>2, <2>4, <2>6 DEF QueueOK
<1>5. ServingOK'
  BY <1>1, <1>3 DEF ServingOK, WorkerWaits
<1> QED
  BY <1>2, <1>4, <1>5

LEMMA ControlAbandon ==
  ASSUME ControlInv, NEW h \in Handlers, Abandon(h)
  PROVE  ControlInv'
<1> USE DEF ControlInv, Abandon, Release
<1>1. /\ handler' = [handler EXCEPT ![h] = Free] /\ queue' = queue
      /\ ~workerUp /\ ~workerUp' /\ serving' = serving /\ pc' = pc
      /\ handler[h].phase \in {"received", "queued"}
  BY DEF vars, controlVars
<1>2. HandlersOK'
  BY <1>1 DEF HandlersOK, Shaped, Free, NoCommand, Fields, HandlerPhase
<1>3. \A other \in Handlers :
        handler'[other] = IF other = h THEN Free ELSE handler[other]
  BY <1>1 DEF HandlersOK
<1>4. QueueOK'
  BY <1>1 DEF QueueOK
<1>5. ServingOK'
  <2>1. pc = "replace" => serving \in Handlers /\ handler[serving].phase = "running"
    BY DEF ServingOK, WorkerWaits
  <2>2. pc = "replace" => serving # h
    BY <1>1, <2>1
  <2> QED
    BY <1>1, <1>3, <2>2, <2>1 DEF ServingOK, WorkerWaits, Free
<1> QED
  BY <1>2, <1>4, <1>5

\* What the beginning of a command leaves the engine in.
LEMMA StartPhase ==
  ASSUME NEW command, Start(command), pc = "idle"
  PROVE  pc' \in {"idle", "match", "replace", "mass_cancel"}
         /\ (pc' = "replace" => command.op = "replace")
<1>1. CASE command.op = "submit" /\ Submit(command.req)
  BY <1>1 DEF Submit, RejectInvalid, AcceptStop, RejectFok, AcceptAs, Answer, BeginExecution
<1>2. CASE command.op = "cancel" /\ Cancel(command.id)
  BY <1>2 DEF Cancel, Answer
<1>3. CASE command.op = "replace" /\ Replace(command.id)
  BY <1>3 DEF Replace
<1>4. CASE OrderNotFound
  BY <1>4 DEF OrderNotFound, controlVars
<1>5. CASE MassCancel
  BY <1>5 DEF MassCancel
<1>6. CASE \E book : Load(book)
  BY <1>6 DEF Load, controlVars
<1>7. CASE UNCHANGED vars
  BY <1>7 DEF vars, controlVars
<1> QED
  BY <1>1, <1>2, <1>3, <1>4, <1>5, <1>6, <1>7 DEF Start

LEMMA ControlServe ==
  ASSUME ControlInv, Serve
  PROVE  ControlInv'
<1> DEFINE h == queue[1]
           n == Len(queue)
<1>1. /\ queue \in Seq(Handlers) /\ n \in Nat /\ DOMAIN queue = 1..n /\ n > 0
      /\ h \in Handlers /\ Head(queue) = h
  BY DEF ControlInv, QueueOK, Serve
<1>2. /\ handler' = [handler EXCEPT ![h].phase = "running",
                                    ![h].orders = Condemned(handler[h].command)]
      /\ serving' = h /\ workerUp /\ workerUp' /\ pc = "idle" /\ serving = NoHandler
      /\ Start(handler[h].command) /\ queue' = Tail(queue)
  BY <1>1 DEF ControlInv, ServingOK, Serve, WorkerWaits
<1>3. handler[h].phase = "queued"
  BY <1>1 DEF ControlInv, QueueOK
<1>4. /\ queue' \in Seq(Handlers) /\ DOMAIN queue' = 1..(n - 1)
      /\ \A i \in 1..(n - 1) : queue'[i] = queue[i + 1]
  BY <1>1, <1>2, HeadTailProperties
<1> HIDE DEF h, n
<1>5. \A other \in Handlers :
        /\ handler'[other].phase = IF other = h THEN "running" ELSE handler[other].phase
        /\ handler'[other].command = handler[other].command
  BY <1>1, <1>2 DEF ControlInv, HandlersOK, Shaped, Fields
<1>6. HandlersOK'
  <2>1. \A other \in Handlers : other # h => handler'[other] = handler[other]
    BY <1>1, <1>2 DEF ControlInv, HandlersOK
  <2>2. DOMAIN handler'[h] = Fields /\ DOMAIN handler' = Handlers
    BY <1>1, <1>2 DEF ControlInv, HandlersOK, Shaped
  <2>3. Shaped(handler'[h])
    BY <1>1, <1>3, <1>5, <2>2 DEF ControlInv, HandlersOK, Shaped, HandlerPhase
  <2> QED
    BY <2>1, <2>2, <2>3 DEF ControlInv, HandlersOK
<1>7. QueueOK'
  <2>1. \A i, j \in DOMAIN queue' : queue'[i] = queue'[j] => i = j
    BY <1>1, <1>4 DEF ControlInv, QueueOK
  <2>2. \A other \in Handlers :
          (\E i \in DOMAIN queue' : queue'[i] = other)
            <=> (other # h /\ \E i \in DOMAIN queue : queue[i] = other)
    <3> TAKE other \in Handlers
    <3>1. ASSUME NEW i \in DOMAIN queue', queue'[i] = other
          PROVE  other # h /\ \E j \in DOMAIN queue : queue[j] = other
      <4>1. i + 1 \in DOMAIN queue /\ 1 \in DOMAIN queue /\ queue[i + 1] = other
            /\ i + 1 # 1
        BY <1>1, <1>4, <3>1
      <4> QED
        BY <4>1 DEF ControlInv, QueueOK, h
    <3>2. ASSUME other # h, NEW i \in DOMAIN queue, queue[i] = other
          PROVE  \E j \in DOMAIN queue' : queue'[j] = other
      <4>1. i # 1
        BY <3>2 DEF h
      <4>2. i - 1 \in DOMAIN queue' /\ queue'[i - 1] = other
        BY <1>1, <1>4, <3>2, <4>1
      <4> QED
        BY <4>2
    <3> QED
      BY <3>1, <3>2
  <2>3. \A other \in Handlers :
          (\E i \in DOMAIN queue' : queue'[i] = other)
            <=> (handler'[other].phase = "queued" /\ workerUp')
    <3> TAKE other \in Handlers
    <3>1. (\E i \in DOMAIN queue : queue[i] = other) <=> handler[other].phase = "queued"
      BY <1>2 DEF ControlInv, QueueOK
    <3>2. handler'[other].phase = IF other = h THEN "running" ELSE handler[other].phase
      BY <1>5
    <3>3. "running" # "queued" /\ workerUp'
      BY <1>2
    <3> QED
      BY <2>2, <3>1, <3>2, <3>3
  <2> QED
    BY <1>4, <2>1, <2>3 DEF QueueOK
<1>8. ServingOK'
  <2>1. pc' = "replace" => handler'[serving'].command.op = "replace"
    BY <1>1, <1>2, <1>5, StartPhase
  <2>2. ~WorkerWaits'
    BY <1>1, <1>2, ServerAssumption DEF WorkerWaits
  <2>3. \A other \in Handlers : handler[other].phase # "running"
    BY <1>2, ServerAssumption DEF ControlInv, ServingOK
  <2> QED
    BY <1>1, <1>2, <1>5, <2>1, <2>2, <2>3 DEF ServingOK
<1> QED
  BY <1>6, <1>7, <1>8 DEF ControlInv

\* The engine's own steps, and the submission of a replacement.
LEMMA WorkPhase ==
  ASSUME Work
  PROVE  /\ pc' # "replace" /\ ~WorkerWaits
         /\ UNCHANGED serverVars
<1>1. CASE pc = "replace" /\ Submit(handler[serving].command.req)
  BY <1>1 DEF Work, Submit, RejectInvalid, AcceptStop, RejectFok, AcceptAs, Answer,
              BeginExecution
<1>2. CASE pc # "replace" /\ EngineStep
  <2>1. CASE RejectPostOnly \/ FillBest \/ Settle
    BY <1>2, <2>1 DEF Work, RejectPostOnly, FillBest, Settle
  <2>2. CASE ActivateStop \/ SkipStop
    BY <1>2, <2>2 DEF Work, ActivateStop, SkipStop
  <2>3. CASE (\E id \in cancelling : MassCancelOne(id)) \/ MassCancelDone
    BY <1>2, <2>3 DEF Work, MassCancelOne, MassCancelDone, Answer
  <2> QED
    BY <1>2, <2>1, <2>2, <2>3 DEF EngineStep
<1> QED
  BY <1>1, <1>2 DEF Work

LEMMA ControlWork ==
  ASSUME ControlInv, Work
  PROVE  ControlInv'
<1>1. pc' # "replace" /\ ~WorkerWaits /\ UNCHANGED serverVars
  BY WorkPhase
<1> QED
  BY <1>1 DEF ControlInv, HandlersOK, QueueOK, ServingOK, WorkerWaits, serverVars

\* The worker's command is done, and its handler goes on with what comes of it.
LEMMA ControlReturn ==
  ASSUME ControlInv, ~WorkerWaits, pc = "idle", pc' = pc, serving' = NoHandler,
         UNCHANGED <<queue, workerUp>>, NEW record, Shaped(record),
         record.phase \notin {"queued", "running"},
         handler' = [handler EXCEPT ![serving] = record]
  PROVE  ControlInv'
<1>1. serving \in Handlers /\ handler[serving].phase = "running"
  BY DEF ControlInv, ServingOK, WorkerWaits
<1>2. HandlersOK'
  BY <1>1 DEF ControlInv, HandlersOK
<1>3. \A h \in Handlers : handler'[h] = IF h = serving THEN record ELSE handler[h]
  BY DEF ControlInv, HandlersOK
<1>4. QueueOK'
  BY <1>1, <1>3 DEF ControlInv, QueueOK
<1>5. ServingOK'
  BY <1>1, <1>3, ServerAssumption DEF ControlInv, ServingOK
<1> QED
  BY <1>2, <1>4, <1>5 DEF ControlInv

LEMMA ShapedFree == Shaped(Free) /\ Free.phase = "free"
BY DEF Shaped, Free, NoCommand, Fields, HandlerPhase

LEMMA AnsweredShaped ==
  ASSUME NEW record, Shaped(record), record.phase = "running"
  PROVE  /\ Shaped(Answered(record))
         /\ Answered(record).phase
              \in {"free", "persisting", "publishing", "capturing", "greeting"}
         /\ Answered(record) # Free => Answered(record).command = record.command
<1> DEFINE op == record.command.op
           calls == CallsFor(record.command, record.orders)
           captured == <<[covers |-> 0, snapshot |-> Captured]>>
           update == <<BookEvent(sequence)>>
<1>1. op \in Mutations \cup Reloads \cup {"checkpoint", "stream"}
  BY DEF Shaped
<1> HIDE DEF calls, captured, update
<1>2. CASE op \in Mutations /\ events = <<>>
  <2>1. Answered(record) = Free
    BY <1>2 DEF Answered, Mutations, Reloads
  <2> QED
    BY <2>1, ShapedFree
<1>3. CASE op \in Mutations /\ events # <<>>
  <2>1. Answered(record) = [record EXCEPT !.phase = "persisting", !.orders = {},
                                          !.events = events, !.calls = calls]
    BY <1>3 DEF Answered, calls, Mutations, Reloads
  <2> QED
    BY <1>3, <2>1 DEF Shaped, Fields, HandlerPhase
<1>4. CASE op \in Reloads
  <2>1. Answered(record) = [record EXCEPT !.phase = "publishing", !.events = update]
    BY <1>4 DEF Answered, update, Mutations, Reloads
  <2> QED
    BY <1>4, <2>1 DEF Shaped, Fields, HandlerPhase
<1>5. CASE op = "checkpoint"
  <2>1. Answered(record) = [record EXCEPT !.phase = "capturing", !.checkpoint = captured]
    BY <1>5 DEF Answered, captured, Mutations, Reloads
  <2> QED
    BY <1>5, <2>1 DEF Shaped, Fields, HandlerPhase
<1>6. CASE op = "stream"
  <2>1. Answered(record) = [record EXCEPT !.phase = "greeting", !.events = update]
    BY <1>6 DEF Answered, update, Mutations, Reloads
  <2> QED
    BY <1>6, <2>1 DEF Shaped, Fields, HandlerPhase
<1> QED
  BY <1>1, <1>2, <1>3, <1>4, <1>5, <1>6

LEMMA ControlRespond ==
  ASSUME ControlInv, Respond \/ AnswerUnheard
  PROVE  ControlInv'
<1>1. serving \in Handlers /\ Shaped(handler[serving]) /\ handler[serving].phase = "running"
  <2>1. ~WorkerWaits
    BY DEF Respond, AnswerUnheard
  <2> QED
    BY <2>1 DEF ControlInv, ServingOK, HandlersOK, WorkerWaits
<1>2. /\ ~WorkerWaits /\ pc = "idle" /\ pc' = pc /\ serving' = NoHandler
      /\ UNCHANGED <<queue, workerUp>>
  BY DEF Respond, AnswerUnheard, vars, controlVars
<1>3. CASE Respond
  <2> DEFINE record == Answered(handler[serving])
  <2>1. handler' = [handler EXCEPT ![serving] = record]
    BY <1>3 DEF Respond
  <2>2. Shaped(record) /\ record.phase \notin {"queued", "running"}
    BY <1>1, AnsweredShaped
  <2> HIDE DEF record
  <2> QED
    BY <1>2, <2>1, <2>2, ControlReturn
<1>4. CASE AnswerUnheard
  BY <1>2, <1>4, ShapedFree, ControlReturn DEF AnswerUnheard, Release
<1> QED
  BY <1>3, <1>4

LEMMA ControlPanic ==
  ASSUME ControlInv, Panic
  PROVE  ControlInv'
<1>1. /\ handler' = handler /\ queue' = <<>> /\ ~workerUp' /\ serving' = serving
      /\ pc' = pc
  BY DEF Panic, vars, controlVars
<1>2. QueueOK'
  BY <1>1 DEF QueueOK
<1> QED
  BY <1>1, <1>2 DEF ControlInv, HandlersOK, ServingOK, WorkerWaits

LEMMA ControlCrash ==
  ASSUME ControlInv, Crash
  PROVE  ControlInv'
<1>1. /\ handler' = [h \in Handlers |-> Free] /\ queue' = <<>> /\ serving' = serving
      /\ serving = NoHandler /\ pc' = pc
  BY DEF Crash, controlVars, WorkerWaits
<1>2. HandlersOK'
  BY <1>1, ShapedFree DEF HandlersOK
<1>3. QueueOK'
  BY <1>1, ShapedFree DEF QueueOK
<1>4. ServingOK'
  BY <1>1, ShapedFree, ServerAssumption DEF ControlInv, ServingOK, WorkerWaits
<1> QED
  BY <1>2, <1>3, <1>4 DEF ControlInv

LEMMA ControlStep == ControlInv /\ [ServerNext]_allVars => ControlInv'
<1> SUFFICES ASSUME ControlInv, [ServerNext]_allVars PROVE ControlInv'
  OBVIOUS
<1>1. CASE UNCHANGED allVars
  BY <1>1 DEF ControlInv, HandlersOK, QueueOK, ServingOK, WorkerWaits, allVars, serverVars,
              vars, controlVars
<1>2. CASE Worker
  BY <1>2, ControlServe, ControlWork, ControlRespond DEF Worker
<1>3. ASSUME NEW h \in Handlers, HandlerStep(h)
      PROVE  ControlInv'
  BY <1>3, HandlerGoes, ControlGoes, ControlEnqueue, ControlAbandon DEF HandlerStep
<1>4. ASSUME NEW h \in Handlers, Arrival(h)
      PROVE  ControlInv'
  <2>1. CASE Receive(h)
    BY <2>1, HandlerGoes, ControlGoes
  <2>2. CASE SetKillSwitch(h)
    BY <2>2 DEF SetKillSwitch, ControlInv, HandlersOK, QueueOK, ServingOK, WorkerWaits,
                vars, controlVars
  <2> QED
    BY <1>4, <2>1, <2>2 DEF Arrival
<1>5. CASE Failure
  BY <1>5, ControlRespond, ControlPanic, ControlCrash, HandlerGoes, ControlGoes DEF Failure
<1>6. CASE Finished
  BY <1>1, <1>6 DEF Finished
<1> QED
  BY <1>1, <1>2, <1>3, <1>4, <1>5, <1>6 DEF ServerNext

(***************************************************************************)
(* The kill switch.                                                        *)
(***************************************************************************)

\* Handlers that did not have a request of that kind under way do not begin one.
Drains == Entitled' \subseteq Entitled

\* A step of one handler, whose request is no order when it is received, and stays
\* what it was.
LEMMA DrainsGoes ==
  ASSUME ControlInv, NEW h \in Handlers, NEW record, Goes(h, record),
         record.phase = "received" => record.command.op \notin {"submit", "replace"}
  PROVE  Drains
<1>1. \A other \in Handlers : handler'[other] = IF other = h THEN record ELSE handler[other]
  BY DEF Goes, ControlInv, HandlersOK
<1> QED
  BY <1>1 DEF Drains, Entitled, Goes

\* A command creates orders only for a handler that was about to.
LEMMA StartCreates ==
  ASSUME NEW command, Start(command), command.op # "submit"
  PROVE  submitted' = submitted
<1>1. CASE Cancel(command.id)
  BY <1>1 DEF Cancel, ghostVars
<1>2. CASE Replace(command.id)
  BY <1>2 DEF Replace, ghostVars
<1>3. CASE OrderNotFound
  BY <1>3 DEF OrderNotFound, ghostVars
<1>4. CASE MassCancel
  BY <1>4 DEF MassCancel, ghostVars
<1>5. CASE \E book : Load(book)
  BY <1>5 DEF Load, ghostVars
<1>6. CASE UNCHANGED vars
  BY <1>6 DEF vars, ghostVars
<1> QED
  BY <1>1, <1>2, <1>3, <1>4, <1>5, <1>6 DEF Start

LEMMA WorkCreates ==
  ASSUME Work, pc # "replace"
  PROVE  submitted' = submitted
<1>1. EngineStep
  BY DEF Work
<1>2. CASE RejectPostOnly \/ FillBest \/ Settle
  BY <1>2 DEF RejectPostOnly, FillBest, Settle, ghostVars
<1>3. CASE ActivateStop \/ SkipStop
  BY <1>3 DEF ActivateStop, SkipStop, ghostVars
<1>4. CASE (\E id \in cancelling : MassCancelOne(id)) \/ MassCancelDone
  BY <1>4 DEF MassCancelOne, MassCancelDone, ghostVars
<1> QED
  BY <1>1, <1>2, <1>3, <1>4 DEF EngineStep

SwitchHolds ==
  killSwitch /\ killSwitch' =>
    /\ Drains
    /\ Entitled = {} => submitted' = submitted

LEMMA SwitchServe ==
  ASSUME ControlInv, Serve
  PROVE  SwitchHolds
<1> DEFINE h == queue[1]
<1>1. /\ h \in Handlers /\ h = Head(queue) /\ handler[h].phase = "queued"
  BY DEF ControlInv, QueueOK, Serve
<1>2. Start(handler[h].command)
  BY <1>1 DEF Serve
<1>3. \A other \in Handlers :
        /\ handler'[other].phase = IF other = h THEN "running" ELSE handler[other].phase
        /\ handler'[other].command = handler[other].command
  BY <1>1 DEF Serve, ControlInv, HandlersOK, Shaped, Fields
<1> HIDE DEF h
<1>4. Drains
  BY <1>1, <1>3 DEF Drains, Entitled
<1>5. Entitled = {} => handler[h].command.op # "submit"
  BY <1>1 DEF Entitled
<1> QED
  BY <1>2, <1>4, <1>5, StartCreates DEF SwitchHolds

LEMMA SwitchWork ==
  ASSUME ControlInv, Work
  PROVE  SwitchHolds
<1>1. Drains
  BY DEF Work, serverVars, Drains, Entitled
<1>2. Entitled = {} => pc # "replace"
  BY DEF ControlInv, ServingOK, Entitled, WorkerWaits
<1> QED
  BY <1>1, <1>2, WorkCreates DEF SwitchHolds

LEMMA SwitchRespond ==
  ASSUME ControlInv, Respond \/ AnswerUnheard
  PROVE  SwitchHolds
<1>1. serving \in Handlers /\ Shaped(handler[serving]) /\ handler[serving].phase = "running"
  <2>1. ~WorkerWaits
    BY DEF Respond, AnswerUnheard
  <2> QED
    BY <2>1 DEF ControlInv, ServingOK, HandlersOK, WorkerWaits
<1>2. handler'[serving].phase
        \in {"free", "persisting", "publishing", "capturing", "greeting"}
  <2>1. CASE Respond
    BY <1>1, <2>1, AnsweredShaped DEF Respond, ControlInv, HandlersOK
  <2>2. CASE AnswerUnheard
    BY <1>1, <2>2, ShapedFree DEF AnswerUnheard, Release, ControlInv, HandlersOK
  <2> QED
    BY <2>1, <2>2
<1>3. \A h \in Handlers : h # serving => handler'[h] = handler[h]
  BY DEF Respond, AnswerUnheard, Release, ControlInv, HandlersOK
<1>4. submitted' = submitted
  BY DEF Respond, AnswerUnheard, vars, ghostVars
<1> QED
  BY <1>2, <1>3, <1>4 DEF SwitchHolds, Drains, Entitled

LEMMA SwitchStep == ControlInv /\ [ServerNext]_allVars => SwitchHolds
<1> SUFFICES ASSUME ControlInv, [ServerNext]_allVars PROVE SwitchHolds
  OBVIOUS
<1>1. CASE UNCHANGED allVars
  BY <1>1 DEF SwitchHolds, Drains, Entitled, allVars, serverVars, vars, ghostVars
<1>2. CASE Worker
  BY <1>2, SwitchServe, SwitchWork, SwitchRespond DEF Worker
<1>3. ASSUME NEW h \in Handlers,
             \/ Receive(h) \/ Persist(h) \/ Publish(h) \/ CoverJournal(h)
             \/ SaveCheckpoint(h) \/ LoadCheckpoint(h) \/ ReadEvents(h)
             \/ PersistFails(h) \/ DbFails(h)
      PROVE  SwitchHolds
  <2>1. submitted' = submitted
    BY <1>3 DEF Receive, Persist, Publish, CoverJournal, SaveCheckpoint, LoadCheckpoint,
                ReadEvents, PersistFails, DbFails, vars, ghostVars
  <2>2. PICK record : Goes(h, record) /\ Allowed(record)
    BY <1>3, HandlerGoes
  <2>3. killSwitch => Drains
    BY <2>2, DrainsGoes DEF Allowed
  <2> QED
    BY <2>1, <2>3 DEF SwitchHolds
<1>4. ASSUME NEW h \in Handlers, Enqueue(h)
      PROVE  SwitchHolds
  BY <1>4 DEF Enqueue, To, SwitchHolds, Drains, Entitled, ControlInv, HandlersOK, Shaped,
              Fields, vars, ghostVars
<1>5. ASSUME NEW h \in Handlers, Abandon(h)
      PROVE  SwitchHolds
  BY <1>5, ShapedFree DEF Abandon, Release, SwitchHolds, Drains, Entitled, ControlInv,
              HandlersOK, vars, ghostVars
<1>6. ASSUME NEW h \in Handlers, SetKillSwitch(h)
      PROVE  SwitchHolds
  BY <1>6 DEF SetKillSwitch, SwitchHolds
<1>7. CASE Panic
  BY <1>7 DEF Panic, SwitchHolds, Drains, Entitled, vars, ghostVars
<1>8. CASE Crash
  BY <1>8 DEF Crash, SwitchHolds
<1>9. CASE Failure
  BY <1>3, <1>7, <1>8, <1>9, SwitchRespond DEF Failure
<1>10. CASE Finished
  BY <1>1, <1>10 DEF Finished
<1> QED
  BY <1>1, <1>2, <1>3, <1>4, <1>5, <1>6, <1>9, <1>10
     DEF ServerNext, HandlerStep, Arrival

\* With the kill switch on, the requests on their way to the engine only become fewer,
\* and once there is none the engine creates no order (api.rs:170-172, 378): whatever
\* handlers were past the test when the switch was set, and whatever fails meanwhile.
THEOREM SwitchDrains == ServerSpec => KillSwitchDrains
<1>1. ControlInv /\ [ServerNext]_allVars
        => [killSwitch /\ killSwitch' =>
              /\ Entitled' \subseteq Entitled
              /\ Entitled = {} => submitted' = submitted]_allVars
  BY SwitchStep DEF SwitchHolds, Drains
<1> QED
  BY <1>1, ControlInit, ControlStep, PTL DEF ServerSpec, KillSwitchDrains

(***************************************************************************)
(* Streams.                                                                *)
(***************************************************************************)

IsSequence(s) == \E S : s \in Seq(S)

LEMMA SequenceGrows ==
  ASSUME NEW s, IsSequence(s), NEW x
  PROVE  /\ IsSequence(Append(s, x))
         /\ Len(s) \in Nat /\ DOMAIN s = 1..Len(s)
         /\ Len(Append(s, x)) = Len(s) + 1
         /\ Append(s, x)[Len(s) + 1] = x
         /\ \A i \in 1..Len(s) : Append(s, x)[i] = s[i]
         /\ \A i, j \in 0..Len(s) : SubSeq(Append(s, x), i + 1, j) = SubSeq(s, i + 1, j)
<1>1. PICK S : s \in Seq(S)
  BY DEF IsSequence
<1> DEFINE T == S \cup {x}
<1>2. s \in Seq(T)
  BY <1>1
<1> HIDE DEF T
<1>3. Append(s, x) \in Seq(T)
  BY <1>2 DEF T
<1> QED
  BY <1>2, <1>3 DEF IsSequence

Receiver == {"joined", "cursor", "seen", "displayed"}

StreamsOK ==
  /\ IsSequence(bus)
  /\ DOMAIN client = Handlers
  /\ \A h \in Handlers : DOMAIN client[h] = Receiver
  /\ \A h \in Handlers :
       handler[h].phase = "streaming" =>
         /\ client[h].joined \in Nat /\ client[h].cursor \in Nat
         /\ client[h].joined <= client[h].cursor
         /\ client[h].cursor <= Len(bus)
         /\ IsSequence(client[h].seen)
         /\ client[h].seen = SubSeq(bus, client[h].joined + 1, client[h].cursor)
  /\ \A h \in Handlers : handler[h].phase = "greeted" => client[h].seen = <<>>

\* What StreamGapless needs to be inductive.
StreamInv == ControlInv /\ StreamsOK

\* No stream begins.
Quiet ==
  \A h \in Handlers : handler'[h].phase \in {"greeted", "streaming"}
                        => handler[h].phase = handler'[h].phase

LEMMA StreamInit == FeedInit => StreamInv
<1> SUFFICES ASSUME FeedInit PROVE StreamInv
  OBVIOUS
<1>1. ControlInv
  BY ControlInit DEF FeedInit
<1>2. IsSequence(bus)
  BY DEF FeedInit, ServerInit, IsSequence
<1>3. StreamsOK
  BY <1>2 DEF StreamsOK, FeedInit, ServerInit, Free, Disconnected, Receiver
<1> QED
  BY <1>1, <1>3 DEF StreamInv

\* Steps in which no stream begins, forwards or loses an event.
LEMMA StreamKeeps ==
  ASSUME StreamsOK, client' = client,
         Quiet,
         \/ bus' = bus
         \/ \E x : bus' = Append(bus, x)
  PROVE  StreamsOK'
<1>1. CASE bus' = bus
  BY <1>1 DEF StreamsOK, Quiet
<1>2. ASSUME NEW x, bus' = Append(bus, x)
      PROVE  StreamsOK'
  <2>1. /\ IsSequence(bus') /\ Len(bus) \in Nat /\ Len(bus') = Len(bus) + 1
        /\ \A i, j \in 0..Len(bus) : SubSeq(bus', i + 1, j) = SubSeq(bus, i + 1, j)
    BY <1>2, SequenceGrows DEF StreamsOK
  <2>2. \A h \in Handlers : handler'[h].phase = "streaming" =>
          /\ client[h].joined \in 0..Len(bus) /\ client[h].cursor \in 0..Len(bus)
          /\ client[h].cursor <= Len(bus) + 1
    BY <2>1 DEF StreamsOK, Quiet
  <2>3. \A h \in Handlers : handler'[h].phase = "streaming" =>
          client[h].seen = SubSeq(bus', client[h].joined + 1, client[h].cursor)
    BY <2>1, <2>2 DEF StreamsOK, Quiet
  <2> QED
    BY <2>1, <2>2, <2>3 DEF StreamsOK, Quiet
<1> QED
  BY <1>1, <1>2

\* Of the server's own steps none begins a stream, and only a crash, which ends them
\* all, makes the channel anew.
LEMMA ServerStreams ==
  ASSUME ControlInv, StreamsOK, ServerNext, client' = client
  PROVE  StreamsOK'
<1>1. CASE Finished
  BY <1>1, StreamKeeps DEF Finished, allVars, serverVars, Quiet
<1>2. CASE Work
  BY <1>2, StreamKeeps DEF Work, serverVars, Quiet
<1>3. CASE Serve
  <2>1. bus' = bus
    BY <1>3 DEF Serve
  <2>2. Quiet
    BY <1>3 DEF Quiet, Serve, ControlInv, HandlersOK, Shaped, Fields
  <2> QED
    BY <2>1, <2>2, StreamKeeps
<1>4. CASE Respond \/ AnswerUnheard
  <2>1. bus' = bus
    BY <1>4 DEF Respond, AnswerUnheard
  <2>2. serving \in Handlers /\ Shaped(handler[serving]) /\ handler[serving].phase = "running"
    <3>1. ~WorkerWaits
      BY <1>4 DEF Respond, AnswerUnheard
    <3> QED
      BY <3>1 DEF ControlInv, ServingOK, HandlersOK, WorkerWaits
  <2>3. handler'[serving].phase \notin {"greeted", "streaming"}
    <3>1. CASE Respond
      BY <2>2, <3>1, AnsweredShaped DEF Respond, ControlInv, HandlersOK
    <3>2. CASE AnswerUnheard
      BY <2>2, <3>2, ShapedFree DEF AnswerUnheard, Release, ControlInv, HandlersOK
    <3> QED
      BY <1>4, <3>1, <3>2
  <2>4. \A h \in Handlers : h # serving => handler'[h] = handler[h]
    BY <1>4 DEF Respond, AnswerUnheard, Release, ControlInv, HandlersOK
  <2> QED
    BY <2>1, <2>3, <2>4, StreamKeeps DEF Quiet
<1>5. ASSUME NEW h \in Handlers,
             \/ Receive(h) \/ Persist(h) \/ Publish(h) \/ CoverJournal(h)
             \/ SaveCheckpoint(h) \/ LoadCheckpoint(h) \/ ReadEvents(h)
             \/ PersistFails(h) \/ DbFails(h)
      PROVE  StreamsOK'
  <2>1. bus' = bus \/ \E x : bus' = Append(bus, x)
    BY <1>5 DEF Receive, Persist, Publish, CoverJournal, SaveCheckpoint, LoadCheckpoint,
                ReadEvents, PersistFails, DbFails
  <2>2. PICK record : Goes(h, record) /\ Allowed(record)
    BY <1>5, HandlerGoes
  <2>3. Quiet
    BY <2>2 DEF Quiet, Goes, Allowed, ControlInv, HandlersOK
  <2> QED
    BY <2>1, <2>3, StreamKeeps
<1>6. ASSUME NEW h \in Handlers, Enqueue(h) \/ Abandon(h)
      PROVE  StreamsOK'
  <2>1. bus' = bus
    BY <1>6 DEF Enqueue, Abandon
  <2>2. Quiet
    BY <1>6, ShapedFree
       DEF Quiet, Enqueue, Abandon, To, Release, ControlInv, HandlersOK, Shaped, Fields
  <2> QED
    BY <2>1, <2>2, StreamKeeps
<1>7. CASE (\E h \in Handlers : SetKillSwitch(h)) \/ Panic
  BY <1>7, StreamKeeps DEF SetKillSwitch, Panic, Quiet
<1>8. CASE Crash
  <2>1. IsSequence(bus') /\ handler' = [h \in Handlers |-> Free]
    BY <1>8 DEF Crash, IsSequence
  <2> QED
    BY <2>1, ShapedFree DEF StreamsOK
<1> QED
  BY <1>1, <1>2, <1>3, <1>4, <1>5, <1>6, <1>7, <1>8
     DEF ServerNext, Worker, HandlerStep, Arrival, Failure

LEMMA StreamForward ==
  ASSUME StreamInv, NEW h \in Handlers, Forward(h)
  PROVE  StreamsOK'
<1> DEFINE joined == client[h].joined
           cursor == client[h].cursor
           event == bus[cursor + 1]
           seen == client[h].seen
<1>1. /\ joined \in Nat /\ cursor \in Nat /\ joined <= cursor
      /\ seen = SubSeq(bus, joined + 1, cursor) /\ IsSequence(seen)
      /\ Len(bus) \in Nat /\ Unread(h) \in 1..Capacity
  BY SequenceGrows DEF StreamInv, StreamsOK, Forward
<1>2. cursor + 1 <= Len(bus)
  BY <1>1, CapacityAssumption DEF Unread
<1>3. /\ bus' = bus /\ handler' = handler
      /\ DOMAIN client' = Handlers
      /\ \A other \in Handlers : DOMAIN client'[other] = Receiver
      /\ \A other \in Handlers : other # h => client'[other] = client[other]
      /\ client'[h].joined = joined /\ client'[h].cursor = cursor + 1
      /\ client'[h].seen = Append(seen, event)
  BY DEF StreamInv, StreamsOK, Forward, Receiver, allVars, serverVars
<1>4. Append(seen, event) = SubSeq(bus, joined + 1, cursor + 1)
  <2>1. PICK S : bus \in Seq(S)
    BY DEF StreamInv, StreamsOK, IsSequence
  <2> HIDE DEF seen, joined, cursor
  <2> QED
    BY <1>1, <1>2, <2>1
<1>5. IsSequence(Append(seen, event))
  BY <1>1, SequenceGrows
<1> HIDE DEF joined, cursor, seen, event
<1>6. \A other \in Handlers : handler'[other].phase = "streaming" =>
        /\ client'[other].joined \in Nat /\ client'[other].cursor \in Nat
        /\ client'[other].joined <= client'[other].cursor
        /\ client'[other].cursor <= Len(bus')
        /\ IsSequence(client'[other].seen)
        /\ client'[other].seen = SubSeq(bus', client'[other].joined + 1, client'[other].cursor)
  <2> TAKE other \in Handlers
  <2>1. CASE other = h
    <3>1. joined <= cursor + 1 /\ cursor + 1 \in Nat
      BY <1>1
    <3>2. Len(bus') = Len(bus)
      BY <1>3
    <3>3. client'[h].seen = SubSeq(bus', joined + 1, cursor + 1)
      BY <1>3, <1>4
    <3>4. IsSequence(client'[h].seen)
      BY <1>3, <1>5
    <3> QED
      BY <1>1, <1>2, <1>3, <2>1, <3>1, <3>2, <3>3, <3>4
  <2>2. CASE other # h
    BY <1>3, <2>2 DEF StreamInv, StreamsOK
  <2> QED
    BY <2>1, <2>2
<1>7. \A other \in Handlers : handler'[other].phase = "greeted" => client'[other].seen = <<>>
  <2>1. handler'[h].phase = "streaming"
    BY <1>3 DEF Forward
  <2> QED
    BY <1>3, <2>1 DEF StreamInv, StreamsOK
<1> QED
  BY <1>3, <1>6, <1>7 DEF StreamInv, StreamsOK

LEMMA FreeGoes ==
  ASSUME NEW h \in Handlers, handler[h].phase \notin {"queued", "running"}, Release(h),
         UNCHANGED <<queue, serving, workerUp, pc>>
  PROVE  Goes(h, Free)
BY ShapedFree DEF Goes, Release

\* A stream that begins, ends, or only receives.
LEMMA StreamSteps ==
  ASSUME StreamInv, NEW h \in Handlers, StreamStep(h) \/ SocketFails(h)
  PROVE  StreamInv'
<1>1. Shaped(handler[h]) /\ DOMAIN handler = Handlers
  BY DEF StreamInv, ControlInv, HandlersOK
<1>2. CASE SendSnapshot(h)
  <2> DEFINE record == [handler[h] EXCEPT !.phase = "greeted"]
  <2>1. handler' = [handler EXCEPT ![h] = record]
    BY <1>1, <1>2 DEF SendSnapshot, To
  <2>2. Shaped(record) /\ record.phase = "greeted"
    BY <1>1, <1>2 DEF SendSnapshot, Shaped, Fields, HandlerPhase
  <2> HIDE DEF record
  <2>3. Goes(h, record)
    BY <1>2, <2>1, <2>2 DEF Goes, SendSnapshot, vars, controlVars
  <2>4. ControlInv'
    BY <2>3, ControlGoes DEF StreamInv
  <2>5. \A other \in Handlers : handler'[other] = IF other = h THEN record ELSE handler[other]
    BY <1>1, <2>1
  <2>6. /\ bus' = bus /\ DOMAIN client' = Handlers
        /\ \A other \in Handlers : DOMAIN client'[other] = Receiver
        /\ \A other \in Handlers : other # h => client'[other] = client[other]
    BY <1>2 DEF SendSnapshot, StreamInv, StreamsOK, Disconnected, Receiver
  <2>8. client'[h].seen = <<>>
    BY <1>2 DEF SendSnapshot, StreamInv, StreamsOK, Disconnected
  <2>7. StreamsOK'
    BY <2>8, <2>2, <2>5, <2>6 DEF StreamInv, StreamsOK
  <2> QED
    BY <2>4, <2>7 DEF StreamInv
<1>3. CASE Subscribe(h)
  <2> DEFINE record == [handler[h] EXCEPT !.phase = "streaming"]
  <2>1. handler' = [handler EXCEPT ![h] = record]
    BY <1>1, <1>3 DEF Subscribe, To
  <2>2. Shaped(record)
    BY <1>1, <1>3 DEF Subscribe, Shaped, Fields, HandlerPhase
  <2>3. Goes(h, record)
    BY <1>1, <1>3, <2>1, <2>2 DEF Goes, Subscribe, vars, controlVars, Shaped, Fields
  <2> HIDE DEF record
  <2>4. ControlInv'
    BY <2>3, ControlGoes DEF StreamInv
  <2>5. \A other \in Handlers : other # h => handler'[other] = handler[other]
    BY <1>1, <2>1
  <2>6. /\ bus' = bus /\ DOMAIN client' = Handlers
        /\ \A other \in Handlers : DOMAIN client'[other] = Receiver
        /\ \A other \in Handlers : other # h => client'[other] = client[other]
        /\ client'[h].joined = Len(bus) /\ client'[h].cursor = Len(bus)
        /\ client'[h].seen = client[h].seen
    BY <1>3 DEF Subscribe, StreamInv, StreamsOK, Receiver
  <2>7. client[h].seen = <<>> /\ Len(bus) \in Nat
    BY <1>3, SequenceGrows DEF Subscribe, StreamInv, StreamsOK
  <2>8. SubSeq(bus, Len(bus) + 1, Len(bus)) = <<>> /\ IsSequence(<<>>)
    <3>1. PICK S : bus \in Seq(S)
      BY DEF StreamInv, StreamsOK, IsSequence
    <3> QED
      BY <3>1 DEF IsSequence
  <2>9. handler'[h].phase = "streaming"
    BY <1>1, <1>3, <2>1 DEF record, Shaped, Fields
  <2>10. /\ client'[h].joined \in Nat /\ client'[h].cursor \in Nat
         /\ client'[h].joined <= client'[h].cursor
         /\ client'[h].cursor <= Len(bus')
         /\ IsSequence(client'[h].seen)
         /\ client'[h].seen = SubSeq(bus', client'[h].joined + 1, client'[h].cursor)
    <3>1. Len(bus') = Len(bus) /\ Len(bus) <= Len(bus)
      BY <2>6, <2>7
    <3> QED
      BY <2>6, <2>7, <2>8, <3>1
  <2>11. StreamsOK'
    BY <2>5, <2>6, <2>9, <2>10 DEF StreamInv, StreamsOK
  <2> QED
    BY <2>4, <2>11 DEF StreamInv
<1>4. CASE Forward(h)
  <2>1. ControlInv'
    BY <1>4 DEF StreamInv, ControlInv, HandlersOK, QueueOK, ServingOK, WorkerWaits, Forward,
                allVars, serverVars, vars, controlVars
  <2> QED
    BY <1>4, <2>1, StreamForward DEF StreamInv
<1>5. CASE Lagged(h) \/ SocketFails(h)
  <2>1. Goes(h, Free)
    <3>1. handler[h].phase \notin {"queued", "running"} /\ Release(h)
      BY <1>5 DEF Lagged, SocketFails
    <3>2. UNCHANGED <<queue, serving, workerUp, pc>>
      BY <1>5 DEF Lagged, SocketFails, vars, controlVars
    <3> QED
      BY <3>1, <3>2, FreeGoes
  <2>2. ControlInv'
    BY <2>1, ControlGoes DEF StreamInv
  <2>3. bus' = bus /\ client' = client
    BY <1>5 DEF Lagged, SocketFails
  <2>4. Quiet
    BY <1>1, <2>1, ShapedFree DEF Quiet, Goes
  <2> QED
    BY <2>2, <2>3, <2>4, StreamKeeps DEF StreamInv
<1> QED
  BY <1>2, <1>3, <1>4, <1>5 DEF StreamStep

LEMMA StreamInductive == StreamInv /\ [FeedNext]_feedVars => StreamInv'
<1> SUFFICES ASSUME StreamInv, [FeedNext]_feedVars PROVE StreamInv'
  OBVIOUS
<1>1. CASE UNCHANGED feedVars
  <2>1. UNCHANGED allVars /\ client' = client
    BY <1>1 DEF feedVars
  <2>2. ControlInv'
    BY <2>1, ControlStep DEF StreamInv
  <2>3. StreamsOK'
    BY <2>1, StreamKeeps DEF StreamInv, Quiet, allVars, serverVars
  <2> QED
    BY <2>2, <2>3 DEF StreamInv
<1>2. CASE ServerNext /\ UNCHANGED client
  BY <1>2, ControlStep, ServerStreams DEF StreamInv
<1>3. CASE \E h \in Handlers : StreamStep(h) \/ SocketFails(h)
  BY <1>3, StreamSteps
<1> QED
  BY <1>1, <1>2, <1>3 DEF FeedNext, FeedFinished

\* A stream that goes on has shown its client, each once and in order, every event
\* broadcast since it subscribed: whatever handlers publish between two of its turns,
\* and however often it falls behind (api.rs:417-422).
THEOREM StreamsHaveNoGap == FeedSpec => []StreamGapless
<1>1. StreamInv => StreamGapless
  BY DEF StreamInv, StreamsOK, StreamGapless
<1> QED
  BY <1>1, StreamInit, StreamInductive, PTL DEF FeedSpec

(***************************************************************************)
(* The journal: what the calls of a handler do to it.                      *)
(***************************************************************************)

LEMMA SequencesJoin ==
  ASSUME NEW s, IsSequence(s), NEW t, IsSequence(t)
  PROVE  /\ IsSequence(s \o t)
         /\ Len(s) \in Nat /\ Len(t) \in Nat /\ DOMAIN s = 1..Len(s) /\ DOMAIN t = 1..Len(t)
         /\ Len(s \o t) = Len(s) + Len(t)
         /\ \A i \in 1..Len(s) : (s \o t)[i] = s[i]
         /\ \A i \in 1..Len(t) : (s \o t)[Len(s) + i] = t[i]
         /\ \A i, j \in 0..Len(s) : SubSeq(s \o t, i + 1, j) = SubSeq(s, i + 1, j)
         /\ SubSeq(s \o t, Len(s) + 1, Len(s) + Len(t)) = t
         /\ s = <<>> => s \o t = t
         /\ t = <<>> => s \o t = s
<1>1. PICK S : s \in Seq(S)
  BY DEF IsSequence
<1>2. PICK T : t \in Seq(T)
  BY DEF IsSequence
<1> DEFINE U == S \cup T
<1>3. s \in Seq(U) /\ t \in Seq(U)
  BY <1>1, <1>2
<1> HIDE DEF U
<1>4. /\ s \o t \in Seq(U) /\ Len(s \o t) = Len(s) + Len(t)
      /\ Len(s) \in Nat /\ Len(t) \in Nat
      /\ DOMAIN s = 1..Len(s) /\ DOMAIN t = 1..Len(t)
      /\ DOMAIN (s \o t) = 1..(Len(s) + Len(t))
      /\ \A i \in 1..Len(s) : (s \o t)[i] = s[i]
      /\ \A i \in 1..Len(t) : (s \o t)[Len(s) + i] = t[i]
  BY <1>3
<1>5. \A i, j \in 0..Len(s) : SubSeq(s \o t, i + 1, j) = SubSeq(s, i + 1, j)
  BY <1>3, <1>4
<1>6. SubSeq(s \o t, Len(s) + 1, Len(s) + Len(t)) = t
  BY <1>3, <1>4
<1>7. s = <<>> => s \o t = t
  BY <1>3, <1>4
<1>8. t = <<>> => s \o t = s
  BY <1>3, <1>4
<1> QED
  BY <1>4, <1>5, <1>6, <1>7, <1>8 DEF IsSequence

\* All of `list' is in `rows', in order and with nothing in between.
Journaled(list, rows) ==
  \E i \in 0..(Len(rows) - Len(list)) : list = SubSeq(rows, i + 1, i + Len(list))

LEMMA JournalGrows ==
  ASSUME NEW rows, IsSequence(rows), NEW more, IsSequence(more)
  PROVE  /\ Journaled(more, rows \o more)
         /\ ToSet(rows) \subseteq ToSet(rows \o more)
         /\ \A list : IsSequence(list) /\ Journaled(list, rows)
                        => Journaled(list, rows \o more)
<1>1. /\ Len(rows) \in Nat /\ Len(more) \in Nat /\ DOMAIN rows = 1..Len(rows)
      /\ IsSequence(rows \o more) /\ Len(rows \o more) = Len(rows) + Len(more)
      /\ \A i \in 1..Len(rows) : (rows \o more)[i] = rows[i]
      /\ \A i, j \in 0..Len(rows) : SubSeq(rows \o more, i + 1, j) = SubSeq(rows, i + 1, j)
      /\ SubSeq(rows \o more, Len(rows) + 1, Len(rows) + Len(more)) = more
  BY SequencesJoin
<1> DEFINE longer == rows \o more
<1>2. DOMAIN longer = 1..Len(longer)
  BY <1>1, SequenceGrows
<1> HIDE DEF longer
<1>3. Journaled(more, longer)
  <2>1. Len(rows) \in 0..(Len(longer) - Len(more))
    BY <1>1 DEF longer
  <2> QED
    BY <1>1, <2>1 DEF Journaled, longer
<1>4. ToSet(rows) \subseteq ToSet(longer)
  <2>1. \A i \in DOMAIN rows : i \in DOMAIN longer /\ longer[i] = rows[i]
    BY <1>1, <1>2 DEF longer
  <2> QED
    BY <2>1 DEF ToSet
<1>5. \A list : IsSequence(list) /\ Journaled(list, rows) => Journaled(list, longer)
  <2> TAKE list
  <2> HAVE IsSequence(list) /\ Journaled(list, rows)
  <2>1. PICK i \in 0..(Len(rows) - Len(list)) : list = SubSeq(rows, i + 1, i + Len(list))
    BY DEF Journaled
  <2>2. Len(list) \in Nat
    BY SequenceGrows
  <2>3. i \in 0..Len(rows) /\ i + Len(list) \in 0..Len(rows)
        /\ i \in 0..(Len(longer) - Len(list))
    BY <1>1, <2>1, <2>2 DEF longer
  <2>4. SubSeq(longer, i + 1, i + Len(list)) = SubSeq(rows, i + 1, i + Len(list))
    BY <1>1, <2>3 DEF longer
  <2> QED
    BY <2>1, <2>3, <2>4 DEF Journaled
<1> QED
  BY <1>3, <1>4, <1>5 DEF longer

LEMMA JournaledElements ==
  ASSUME NEW rows, IsSequence(rows), NEW list, IsSequence(list), Journaled(list, rows),
         NEW k \in DOMAIN list
  PROVE  list[k] \in ToSet(rows)
<1>1. PICK i \in 0..(Len(rows) - Len(list)) : list = SubSeq(rows, i + 1, i + Len(list))
  BY DEF Journaled
<1>2. /\ Len(rows) \in Nat /\ Len(list) \in Nat
      /\ DOMAIN rows = 1..Len(rows) /\ DOMAIN list = 1..Len(list)
  BY SequenceGrows
<1>3. PICK S : rows \in Seq(S)
  BY DEF IsSequence
<1>4. i + k \in DOMAIN rows /\ list[k] = rows[i + k]
  <2>1. i \in Nat /\ k \in Nat /\ i + k \in 1..Len(rows) /\ k \in 1..Len(list)
    BY <1>1, <1>2
  <2>2. SubSeq(rows, i + 1, i + Len(list))[k] = rows[i + 1 + k - 1]
    BY <1>1, <1>2, <1>3, <2>1
  <2>3. i + 1 + k - 1 = i + k
    BY <2>1
  <2> QED
    BY <1>1, <1>2, <2>1, <2>2, <2>3
<1> QED
  BY <1>4 DEF ToSet

Tables == {"orders", "trades", "orderHistory", "journal", "snapshots"}

RowCalls == {"record_ack", "record_cancel", "record_order_history"}

KeepsJournal(base, acc) ==
  DOMAIN base = Tables =>
    DOMAIN acc = Tables /\ acc.journal = base.journal /\ acc.snapshots = base.snapshots

Calling == INSTANCE FoldProofs WITH Op <- Perform, Rel <- KeepsJournal

LEMMA CallsFold ==
  ASSUME NEW base, NEW calls
  PROVE  PerformAll(base, calls) = Calling!Fold(base, calls)
BY DEF PerformAll, FoldLeft, MapThenFoldSet, Max,
       Calling!Fold, Calling!Recursion, Calling!Greatest

LEMMA RowCallKeeps ==
  ASSUME NEW base, NEW call, call.call \in RowCalls
  PROVE  KeepsJournal(base, Perform(base, call))
<1> SUFFICES ASSUME DOMAIN base = Tables
             PROVE  /\ DOMAIN Perform(base, call) = Tables
                    /\ Perform(base, call).journal = base.journal
                    /\ Perform(base, call).snapshots = base.snapshots
  BY DEF KeepsJournal
<1>1. \A rows : /\ [base EXCEPT !.orders = rows].journal = base.journal
                /\ [base EXCEPT !.orders = rows].snapshots = base.snapshots
                /\ DOMAIN [base EXCEPT !.orders = rows] = Tables
  BY DEF Tables
<1>2. CASE call.call = "record_ack"
  <2> DEFINE upserted == UpsertOrder(base, call.ack.order, call.ack.status)
             rows == FoldLeft(InsertTrade, upserted.trades, call.ack.trades)
  <2>1. /\ DOMAIN upserted = Tables
        /\ upserted.journal = base.journal /\ upserted.snapshots = base.snapshots
    BY <1>1 DEF UpsertOrder
  <2>2. Perform(base, call) = [upserted EXCEPT !.trades = rows]
    BY <1>2 DEF Perform, RecordAck
  <2> HIDE DEF upserted, rows
  <2> QED
    BY <2>1, <2>2 DEF Tables
<1>3. CASE call.call = "record_cancel"
  <2>1. Perform(base, call) = UpsertOrder(base, call.order, "cancelled")
    BY <1>3 DEF Perform, RecordCancel
  <2> QED
    BY <1>1, <2>1 DEF UpsertOrder
<1>4. CASE call.call = "record_order_history"
  <2> DEFINE rows == InsertOrderHistory(base.orderHistory, call.id, call.entries)
  <2>1. Perform(base, call) = [base EXCEPT !.orderHistory = rows]
    BY <1>4 DEF Perform, RecordOrderHistory
  <2> HIDE DEF rows
  <2> QED
    BY <2>1 DEF Tables
<1> QED
  BY <1>2, <1>3, <1>4 DEF RowCalls

\* The calls for rows leave the journal and the checkpoints alone.
LEMMA RowCallsKeep ==
  ASSUME NEW base, DOMAIN base = Tables, NEW calls, IsSequence(calls),
         \A i \in DOMAIN calls : calls[i].call \in RowCalls
  PROVE  /\ DOMAIN PerformAll(base, calls) = Tables
         /\ PerformAll(base, calls).journal = base.journal
         /\ PerformAll(base, calls).snapshots = base.snapshots
<1>1. PICK S : calls \in Seq(S)
  BY DEF IsSequence
<1>2. KeepsJournal(base, base)
  BY DEF KeepsJournal
<1>3. \A acc : \A i \in DOMAIN calls :
        KeepsJournal(base, acc) => KeepsJournal(base, Perform(acc, calls[i]))
  <2>1. \A acc : \A i \in DOMAIN calls : KeepsJournal(acc, Perform(acc, calls[i]))
    BY RowCallKeeps
  <2> QED
    BY <2>1 DEF KeepsJournal
<1>4. KeepsJournal(base, Calling!Fold(base, calls))
  BY <1>1, <1>2, <1>3, Calling!FoldKeeps
<1> QED
  BY <1>4, CallsFold DEF KeepsJournal

\* A last call for the events appends them, all at once.
LEMMA EventsCallAppends ==
  ASSUME NEW base, DOMAIN base = Tables, NEW front, IsSequence(front),
         \A i \in DOMAIN front : front[i].call \in RowCalls, NEW list
  PROVE  /\ DOMAIN PerformAll(base, Append(front, EventsCall(list))) = Tables
         /\ PerformAll(base, Append(front, EventsCall(list))).journal = base.journal \o list
         /\ PerformAll(base, Append(front, EventsCall(list))).snapshots = base.snapshots
<1> DEFINE call == EventsCall(list)
           done == PerformAll(base, front)
<1>1. DOMAIN done = Tables /\ done.journal = base.journal
      /\ done.snapshots = base.snapshots
  BY RowCallsKeep
<1>2. PICK S : front \in Seq(S)
  BY DEF IsSequence
<1> DEFINE T == S \cup {call}
<1>3. front \in Seq(T) /\ call \in T
  BY <1>2
<1> HIDE DEF T, call, done
<1>4. PerformAll(base, Append(front, call)) = Perform(done, call)
  BY <1>3, CallsFold, Calling!FoldAppend DEF done
<1>5. Perform(done, call) = [done EXCEPT !.journal = @ \o list]
  BY DEF Perform, RecordEvents, EventsCall, call
<1> QED
  BY <1>1, <1>4, <1>5 DEF Tables, call

(***************************************************************************)
(* What the engine reports of a command, in any state of its book.         *)
(***************************************************************************)

\* A submission or a replacement reports the trades of an order first, a mass cancel
\* the ids it has cancelled.
Reports(op) ==
  /\ op \in {"submit", "replace"} =>
       /\ pc # "mass_cancel"
       /\ events # <<>> => IsSequence(events[1].ack.trades)
  /\ op = "mass_cancel" =>
       /\ pc \in {"idle", "mass_cancel"}
       /\ events # <<>> => IsSequence(events[1].ids)

ReportOK ==
  /\ IsSequence(events) /\ IsSequence(fills) /\ IsSequence(cancelled)
  /\ ~WorkerWaits => Reports(handler[serving].command.op)

LEMMA ShortSequences ==
  /\ IsSequence(<<>>)
  /\ \A x : IsSequence(<<x>>) /\ <<x>> # <<>> /\ <<x>>[1] = x
  /\ \A x, y : IsSequence(<<x, y>>) /\ <<x, y>> # <<>> /\ <<x, y>>[1] = x
<1>1. IsSequence(<<>>)
  BY DEF IsSequence
<1>2. ASSUME NEW x PROVE IsSequence(<<x>>) /\ <<x>> # <<>> /\ <<x>>[1] = x
  <2>1. <<x>> \in Seq({x})
    OBVIOUS
  <2> QED
    BY <2>1 DEF IsSequence
<1>3. ASSUME NEW x, NEW y PROVE IsSequence(<<x, y>>) /\ <<x, y>> # <<>> /\ <<x, y>>[1] = x
  <2>1. <<x, y>> \in Seq({x, y})
    OBVIOUS
  <2> QED
    BY <2>1 DEF IsSequence
<1> QED
  BY <1>1, <1>2, <1>3

LEMMA SequenceOn ==
  ASSUME NEW s, IsSequence(s), NEW f, f = [i \in DOMAIN s |-> f[i]]
  PROVE  IsSequence(f)
<1>1. Len(s) \in Nat /\ DOMAIN s = 1..Len(s)
  BY SequenceGrows
<1>2. f \in Seq({f[i] : i \in DOMAIN s})
  BY <1>1
<1> QED
  BY <1>2 DEF IsSequence

\* The events of one order's acknowledgement begin with one that holds its trades.
LEMMA AckEventsReport ==
  ASSUME NEW order, NEW status, NEW trades, IsSequence(trades), NEW seq
  PROVE  /\ IsSequence(AckEvents(Ack(order, status, trades), seq))
         /\ AckEvents(Ack(order, status, trades), seq) # <<>>
         /\ AckEvents(Ack(order, status, trades), seq)[1].ack = Ack(order, status, trades)
         /\ AckEvents(Ack(order, status, trades), seq)[1].ack.trades = trades
<1> DEFINE ack == Ack(order, status, trades)
           front == IF replaced = 0 THEN <<>> ELSE <<ReplaceEvent(replaced, ack)>>
           own == <<OrderEvent(ack)>>
           told == [i \in DOMAIN ack.trades |-> TradeEvent(ack.trades[i])]
           last == <<BookEvent(seq)>>
<1>1. AckEvents(ack, seq) = ((front \o own) \o told) \o last
  BY DEF AckEvents
<1>2. ack.trades = trades
  BY DEF Ack
<1>3. /\ ReplaceEvent(replaced, ack).ack = ack
      /\ OrderEvent(ack).ack = ack
  BY DEF ReplaceEvent, OrderEvent
<1>4. IsSequence(own) /\ IsSequence(last) /\ IsSequence(front)
      /\ own # <<>> /\ own[1] = OrderEvent(ack)
      /\ (replaced # 0 => front # <<>> /\ front[1] = ReplaceEvent(replaced, ack))
      /\ (replaced = 0 => front = <<>>)
  <2>1. CASE replaced = 0
    BY <2>1, ShortSequences
  <2>2. CASE replaced # 0
    BY <2>2, ShortSequences
  <2> QED
    BY <2>1, <2>2
<1>5. IsSequence(told)
  <2>1. told = [i \in DOMAIN trades |-> told[i]]
    BY <1>2
  <2> HIDE DEF told
  <2> QED
    BY <2>1, SequenceOn
<1> HIDE DEF ack, front, own, told, last
<1> DEFINE begin == front \o own
<1>6. IsSequence(begin) /\ begin # <<>> /\ begin[1].ack = ack
  <2>1. CASE replaced = 0
    <3>1. begin = own
      BY <1>4, <2>1, SequencesJoin
    <3> HIDE DEF begin
    <3> QED
      BY <1>3, <1>4, <3>1
  <2>2. CASE replaced # 0
    <3>1. 1 \in 1..Len(front)
      BY <1>4, <2>2, SequencesJoin, EmptySeq
    <3>2. begin[1] = front[1] /\ IsSequence(begin) /\ Len(begin) >= 1
      BY <1>4, <3>1, SequencesJoin
    <3> QED
      BY <1>3, <1>4, <2>2, <3>2
  <2> QED
    BY <2>1, <2>2
<1> HIDE DEF begin
<1> DEFINE more == begin \o told
<1>7. IsSequence(more) /\ Len(more) >= 1 /\ more[1] = begin[1]
  <2>1. 1 \in 1..Len(begin)
    BY <1>6, SequencesJoin, EmptySeq
  <2> QED
    BY <1>5, <1>6, <2>1, SequencesJoin
<1> HIDE DEF more
<1>8. IsSequence(more \o last) /\ Len(more \o last) >= 1 /\ (more \o last)[1] = more[1]
  <2>1. 1 \in 1..Len(more)
    BY <1>7, SequenceGrows
  <2> QED
    BY <1>4, <2>1, <1>7, SequencesJoin
<1> QED
  BY <1>1, <1>2, <1>6, <1>7, <1>8 DEF ack, begin, more

\* The engine has a list of events, of fills and of cancelled orders.
Lists == IsSequence(events) /\ IsSequence(fills) /\ IsSequence(cancelled)

LEMMA SubmitReports ==
  ASSUME Lists, NEW req, Submit(req)
  PROVE  /\ Lists'
         /\ pc' # "mass_cancel"
         /\ events' # <<>> => IsSequence(events'[1].ack.trades)
<1>1. CASE RejectInvalid(req)
  BY <1>1, ShortSequences DEF RejectInvalid, Answer, Lists
<1>2. ASSUME NEW status, AcceptAs(req, status)
      PROVE  /\ Lists' /\ pc' = "idle"
             /\ IsSequence(events'[1].ack.trades)
  <2>1. events' = AckEvents(Ack(Incoming(req), status, <<>>), sequence + 1)
        /\ pc' = "idle" /\ fills' = fills /\ cancelled' = <<>>
    BY <1>2 DEF AcceptAs, Answer
  <2>2. IsSequence(<<>>)
    BY ShortSequences
  <2> QED
    BY <2>1, <2>2, AckEventsReport DEF Lists
<1>3. CASE BeginExecution(req)
  BY <1>3, ShortSequences DEF BeginExecution, Lists
<1> QED
  BY <1>1, <1>2, <1>3 DEF Submit, AcceptStop, RejectFok

LEMMA StartReports ==
  ASSUME Lists, NEW command, Start(command), pc = "idle",
         command.op \in {"submit", "replace", "mass_cancel"}
  PROVE  Lists' /\ Reports(command.op)'
<1>1. CASE command.op = "submit"
  <2>1. Submit(command.req)
    BY <1>1 DEF Start
  <2> QED
    BY <1>1, <2>1, SubmitReports DEF Reports
<1>2. CASE command.op = "replace"
  <2>1. Replace(command.id) \/ OrderNotFound
    BY <1>2 DEF Start
  <2> QED
    BY <1>2, <2>1, ShortSequences DEF Replace, OrderNotFound, controlVars, Reports, Lists
<1>3. CASE command.op = "mass_cancel"
  <2>1. MassCancel
    BY <1>3 DEF Start
  <2> QED
    BY <1>3, <2>1, ShortSequences DEF MassCancel, Reports, Lists
<1> QED
  BY <1>1, <1>2, <1>3

LEMMA StartLists ==
  ASSUME Lists, NEW command, Start(command), pc = "idle"
  PROVE  Lists'
<1>1. CASE command.op \in {"submit", "replace", "mass_cancel"}
  BY <1>1, StartReports
<1>2. CASE command.op \in {"cancel"}
  <2>1. CASE Cancel(command.id)
    BY <2>1, ShortSequences DEF Cancel, Answer, Lists
  <2>2. CASE OrderNotFound
    BY <2>2, ShortSequences DEF OrderNotFound, controlVars, Lists
  <2> QED
    BY <1>2, <2>1, <2>2 DEF Start
<1>3. CASE \E book : Load(book)
  BY <1>3 DEF Load, controlVars, Lists
<1>4. CASE UNCHANGED vars
  BY <1>4 DEF vars, controlVars, Lists
<1> QED
  BY <1>1, <1>2, <1>3, <1>4 DEF Start

\* An acknowledgement joins the events of its command.
LEMMA AckJoins ==
  ASSUME Lists, NEW status, NEW trades, IsSequence(trades),
         events' = events \o AckEvents(Ack(taker, status, trades), sequence)
  PROVE  /\ IsSequence(events')
         /\ (events # <<>> => IsSequence(events[1].ack.trades))
              => IsSequence(events'[1].ack.trades)
<1> DEFINE own == AckEvents(Ack(taker, status, trades), sequence)
<1>1. IsSequence(own) /\ own # <<>> /\ own[1].ack.trades = trades
  BY AckEventsReport
<1>2. events' = events \o own
  OBVIOUS
<1> HIDE DEF own
<1>3. IsSequence(events')
  BY <1>1, <1>2, SequencesJoin DEF Lists
<1>4. CASE events = <<>>
  <2>1. events' = own
    BY <1>1, <1>2, <1>4, SequencesJoin DEF Lists
  <2> QED
    BY <1>1, <1>3, <2>1
<1>5. CASE events # <<>>
  <2>1. 1 \in 1..Len(events)
    BY <1>5, SequenceGrows, EmptySeq DEF Lists
  <2>2. events'[1] = events[1]
    BY <1>1, <1>2, <2>1, SequencesJoin DEF Lists
  <2> QED
    BY <1>3, <1>5, <2>2
<1> QED
  BY <1>4, <1>5

LEMMA StepReports ==
  ASSUME Lists, NEW op, Reports(op), EngineStep, pc # "replace"
  PROVE  Lists' /\ Reports(op)'
<1>1. CASE RejectPostOnly
  <2>1. IsSequence(<<>>)
    BY ShortSequences
  <2>2. /\ pc = "match" /\ pc' = "idle" /\ fills' = fills /\ cancelled' = cancelled
        /\ events' = events \o AckEvents(Ack(taker, "rejected", <<>>), sequence)
    BY <1>1 DEF RejectPostOnly
  <2> QED
    BY <2>1, <2>2, AckJoins DEF Lists, Reports
<1>2. CASE FillBest
  <2>1. IsSequence(fills')
    BY <1>2, SequenceGrows DEF FillBest, Lists
  <2> QED
    BY <1>2, <2>1 DEF FillBest, Lists, Reports
<1>3. CASE Settle
  <2> DEFINE status == SettledStatus(levels, taker, fills # <<>>)
  <2>1. /\ pc = "match" /\ pc' \in {"idle", "trigger"} /\ fills' = <<>>
        /\ cancelled' = cancelled
        /\ events' = events \o AckEvents(Ack(taker, status, fills), sequence)
    BY <1>3 DEF Settle
  <2> HIDE DEF status
  <2> QED
    BY <2>1, AckJoins, ShortSequences DEF Lists, Reports
<1>4. CASE ActivateStop \/ SkipStop
  BY <1>4 DEF ActivateStop, SkipStop, Lists, Reports
<1>5. ASSUME NEW id \in cancelling, MassCancelOne(id)
      PROVE  Lists' /\ Reports(op)'
  <2>1. IsSequence(cancelled')
    BY <1>5, SequenceGrows DEF MassCancelOne, Lists
  <2> QED
    BY <1>5, <2>1 DEF MassCancelOne, Lists, Reports
<1>6. CASE MassCancelDone
  <2> DEFINE own == MassCancelEvent(cancelled)
             last == BookEvent(sequence)
  <2>1. /\ pc = "mass_cancel" /\ pc' = "idle" /\ fills' = fills /\ cancelled' = <<>>
        /\ events' = <<own, last>>
    BY <1>6 DEF MassCancelDone, Answer
  <2>2. own.ids = cancelled
    BY DEF MassCancelEvent
  <2> HIDE DEF own, last
  <2>3. IsSequence(events') /\ events'[1] = own
    BY <2>1, ShortSequences
  <2> QED
    BY <2>1, <2>2, <2>3, ShortSequences DEF Lists, Reports
<1> QED
  BY <1>1, <1>2, <1>3, <1>4, <1>5, <1>6 DEF EngineStep

(***************************************************************************)
(* What a handler makes of the report.                                     *)
(***************************************************************************)

KeepsSequence(base, acc) == IsSequence(base) => IsSequence(acc)

Touching == INSTANCE FoldProofs WITH Op <- Touch, Rel <- KeepsSequence

LEMMA TouchedSequence ==
  ASSUME NEW ack, IsSequence(ack.trades)
  PROVE  IsSequence(TouchedIds(ack))
<1> DEFINE base == <<ack.order.id>>
<1>1. TouchedIds(ack) = Touching!Fold(base, ack.trades)
  BY DEF TouchedIds, FoldLeft, MapThenFoldSet, Max,
         Touching!Fold, Touching!Recursion, Touching!Greatest
<1>2. PICK S : ack.trades \in Seq(S)
  BY DEF IsSequence
<1>3. IsSequence(base)
  BY ShortSequences
<1> HIDE DEF base
<1>4. \A acc : \A i \in DOMAIN ack.trades :
        KeepsSequence(base, acc) => KeepsSequence(base, Touch(acc, ack.trades[i]))
  BY SequenceGrows DEF KeepsSequence, Touch
<1>5. KeepsSequence(base, base)
  BY DEF KeepsSequence
<1>6. KeepsSequence(base, Touching!Fold(base, ack.trades))
  BY <1>2, <1>4, <1>5, Touching!FoldKeeps
<1> QED
  BY <1>1, <1>3, <1>6 DEF KeepsSequence

\* The calls are some for rows, and at last the one for the events.
EndsWith(calls, list) ==
  \E front :
    /\ IsSequence(front)
    /\ \A i \in DOMAIN front : front[i].call \in RowCalls
    /\ calls = Append(front, EventsCall(list))

LEMMA HistoryCallsOK ==
  ASSUME NEW ids, IsSequence(ids)
  PROVE  /\ IsSequence(HistoryCalls(ids))
         /\ \A i \in DOMAIN HistoryCalls(ids) : HistoryCalls(ids)[i].call \in RowCalls
<1>1. \A i \in DOMAIN ids : HistoryCalls(ids)[i] = HistoryCall(ids[i], history[ids[i]])
  BY DEF HistoryCalls
<1>2. HistoryCalls(ids) = [i \in DOMAIN ids |-> HistoryCalls(ids)[i]]
  BY DEF HistoryCalls
<1>3. IsSequence(HistoryCalls(ids))
  BY <1>2, SequenceOn
<1>4. DOMAIN HistoryCalls(ids) = DOMAIN ids
  BY DEF HistoryCalls
<1> QED
  BY <1>1, <1>3, <1>4 DEF HistoryCall, RowCalls

LEMMA CancelCallsOK ==
  ASSUME NEW ids, IsSequence(ids), NEW orders
  PROVE  /\ IsSequence(CancelCalls(ids, orders))
         /\ \A i \in DOMAIN CancelCalls(ids, orders) :
              CancelCalls(ids, orders)[i].call \in RowCalls
<1> DEFINE order(i) == CHOOSE order \in orders : order.id = ids[i]
<1>1. CancelCalls(ids, orders) = [i \in DOMAIN ids |-> CancelCall(order(i))]
  BY DEF CancelCalls
<1> HIDE DEF order
<1>2. \A i \in DOMAIN ids : CancelCalls(ids, orders)[i] = CancelCall(order(i))
  BY <1>1
<1>3. CancelCalls(ids, orders) = [i \in DOMAIN ids |-> CancelCalls(ids, orders)[i]]
      /\ DOMAIN CancelCalls(ids, orders) = DOMAIN ids
  BY <1>1
<1>4. IsSequence(CancelCalls(ids, orders))
  BY <1>3, SequenceOn
<1> QED
  BY <1>2, <1>3, <1>4 DEF CancelCall, RowCalls

\* Two lists of such calls, and the last one.
LEMMA CallsEnd ==
  ASSUME NEW one, IsSequence(one), \A i \in DOMAIN one : one[i].call \in RowCalls,
         NEW two, IsSequence(two), \A i \in DOMAIN two : two[i].call \in RowCalls,
         NEW list
  PROVE  EndsWith((one \o two) \o <<EventsCall(list)>>, list)
<1> DEFINE front == one \o two
           call == EventsCall(list)
<1>1. /\ IsSequence(front) /\ Len(one) \in Nat /\ Len(two) \in Nat
      /\ DOMAIN one = 1..Len(one) /\ DOMAIN two = 1..Len(two)
      /\ Len(front) = Len(one) + Len(two)
      /\ \A i \in 1..Len(one) : front[i] = one[i]
      /\ \A i \in 1..Len(two) : front[Len(one) + i] = two[i]
  BY SequencesJoin
<1> HIDE DEF front, call
<1>2. DOMAIN front = 1..Len(front)
  BY <1>1, SequenceGrows
<1>3. \A i \in DOMAIN front : front[i].call \in RowCalls
  <2> TAKE i \in DOMAIN front
  <2>1. CASE i <= Len(one)
    BY <1>1, <1>2, <2>1
  <2>2. CASE i > Len(one)
    <3>1. i - Len(one) \in 1..Len(two) /\ Len(one) + (i - Len(one)) = i
      BY <1>1, <1>2, <2>2
    <3>2. front[i] = two[i - Len(one)]
      BY <1>1, <3>1
    <3> QED
      BY <1>1, <3>1, <3>2
  <2> QED
    BY <1>1, <1>2, <2>1, <2>2
<1>4. front \o <<call>> = Append(front, call)
  <2>1. PICK S : front \in Seq(S)
    BY <1>1 DEF IsSequence
  <2> DEFINE T == S \cup {call}
  <2>2. front \in Seq(T) /\ call \in T
    BY <2>1
  <2> HIDE DEF T
  <2> QED
    BY <2>2
<1> QED
  BY <1>1, <1>3, <1>4 DEF EndsWith, front, call

LEMMA CallsForReport ==
  ASSUME ReportOK, NEW command, command.op \in Mutations, Reports(command.op),
         events # <<>>, NEW orders
  PROVE  EndsWith(CallsFor(command, orders), events)
<1>1. CASE command.op \in {"submit", "replace"}
  <2> DEFINE touched == TouchedIds(OwnAck)
                          \o (IF command.op = "replace" THEN <<command.id>> ELSE <<>>)
             ack == <<AckCall(OwnAck)>>
  <2>1. IsSequence(TouchedIds(OwnAck))
    BY <1>1, TouchedSequence DEF Reports, OwnAck
  <2>2. IsSequence(IF command.op = "replace" THEN <<command.id>> ELSE <<>>)
    BY ShortSequences
  <2>3. IsSequence(touched)
    BY <2>1, <2>2, SequencesJoin
  <2>4. CallsFor(command, orders)
          = (ack \o HistoryCalls(touched)) \o <<EventsCall(events)>>
    BY <1>1 DEF CallsFor
  <2>5. IsSequence(ack) /\ \A i \in DOMAIN ack : ack[i].call \in RowCalls
    <3>1. DOMAIN ack = {1} /\ ack[1] = AckCall(OwnAck)
      OBVIOUS
    <3>2. AckCall(OwnAck).call \in RowCalls
      BY DEF AckCall, RowCalls
    <3>3. IsSequence(ack)
      BY ShortSequences
    <3> HIDE DEF ack
    <3> QED
      BY <3>1, <3>2, <3>3
  <2> HIDE DEF touched, ack
  <2> QED
    BY <2>3, <2>4, <2>5, HistoryCallsOK, CallsEnd
<1>2. CASE command.op \in {"cancel", "mass_cancel"}
  <2> DEFINE ids == IF command.op = "mass_cancel" THEN events[1].ids ELSE <<command.id>>
  <2>1. IsSequence(ids)
    BY <1>2, ShortSequences DEF Reports
  <2>2. CallsFor(command, orders)
          = (CancelCalls(ids, orders) \o HistoryCalls(ids)) \o <<EventsCall(events)>>
    BY <1>2 DEF CallsFor
  <2> HIDE DEF ids
  <2> QED
    BY <2>1, <2>2, HistoryCallsOK, CancelCallsOK, CallsEnd
<1> QED
  BY <1>1, <1>2 DEF Mutations

(***************************************************************************)
(* What is broadcast and what clients were told is in the journal.         *)
(***************************************************************************)

\* What a handler holds between the engine's answer and its client's.
Owes(record, rows) ==
  /\ record.phase # "publishing" => record.sent = 0
  /\ record.phase = "persisting" =>
       /\ IsSequence(record.events) /\ record.events # <<>>
       /\ EndsWith(record.calls, record.events)
  /\ record.phase = "publishing" =>
       /\ IsSequence(record.events)
       /\ record.sent \in Nat /\ record.sent < Len(record.events)
       /\ record.command.op \in Mutations => Journaled(record.events, rows)
       /\ record.command.op \in Reloads =>
            \A i \in DOMAIN record.events : record.events[i].event = "book"

JournalOK ==
  /\ DOMAIN db = Tables /\ IsSequence(db.journal) /\ IsSequence(bus)
  /\ \A list \in acknowledged : IsSequence(list) /\ Journaled(list, db.journal)
  /\ \A h \in Handlers : Owes(handler[h], db.journal)

JournalInv == ControlInv /\ ReportOK /\ JournalOK

LEMMA OwesFree ==
  ASSUME NEW rows
  PROVE  Owes(Free, rows)
BY DEF Owes, Free

LEMMA OwesGrows ==
  ASSUME NEW rows, IsSequence(rows), NEW more, IsSequence(more), NEW record,
         Owes(record, rows)
  PROVE  Owes(record, rows \o more)
BY JournalGrows DEF Owes

\* Nothing is broadcast or answered, the journal may grow, and what handlers hold is
\* in order.
LEMMA JournalKeeps ==
  ASSUME JournalOK, DOMAIN db' = Tables, NEW more, IsSequence(more),
         db'.journal = db.journal \o more,
         acknowledged' = acknowledged, bus' = bus,
         \A h \in Handlers : handler'[h] = handler[h] \/ Owes(handler'[h], db'.journal)
  PROVE  JournalOK'
<1>1. IsSequence(db'.journal)
  BY SequencesJoin DEF JournalOK
<1>2. /\ ToSet(db.journal) \subseteq ToSet(db'.journal)
      /\ \A list : IsSequence(list) /\ Journaled(list, db.journal)
                     => Journaled(list, db'.journal)
  BY JournalGrows DEF JournalOK
<1>3. \A h \in Handlers : Owes(handler'[h], db'.journal)
  BY OwesGrows DEF JournalOK
<1> QED
  BY <1>1, <1>2, <1>3 DEF JournalOK

\* In particular when the tables stay as they are.
LEMMA JournalStays ==
  ASSUME JournalOK, DOMAIN db' = Tables, db'.journal = db.journal,
         acknowledged' = acknowledged, bus' = bus,
         \A h \in Handlers : handler'[h] = handler[h] \/ Owes(handler'[h], db'.journal)
  PROVE  JournalOK'
<1>1. IsSequence(<<>>) /\ db.journal \o <<>> = db.journal
  BY ShortSequences, SequencesJoin DEF JournalOK
<1> QED
  BY <1>1, JournalKeeps

LEMMA JournalInit == ServerInit => JournalInv
<1> SUFFICES ASSUME ServerInit PROVE JournalInv
  OBVIOUS
<1>1. ReportOK
  BY ShortSequences DEF ServerInit, Init, ReportOK, WorkerWaits
<1>2. JournalOK
  BY ShortSequences, OwesFree DEF ServerInit, JournalOK, EmptyDb, Tables
<1> QED
  BY <1>1, <1>2, ControlInit DEF JournalInv

\* Persisting a report appends its events to the journal, and nothing else to it.
LEMMA PersistAppends ==
  ASSUME JournalInv, NEW h \in Handlers, Persist(h)
  PROVE  /\ DOMAIN db' = Tables
         /\ db'.journal = db.journal \o handler[h].events
         /\ db'.snapshots = db.snapshots
<1>1. /\ handler[h].phase = "persisting" /\ db' = PerformAll(db, handler[h].calls)
      /\ DOMAIN db = Tables
  BY DEF Persist, JournalInv, JournalOK
<1>2. EndsWith(handler[h].calls, handler[h].events)
  BY <1>1 DEF JournalInv, JournalOK, Owes
<1>3. PICK front :
        /\ IsSequence(front)
        /\ \A i \in DOMAIN front : front[i].call \in RowCalls
        /\ handler[h].calls = Append(front, EventsCall(handler[h].events))
  BY <1>2 DEF EndsWith
<1>4. PICK base, list : base = db /\ list = handler[h].events
  OBVIOUS
<1>5. db' = PerformAll(base, Append(front, EventsCall(list)))
  BY <1>1, <1>3, <1>4
<1>6. /\ DOMAIN db' = Tables
      /\ db'.journal = base.journal \o list /\ db'.snapshots = base.snapshots
  <2>1. DOMAIN base = Tables
    BY <1>1, <1>4
  <2> QED
    BY <1>3, <1>5, <2>1, EventsCallAppends
<1> QED
  BY <1>4, <1>6

\* A handler persists its report.
LEMMA JournalPersist ==
  ASSUME JournalInv, NEW h \in Handlers, Persist(h)
  PROVE  JournalOK'
<1> DEFINE record == handler[h]
           next == [record EXCEPT !.phase = "publishing", !.calls = <<>>]
<1>1. Shaped(record) /\ DOMAIN handler = Handlers /\ record.phase = "persisting"
  BY DEF JournalInv, ControlInv, HandlersOK, Persist
<1>2. /\ handler' = [handler EXCEPT ![h] = next]
      /\ acknowledged' = acknowledged /\ bus' = bus
  BY <1>1 DEF Persist
<1>3. IsSequence(record.events) /\ record.events # <<>> /\ record.sent = 0
  BY <1>1 DEF JournalInv, JournalOK, Owes
<1>5. DOMAIN db' = Tables /\ db'.journal = db.journal \o record.events
  BY PersistAppends
<1>6. /\ DOMAIN record = Fields /\ next.phase = "publishing" /\ next.sent = 0
      /\ next.events = record.events /\ next.command = record.command
      /\ record.command.op \in Mutations
  BY <1>1, <1>3 DEF Shaped, Fields
<1> HIDE DEF record, next
<1>7. Owes(next, db'.journal)
  <2>1. Journaled(record.events, db'.journal)
    BY <1>3, <1>5, JournalGrows DEF JournalInv, JournalOK
  <2>2. 0 \in Nat /\ 0 < Len(record.events)
    BY <1>3, SequenceGrows, EmptySeq
  <2> QED
    BY <1>3, <1>6, <2>1, <2>2 DEF Owes, Mutations, Reloads
<1>8. \A other \in Handlers : handler'[other] = handler[other] \/ Owes(handler'[other], db'.journal)
  BY <1>1, <1>2, <1>7
<1> QED
  BY <1>2, <1>3, <1>5, <1>8, JournalKeeps DEF JournalInv

\* A report that fails to be persisted, somewhere before its events, adds none.
LEMMA PersistFailsKeeps ==
  ASSUME JournalInv, NEW h \in Handlers, PersistFails(h)
  PROVE  /\ DOMAIN db' = Tables
         /\ db'.journal = db.journal /\ db'.snapshots = db.snapshots
<1> DEFINE calls == handler[h].calls
<1>1. handler[h].phase = "persisting"
  BY DEF PersistFails
<1>2. PICK done \in 0..(Len(calls) - 1) : db' = PerformAll(db, SubSeq(calls, 1, done))
  BY DEF PersistFails
<1>3. PICK front :
        /\ IsSequence(front)
        /\ \A i \in DOMAIN front : front[i].call \in RowCalls
        /\ calls = Append(front, EventsCall(handler[h].events))
  BY <1>1 DEF JournalInv, JournalOK, Owes, EndsWith
<1> HIDE DEF calls
<1> DEFINE made == SubSeq(front, 1, done)
<1>4. /\ Len(front) \in Nat /\ DOMAIN front = 1..Len(front) /\ done \in 0..Len(front)
      /\ SubSeq(calls, 1, done) = made
  <2>1. Len(front) \in Nat /\ Len(calls) = Len(front) + 1 /\ DOMAIN front = 1..Len(front)
    BY <1>3, SequenceGrows
  <2>2. done \in 0..Len(front)
    BY <1>2, <2>1
  <2>3. SubSeq(calls, 0 + 1, done) = SubSeq(front, 0 + 1, done) /\ 0 \in 0..Len(front)
    BY <1>3, <2>1, <2>2, SequenceGrows
  <2> QED
    BY <2>1, <2>2, <2>3
<1>5. IsSequence(made) /\ \A i \in DOMAIN made : made[i].call \in RowCalls
  <2>1. PICK S : front \in Seq(S)
    BY <1>3 DEF IsSequence
  <2>2. made \in Seq(S) /\ Len(made) = done /\ DOMAIN made = 1..done
        /\ \A i \in 1..done : made[i] = front[i]
    BY <1>4, <2>1
  <2>3. \A i \in DOMAIN made : i \in DOMAIN front
    BY <1>4, <2>2
  <2> HIDE DEF made
  <2> QED
    BY <1>3, <2>2, <2>3 DEF IsSequence
<1> HIDE DEF made
<1> QED
  BY <1>2, <1>4, <1>5, RowCallsKeep DEF JournalInv, JournalOK

LEMMA JournalPersistFails ==
  ASSUME JournalInv, NEW h \in Handlers, PersistFails(h)
  PROVE  JournalOK'
<1>1. DOMAIN handler = Handlers
  BY DEF JournalInv, ControlInv, HandlersOK
<1>2. \A other \in Handlers : handler'[other] = handler[other] \/ Owes(handler'[other], db'.journal)
  BY <1>1, OwesFree DEF PersistFails, Release
<1> QED
  BY <1>2, PersistFailsKeeps, JournalStays DEF PersistFails, JournalInv

\* It broadcasts one event, and after the last one answers its client.
LEMMA JournalPublish ==
  ASSUME JournalInv, NEW h \in Handlers, Publish(h)
  PROVE  JournalOK'
<1> DEFINE record == handler[h]
           event == record.events[record.sent + 1]
           last == record.sent + 1 = Len(record.events)
           next == IF last THEN Free ELSE [record EXCEPT !.sent = @ + 1]
<1>1. Shaped(record) /\ DOMAIN handler = Handlers /\ record.phase = "publishing"
  BY DEF JournalInv, ControlInv, HandlersOK, Publish
<1>2. /\ handler' = [handler EXCEPT ![h] = next]
      /\ bus' = Append(bus, event) /\ db' = db
      /\ \A list \in acknowledged' :
           list \in acknowledged \/ (list = record.events /\ record.command.op \in Mutations)
  BY <1>1 DEF Publish
<1>3. /\ IsSequence(record.events) /\ record.sent \in Nat /\ record.sent < Len(record.events)
      /\ record.command.op \in Mutations => Journaled(record.events, db.journal)
      /\ record.command.op \in Reloads =>
           \A i \in DOMAIN record.events : record.events[i].event = "book"
      /\ record.command.op \in Mutations \cup Reloads
  BY <1>1 DEF JournalInv, JournalOK, Owes, Shaped
<1>4. /\ IsSequence(db.journal) /\ IsSequence(bus) /\ DOMAIN db = Tables
      /\ Len(record.events) \in Nat /\ DOMAIN record.events = 1..Len(record.events)
  BY <1>3, SequenceGrows DEF JournalInv, JournalOK
<1>6. Owes(next, db.journal)
  <2>1. CASE last
    BY <2>1, OwesFree
  <2>2. CASE ~last
    <3> DEFINE more == [record EXCEPT !.sent = @ + 1]
    <3>1. /\ more.phase = "publishing" /\ more.events = record.events
          /\ more.sent = record.sent + 1 /\ more.command = record.command
      BY <1>1 DEF Shaped, Fields
    <3>2. record.sent + 1 \in Nat /\ record.sent + 1 < Len(record.events)
      BY <1>3, <1>4, <2>2
    <3>3. next = more
      BY <2>2
    <3> HIDE DEF more, record, next
    <3> QED
      BY <1>3, <3>1, <3>2, <3>3 DEF Owes
  <2> QED
    BY <2>1, <2>2
<1> HIDE DEF record, event, last, next
<1>7. \A other \in Handlers : Owes(handler'[other], db'.journal)
  BY <1>1, <1>2, <1>6 DEF JournalInv, JournalOK
<1>8. IsSequence(bus')
  BY <1>2, <1>4, SequenceGrows
<1>9. \A list \in acknowledged' : IsSequence(list) /\ Journaled(list, db'.journal)
  BY <1>2, <1>3 DEF JournalInv, JournalOK
<1> QED
  BY <1>2, <1>4, <1>7, <1>8, <1>9 DEF JournalOK

\* What becomes of the engine's answer.
LEMMA AnsweredOwes ==
  ASSUME ReportOK, NEW record, Shaped(record), record.phase = "running", record.sent = 0,
         Reports(record.command.op), NEW rows
  PROVE  Owes(Answered(record), rows)
<1> DEFINE op == record.command.op
           calls == CallsFor(record.command, record.orders)
           captured == <<[covers |-> 0, snapshot |-> Captured]>>
           update == <<BookEvent(sequence)>>
<1>1. op \in Mutations \cup Reloads \cup {"checkpoint", "stream"} /\ DOMAIN record = Fields
  BY DEF Shaped
<1> HIDE DEF captured
<1>2. CASE op \in Mutations /\ events = <<>>
  <2>1. Answered(record) = Free
    BY <1>2 DEF Answered, Mutations, Reloads
  <2> QED
    BY <2>1, OwesFree
<1>3. CASE op \in Mutations /\ events # <<>>
  <2>1. EndsWith(calls, events)
    BY <1>3, CallsForReport
  <2> HIDE DEF calls
  <2>2. Answered(record) = [record EXCEPT !.phase = "persisting", !.orders = {},
                                          !.events = events, !.calls = calls]
    BY <1>3 DEF Answered, calls, Mutations, Reloads
  <2>3. /\ Answered(record).phase = "persisting" /\ Answered(record).events = events
        /\ Answered(record).calls = calls /\ Answered(record).sent = 0
    BY <1>1, <2>2 DEF Fields
  <2> QED
    BY <1>3, <2>1, <2>3 DEF Owes, ReportOK
<1>4. CASE op \in Reloads
  <2>1. /\ IsSequence(update) /\ Len(update) = 1 /\ DOMAIN update = {1}
        /\ update[1].event = "book"
    BY ShortSequences DEF BookEvent
  <2> HIDE DEF update
  <2>2. Answered(record) = [record EXCEPT !.phase = "publishing", !.events = update]
    BY <1>4 DEF Answered, update, Mutations, Reloads
  <2>3. /\ Answered(record).phase = "publishing" /\ Answered(record).events = update
        /\ Answered(record).sent = 0 /\ Answered(record).command = record.command
    BY <1>1, <2>2 DEF Fields
  <2>4. 0 \in Nat /\ 0 < 1 /\ record.command.op \notin Mutations
    BY <1>4 DEF Mutations, Reloads
  <2>5. \A i \in DOMAIN update : update[i].event = "book"
    BY <2>1
  <2> HIDE DEF op
  <2> QED
    BY <2>1, <2>3, <2>4, <2>5 DEF Owes
<1>5. CASE op = "checkpoint"
  <2>1. Answered(record) = [record EXCEPT !.phase = "capturing", !.checkpoint = captured]
    BY <1>5 DEF Answered, captured, Mutations, Reloads
  <2> QED
    BY <1>1, <2>1 DEF Owes, Fields
<1>6. CASE op = "stream"
  <2> HIDE DEF update
  <2>1. Answered(record) = [record EXCEPT !.phase = "greeting", !.events = update]
    BY <1>6 DEF Answered, update, Mutations, Reloads
  <2> QED
    BY <1>1, <2>1 DEF Owes, Fields
<1> QED
  BY <1>1, <1>2, <1>3, <1>4, <1>5, <1>6

LEMMA JournalRespond ==
  ASSUME JournalInv, Respond \/ AnswerUnheard
  PROVE  ReportOK' /\ JournalOK'
<1>1. /\ serving \in Handlers /\ DOMAIN handler = Handlers
      /\ Shaped(handler[serving]) /\ handler[serving].phase = "running"
  <2>1. ~WorkerWaits
    BY DEF Respond, AnswerUnheard
  <2> QED
    BY <2>1 DEF JournalInv, ControlInv, ServingOK, HandlersOK, WorkerWaits
<1>2. /\ ~WorkerWaits /\ serving' = NoHandler /\ db' = db /\ bus' = bus
      /\ acknowledged' = acknowledged /\ UNCHANGED <<events, fills, cancelled>>
  BY DEF Respond, AnswerUnheard, vars, controlVars
<1>3. ReportOK'
  BY <1>2 DEF JournalInv, ReportOK, WorkerWaits
<1>4. \A h \in Handlers : handler'[h] = handler[h] \/ Owes(handler'[h], db.journal)
  <2>1. CASE Respond
    <3>1. Owes(Answered(handler[serving]), db.journal)
      BY <1>1, <1>2, AnsweredOwes DEF JournalInv, ReportOK, JournalOK, Owes
    <3>2. handler' = [handler EXCEPT ![serving] = Answered(handler[serving])]
      BY <2>1 DEF Respond
    <3> QED
      BY <1>1, <3>1, <3>2
  <2>2. CASE AnswerUnheard
    BY <1>1, <2>2, OwesFree DEF AnswerUnheard, Release
  <2> QED
    BY <2>1, <2>2
<1>5. JournalOK'
  BY <1>2, <1>4, JournalStays DEF JournalInv, JournalOK
<1> QED
  BY <1>3, <1>5

LEMMA JournalServe ==
  ASSUME JournalInv, Serve
  PROVE  ReportOK' /\ JournalOK'
<1> DEFINE h == queue[1]
           command == handler[h].command
<1>1. /\ h \in Handlers /\ Head(queue) = h /\ DOMAIN handler = Handlers
      /\ DOMAIN handler[h] = Fields /\ handler[h].phase = "queued"
      /\ command.op \in Mutations \cup Reloads \cup {"checkpoint", "stream"}
  BY DEF JournalInv, ControlInv, HandlersOK, QueueOK, Serve, Shaped
<1>2. /\ handler' = [handler EXCEPT ![h].phase = "running",
                                    ![h].orders = Condemned(command)]
      /\ serving' = h /\ pc = "idle" /\ Start(command)
      /\ db' = db /\ bus' = bus /\ acknowledged' = acknowledged
  BY <1>1 DEF JournalInv, ControlInv, ServingOK, Serve, WorkerWaits
<1>3. /\ handler'[h].command = command /\ handler'[h].phase = "running"
      /\ handler'[h].sent = handler[h].sent
      /\ \A other \in Handlers : other # h => handler'[other] = handler[other]
  BY <1>1, <1>2 DEF Fields
<1> HIDE DEF h, command
<1>4. Lists
  BY DEF JournalInv, ReportOK, Lists
<1>5. ReportOK'
  <2>1. Lists'
    BY <1>2, <1>4, StartLists
  <2>2. PICK asked : asked = command
    OBVIOUS
  <2>3. Reports(asked.op)'
    <3>1. CASE asked.op \in {"submit", "replace", "mass_cancel"}
      BY <1>2, <1>4, <2>2, <3>1, StartReports
    <3>2. CASE asked.op \notin {"submit", "replace", "mass_cancel"}
      BY <3>2 DEF Reports
    <3> QED
      BY <3>1, <3>2
  <2>4. handler'[serving'].command = asked
    BY <1>2, <1>3, <2>2
  <2> QED
    BY <2>1, <2>3, <2>4 DEF ReportOK, Lists
<1>6. Owes(handler'[h], db.journal)
  BY <1>1, <1>3 DEF JournalInv, JournalOK, Owes
<1>7. JournalOK'
  BY <1>2, <1>3, <1>6, JournalStays DEF JournalInv, JournalOK
<1> QED
  BY <1>5, <1>7

LEMMA JournalWork ==
  ASSUME JournalInv, Work
  PROVE  ReportOK' /\ JournalOK'
<1>1. UNCHANGED serverVars /\ ~WorkerWaits
  BY WorkPhase
<1>2. Lists /\ Reports(handler[serving].command.op)
  BY <1>1 DEF JournalInv, ReportOK, Lists
<1> DEFINE op == handler[serving].command.op
<1>3. Lists' /\ Reports(op)'
  <2>1. CASE pc = "replace"
    <3>1. Submit(handler[serving].command.req) /\ op = "replace"
      BY <2>1 DEF Work, JournalInv, ControlInv, ServingOK
    <3>2. /\ Lists' /\ pc' # "mass_cancel"
          /\ events' # <<>> => IsSequence(events'[1].ack.trades)
      BY <1>2, <3>1, SubmitReports
    <3>3. op' = "replace"
      BY <1>1, <3>1 DEF serverVars
    <3> QED
      BY <3>2, <3>3 DEF Reports
  <2>2. CASE pc # "replace"
    <3>1. PICK kind : kind = op
      OBVIOUS
    <3>2. EngineStep
      BY <2>2 DEF Work
    <3>3. Reports(kind)
      BY <1>2, <3>1
    <3> HIDE DEF op
    <3>4. Lists' /\ Reports(kind)'
      BY <1>2, <2>2, <3>2, <3>3, StepReports
    <3>5. op' = kind
      BY <1>1, <3>1 DEF op, serverVars
    <3> QED
      BY <3>4, <3>5 DEF Reports
  <2> QED
    BY <2>1, <2>2
<1>4. ReportOK'
  BY <1>3 DEF ReportOK, Lists
<1>5. JournalOK'
  BY <1>1, JournalStays DEF JournalInv, JournalOK, serverVars
<1> QED
  BY <1>4, <1>5

\* A handler that neither persists nor publishes.
LEMMA JournalHandler ==
  ASSUME JournalInv, NEW h \in Handlers,
         \/ Receive(h) \/ Enqueue(h) \/ Abandon(h) \/ CoverJournal(h) \/ SaveCheckpoint(h)
         \/ LoadCheckpoint(h) \/ ReadEvents(h) \/ DbFails(h) \/ SetKillSwitch(h)
  PROVE  JournalOK'
<1>1. DOMAIN handler = Handlers /\ DOMAIN handler[h] = Fields
  BY DEF JournalInv, ControlInv, HandlersOK, Shaped
<1>2. acknowledged' = acknowledged /\ bus' = bus
  BY DEF Receive, Enqueue, Abandon, CoverJournal, SaveCheckpoint, LoadCheckpoint, ReadEvents,
         DbFails, SetKillSwitch
<1>3. DOMAIN db' = Tables /\ db'.journal = db.journal
  <2>1. CASE SaveCheckpoint(h)
    BY <2>1 DEF SaveCheckpoint, RecordSnapshot, JournalInv, JournalOK, Tables
  <2>2. CASE ~SaveCheckpoint(h)
    BY <2>2 DEF Receive, Enqueue, Abandon, CoverJournal, LoadCheckpoint, ReadEvents,
                DbFails, SetKillSwitch, JournalInv, JournalOK
  <2> QED
    BY <2>1, <2>2
<1>4. Owes(handler[h], db.journal)
  BY DEF JournalInv, JournalOK
<1>5. \A other \in Handlers : handler'[other] = handler[other] \/ Owes(handler'[other], db.journal)
  <2>1. CASE Abandon(h) \/ SaveCheckpoint(h) \/ DbFails(h)
    BY <1>1, <2>1, OwesFree DEF Abandon, SaveCheckpoint, DbFails, Release
  <2>2. CASE Enqueue(h)
    BY <1>1, <1>4, <2>2 DEF Enqueue, To, Owes, Fields
  <2>3. CASE SetKillSwitch(h)
    BY <2>3 DEF SetKillSwitch
  <2>4. CASE Receive(h)
    <3>1. PICK command \in ArrivingCommands :
            handler' = [handler EXCEPT
                          ![h].command = command,
                          ![h].phase = IF command.op = "replay" THEN "loading"
                                                                ELSE "received"]
      BY <2>4 DEF Receive
    <3> DEFINE record == [handler[h] EXCEPT
                            !.command = command,
                            !.phase = IF command.op = "replay" THEN "loading" ELSE "received"]
    <3>5. handler' = [handler EXCEPT ![h] = record]
      BY <1>1, <3>1
    <3>6. record.phase \in {"loading", "received"} /\ record.sent = handler[h].sent
      BY <1>1 DEF Fields
    <3> HIDE DEF record
    <3>2. handler'[h].phase \in {"loading", "received"} /\ handler'[h].sent = handler[h].sent
      BY <1>1, <3>5, <3>6
    <3>3. handler[h].sent = 0
      BY <1>4, <2>4 DEF Owes, Receive
    <3>4. \A other \in Handlers : other # h => handler'[other] = handler[other]
      BY <1>1, <3>5
    <3> QED
      BY <3>2, <3>3, <3>4 DEF Owes
  <2>5. CASE CoverJournal(h) \/ LoadCheckpoint(h) \/ ReadEvents(h)
    <3>1. /\ handler[h].sent = 0
          /\ \A other \in Handlers : other # h => handler'[other] = handler[other]
      BY <1>1, <1>4, <2>5 DEF CoverJournal, LoadCheckpoint, ReadEvents, Owes
    <3>2. handler'[h].phase \in {"saving", "reading", "received"}
          /\ handler'[h].sent = handler[h].sent
      BY <1>1, <2>5 DEF CoverJournal, LoadCheckpoint, ReadEvents, Fields
    <3> QED
      BY <3>1, <3>2 DEF Owes
  <2> QED
    BY <2>1, <2>2, <2>3, <2>4, <2>5
<1> QED
  BY <1>2, <1>3, <1>5, JournalStays DEF JournalInv

\* Handlers that move while the worker waits leave the engine's report alone, and so
\* does one that is told the worker is dead.
LEMMA ReportHandler ==
  ASSUME JournalInv, NEW h \in Handlers,
         \/ Receive(h) \/ Enqueue(h) \/ Abandon(h) \/ CoverJournal(h) \/ SaveCheckpoint(h)
         \/ LoadCheckpoint(h) \/ ReadEvents(h) \/ DbFails(h) \/ SetKillSwitch(h)
         \/ Persist(h) \/ PersistFails(h) \/ Publish(h)
  PROVE  ReportOK'
<1>1. UNCHANGED vars /\ serving' = serving
  BY DEF Receive, Enqueue, Abandon, CoverJournal, SaveCheckpoint, LoadCheckpoint, ReadEvents,
         DbFails, SetKillSwitch, Persist, PersistFails, Publish
<1>2. Lists' /\ \A op : Reports(op)' <=> Reports(op)
  BY <1>1 DEF JournalInv, ReportOK, Lists, Reports, vars, controlVars
<1>3. WorkerWaits \/ handler'[serving] = handler[serving]
  <2>1. CASE Abandon(h)
    <3>1. ~WorkerWaits => serving # h
      BY <2>1 DEF Abandon, JournalInv, ControlInv, ServingOK
    <3> QED
      BY <2>1, <3>1 DEF Abandon, Release, JournalInv, ControlInv, HandlersOK, ServingOK,
                        WorkerWaits
  <2>2. CASE ~Abandon(h)
    BY <2>2 DEF Receive, Enqueue, CoverJournal, SaveCheckpoint, LoadCheckpoint, ReadEvents,
                DbFails, SetKillSwitch, Persist, PersistFails, Publish
  <2> QED
    BY <2>1, <2>2
<1>4. ~WorkerWaits' => Reports(handler'[serving].command.op)
  BY <1>1, <1>3 DEF JournalInv, ReportOK, WorkerWaits
<1> QED
  BY <1>1, <1>2, <1>4 DEF ReportOK, Lists

LEMMA JournalStep == JournalInv /\ [ServerNext]_allVars => JournalInv'
<1> SUFFICES ASSUME JournalInv, [ServerNext]_allVars PROVE ReportOK' /\ JournalOK'
  BY ControlStep DEF JournalInv
<1>1. CASE UNCHANGED allVars
  BY <1>1 DEF JournalInv, ReportOK, Reports, JournalOK, WorkerWaits, allVars, serverVars,
              vars, controlVars
<1>2. CASE Worker
  BY <1>2, JournalServe, JournalWork, JournalRespond DEF Worker
<1>3. ASSUME NEW h \in Handlers, HandlerStep(h)
      PROVE  ReportOK' /\ JournalOK'
  BY <1>3, JournalHandler, JournalPersist, JournalPublish, ReportHandler DEF HandlerStep
<1>4. ASSUME NEW h \in Handlers, Arrival(h)
      PROVE  ReportOK' /\ JournalOK'
  BY <1>4, JournalHandler, ReportHandler DEF Arrival
<1>5. CASE Failure
  <2>1. CASE Panic
    <3>1. ReportOK'
      BY <2>1 DEF Panic, JournalInv, ReportOK, WorkerWaits, vars, controlVars
    <3>2. JournalOK'
      BY <2>1, JournalStays DEF Panic, JournalInv, JournalOK
    <3> QED
      BY <3>1, <3>2
  <2>2. CASE Crash
    <3>1. ReportOK'
      BY <2>2, ShortSequences DEF Crash, JournalInv, ReportOK, WorkerWaits, controlVars
    <3>2. IsSequence(bus') /\ bus' = <<>> /\ db' = db /\ acknowledged' = acknowledged
          /\ handler' = [h \in Handlers |-> Free]
      BY <2>2, ShortSequences DEF Crash
    <3>3. JournalOK'
      BY <3>2, OwesFree DEF JournalInv, JournalOK
    <3> QED
      BY <3>1, <3>3
  <2> QED
    BY <1>5, <2>1, <2>2, JournalRespond, JournalHandler, JournalPersistFails, ReportHandler
       DEF Failure
<1>6. CASE Finished
  BY <1>1, <1>6 DEF Finished
<1> QED
  BY <1>1, <1>2, <1>3, <1>4, <1>5, <1>6 DEF ServerNext

\* Whatever a client was told has been done stays in the journal, all of it and in
\* order (api.rs:182-195): through failed calls, clients that go away, a dead worker
\* and any number of restarts.
THEOREM AcknowledgedStays == ServerSpec => []AcknowledgedIsDurable
<1>1. JournalInv => AcknowledgedIsDurable
  BY DEF JournalInv, JournalOK, Journaled, AcknowledgedIsDurable
<1> QED
  BY <1>1, JournalInit, JournalStep, PTL DEF ServerSpec

(***************************************************************************)
(* What is broadcast.                                                      *)
(***************************************************************************)

\* A handler whose command replaces the book knows that it has been replaced.
BroadcastOK ==
  /\ \A h \in Handlers :
       handler[h].phase \in {"running", "publishing"} /\ handler[h].command.op \in Reloads
         => reloaded
  /\ PublishedIsJournaled

PublishedInv == JournalInv /\ BroadcastOK

\* Nothing leaves the journal.
LEMMA JournalKept ==
  ASSUME JournalInv, [ServerNext]_allVars
  PROVE  ToSet(db.journal) \subseteq ToSet(db'.journal)
<1>1. IsSequence(db.journal) /\ DOMAIN db = Tables
  BY DEF JournalInv, JournalOK
<1>2. ASSUME NEW h \in Handlers, Persist(h)
      PROVE  ToSet(db.journal) \subseteq ToSet(db'.journal)
  <2>1. handler[h].phase = "persisting" /\ IsSequence(handler[h].events)
    BY <1>2 DEF Persist, JournalInv, JournalOK, Owes
  <2>2. PICK rows, more : rows = db.journal /\ more = handler[h].events
    OBVIOUS
  <2>3. db'.journal = rows \o more /\ IsSequence(rows) /\ IsSequence(more)
    BY <1>1, <1>2, <2>1, <2>2, PersistAppends
  <2>4. ToSet(rows) \subseteq ToSet(rows \o more)
    BY <2>3, JournalGrows
  <2> QED
    BY <2>2, <2>3, <2>4
<1>3. ASSUME NEW h \in Handlers, PersistFails(h)
      PROVE  ToSet(db.journal) \subseteq ToSet(db'.journal)
  <2>1. db'.journal = db.journal
    BY <1>3, PersistFailsKeeps
  <2> QED
    BY <2>1
<1>4. ASSUME NEW h \in Handlers, SaveCheckpoint(h)
      PROVE  ToSet(db.journal) \subseteq ToSet(db'.journal)
  <2>1. db'.journal = db.journal
    BY <1>1, <1>4 DEF SaveCheckpoint, RecordSnapshot, Tables
  <2> QED
    BY <2>1
<1>5. ASSUME NEW h \in Handlers,
             \/ Enqueue(h) \/ Abandon(h) \/ Publish(h) \/ CoverJournal(h)
             \/ LoadCheckpoint(h) \/ ReadEvents(h) \/ Arrival(h) \/ DbFails(h)
      PROVE  db' = db
  BY <1>5 DEF Enqueue, Abandon, Publish, CoverJournal, LoadCheckpoint, ReadEvents, Arrival,
              Receive, SetKillSwitch, DbFails
<1>6. CASE Worker \/ AnswerUnheard \/ Panic \/ Crash \/ Finished \/ UNCHANGED allVars
  <2>1. db' = db
    BY <1>6 DEF Worker, Serve, Work, Respond, AnswerUnheard, Panic, Crash, Finished,
                allVars, serverVars
  <2> QED
    BY <2>1
<1> QED
  BY <1>2, <1>3, <1>4, <1>5, <1>6 DEF ServerNext, HandlerStep, Failure

\* Where a command that runs or is published comes from, unless it is now begun.
LEMMA PublishingFollows ==
  ASSUME ControlInv, [ServerNext]_allVars, ~Serve, NEW h \in Handlers,
         handler'[h].phase \in {"running", "publishing"}
  PROVE  /\ handler[h].phase \in {"running", "persisting", "publishing"}
         /\ handler'[h].command = handler[h].command
<1>1. /\ DOMAIN handler = Handlers
      /\ \A x \in Handlers : Shaped(handler[x]) /\ DOMAIN handler[x] = Fields
  BY DEF ControlInv, HandlersOK, Shaped
<1>2. CASE handler' = handler
  BY <1>2 DEF ControlInv, HandlersOK
<1>3. ASSUME NEW x \in Handlers, Release(x)
      PROVE  h # x /\ handler'[h] = handler[h]
  BY <1>1, <1>3 DEF Release, Free
<1>4. CASE Respond
  <2>1. /\ serving \in Handlers /\ Shaped(handler[serving])
        /\ handler[serving].phase = "running"
        /\ handler' = [handler EXCEPT ![serving] = Answered(handler[serving])]
    BY <1>1, <1>4 DEF Respond, ControlInv, ServingOK, WorkerWaits
  <2>2. CASE h = serving
    <3>1. PICK record : record = handler[serving]
      OBVIOUS
    <3>2. handler'[h] = Answered(record)
      BY <1>1, <2>1, <2>2, <3>1
    <3>3. Answered(record) # Free
      BY <3>2 DEF Free
    <3>4. Answered(record).command = record.command
      BY <2>1, <3>1, <3>3, AnsweredShaped
    <3> QED
      BY <2>1, <2>2, <3>1, <3>2, <3>4
  <2>3. CASE h # serving
    BY <1>1, <2>1, <2>3
  <2> QED
    BY <2>2, <2>3
<1>5. CASE AnswerUnheard
  <2>1. serving \in Handlers /\ Release(serving)
    BY <1>5 DEF AnswerUnheard, ControlInv, ServingOK, WorkerWaits
  <2> QED
    BY <1>3, <2>1
<1>6. ASSUME NEW x \in Handlers,
             Abandon(x) \/ SaveCheckpoint(x) \/ PersistFails(x) \/ DbFails(x)
      PROVE  handler'[h] = handler[h]
  BY <1>3, <1>6 DEF Abandon, SaveCheckpoint, PersistFails, DbFails
<1>7. ASSUME NEW x \in Handlers,
             \/ Receive(x) \/ Enqueue(x) \/ CoverJournal(x) \/ LoadCheckpoint(x)
             \/ ReadEvents(x)
      PROVE  handler'[h] = handler[h]
  <2>1. handler'[x].phase \in {"loading", "received", "queued", "saving", "reading"}
    <3>1. CASE Receive(x)
      BY <1>1, <3>1 DEF Receive, Fields
    <3>2. CASE Enqueue(x) \/ CoverJournal(x)
      BY <1>1, <3>2 DEF Enqueue, CoverJournal, To, Fields
    <3>3. CASE LoadCheckpoint(x) \/ ReadEvents(x)
      BY <1>1, <3>3 DEF LoadCheckpoint, ReadEvents, Fields
    <3> QED
      BY <1>7, <3>1, <3>2, <3>3
  <2>2. h # x
    BY <2>1
  <2>3. CASE Receive(x)
    BY <1>1, <2>2, <2>3 DEF Receive
  <2>4. CASE Enqueue(x) \/ CoverJournal(x)
    BY <1>1, <2>2, <2>4 DEF Enqueue, CoverJournal, To
  <2>5. CASE LoadCheckpoint(x) \/ ReadEvents(x)
    BY <1>1, <2>2, <2>5 DEF LoadCheckpoint, ReadEvents
  <2> QED
    BY <1>7, <2>3, <2>4, <2>5
<1>8. ASSUME NEW x \in Handlers, Persist(x)
      PROVE  \/ handler'[h] = handler[h]
             \/ h = x /\ handler[h].phase = "persisting"
                /\ handler'[h].command = handler[h].command
  BY <1>1, <1>8 DEF Persist, Fields
<1>9. ASSUME NEW x \in Handlers, Publish(x)
      PROVE  \/ handler'[h] = handler[h]
             \/ h = x /\ handler[h].phase = "publishing"
                /\ handler'[h].command = handler[h].command
  <2> DEFINE next == [handler[x] EXCEPT !.sent = @ + 1]
  <2>1. next.command = handler[x].command /\ handler[x].phase = "publishing"
    BY <1>1, <1>9 DEF Publish, Fields
  <2>2. handler' = [handler EXCEPT ![x] = Free] \/ handler' = [handler EXCEPT ![x] = next]
    BY <1>9 DEF Publish
  <2> HIDE DEF next
  <2>3. h # x => handler'[h] = handler[h]
    BY <1>1, <2>2
  <2>4. h = x => handler'[h] = next
    BY <1>1, <2>2 DEF Free
  <2> QED
    BY <2>1, <2>3, <2>4
<1>10. ~Crash
  BY DEF Crash, Free
<1>11. CASE Work \/ Panic \/ Finished \/ UNCHANGED allVars
  BY <1>2, <1>11 DEF Work, Panic, Finished, allVars, serverVars
<1>12. ASSUME NEW x \in Handlers, SetKillSwitch(x)
       PROVE  handler' = handler
  BY <1>12 DEF SetKillSwitch
<1> QED
  BY <1>2, <1>4, <1>5, <1>6, <1>7, <1>8, <1>9, <1>10, <1>11, <1>12
     DEF ServerNext, Worker, HandlerStep, Arrival, Failure

\* A book stays replaced.
LEMMA ReloadedStays ==
  ASSUME [ServerNext]_allVars, reloaded
  PROVE  reloaded'
<1>1. ASSUME NEW h \in Handlers, HandlerStep(h)
      PROVE  reloaded'
  BY <1>1 DEF HandlerStep, Enqueue, Abandon, Persist, Publish, CoverJournal, SaveCheckpoint,
              LoadCheckpoint, ReadEvents
<1>2. ASSUME NEW h \in Handlers, Arrival(h) \/ PersistFails(h) \/ DbFails(h)
      PROVE  reloaded'
  BY <1>2 DEF Arrival, Receive, SetKillSwitch, PersistFails, DbFails
<1>3. CASE Worker
  BY <1>3 DEF Worker, Serve, Work, Respond, serverVars
<1>4. CASE AnswerUnheard \/ Panic \/ Crash \/ Finished \/ UNCHANGED allVars
  BY <1>4 DEF AnswerUnheard, Panic, Crash, Finished, allVars, serverVars
<1> QED
  BY <1>1, <1>2, <1>3, <1>4 DEF ServerNext, Failure

\* Handlers broadcast, and a new process has a new channel.
LEMMA BusMoves ==
  ASSUME [ServerNext]_allVars
  PROVE  (\E h \in Handlers : Publish(h)) \/ bus' = bus \/ bus' = <<>>
<1>1. ASSUME NEW h \in Handlers, HandlerStep(h)
      PROVE  Publish(h) \/ bus' = bus
  BY <1>1 DEF HandlerStep, Enqueue, Abandon, Persist, CoverJournal, SaveCheckpoint,
              LoadCheckpoint, ReadEvents
<1>2. ASSUME NEW h \in Handlers, Arrival(h) \/ PersistFails(h) \/ DbFails(h)
      PROVE  bus' = bus
  BY <1>2 DEF Arrival, Receive, SetKillSwitch, PersistFails, DbFails
<1>3. CASE Worker
  BY <1>3 DEF Worker, Serve, Work, Respond, serverVars
<1>4. CASE AnswerUnheard \/ Panic \/ Crash \/ Finished \/ UNCHANGED allVars
  BY <1>4 DEF AnswerUnheard, Panic, Crash, Finished, allVars, serverVars
<1> QED
  BY <1>1, <1>2, <1>3, <1>4 DEF ServerNext, Failure

LEMMA ReloadsKnown ==
  ASSUME PublishedInv, [ServerNext]_allVars, NEW h \in Handlers,
         handler'[h].phase \in {"running", "publishing"}, handler'[h].command.op \in Reloads
  PROVE  reloaded'
<1>1. ControlInv
  BY DEF PublishedInv, JournalInv
<1>2. CASE Serve
  <2>1. /\ DOMAIN handler = Handlers /\ queue # <<>>
        /\ \A x \in Handlers : DOMAIN handler[x] = Fields
    BY <1>1, <1>2 DEF ControlInv, HandlersOK, Shaped, Serve
  <2>2. PICK x : x = Head(queue)
    OBVIOUS
  <2>3. /\ handler' = [handler EXCEPT ![x].phase = "running",
                                      ![x].orders = Condemned(handler[x].command)]
        /\ reloaded' = (reloaded \/ handler[x].command.op \in Reloads)
    BY <1>2, <2>2 DEF Serve
  <2>4. CASE h = x
    <3>1. handler'[h].command = handler[x].command
      BY <2>1, <2>3, <2>4 DEF Fields
    <3> QED
      BY <2>3, <3>1
  <2>5. CASE h # x
    <3>1. handler'[h] = handler[h]
      BY <2>1, <2>3, <2>5
    <3> QED
      BY <2>3, <3>1 DEF PublishedInv, BroadcastOK
  <2> QED
    BY <2>4, <2>5
<1>3. CASE ~Serve
  <2>1. /\ handler[h].phase \in {"running", "persisting", "publishing"}
        /\ handler'[h].command = handler[h].command
    BY <1>1, <1>3, PublishingFollows
  <2>2. handler[h].phase # "persisting"
    BY <1>1, <2>1 DEF ControlInv, HandlersOK, Shaped, Mutations, Reloads
  <2>3. reloaded
    BY <2>1, <2>2 DEF PublishedInv, BroadcastOK
  <2> QED
    BY <2>3, ReloadedStays
<1> QED
  BY <1>2, <1>3

\* An event that is published is in the journal, or the book of a reload.
LEMMA PublishTold ==
  ASSUME PublishedInv, NEW h \in Handlers, Publish(h)
  PROVE  \E event : /\ bus' = Append(bus, event)
                    /\ \/ event \in ToSet(db.journal)
                       \/ reloaded /\ event.event = "book"
<1> DEFINE record == handler[h]
           event == record.events[record.sent + 1]
<1>1. Shaped(record) /\ record.phase = "publishing" /\ bus' = Append(bus, event)
  BY DEF PublishedInv, JournalInv, ControlInv, HandlersOK, Publish
<1>2. /\ IsSequence(record.events) /\ record.sent \in Nat /\ record.sent < Len(record.events)
      /\ record.command.op \in Mutations => Journaled(record.events, db.journal)
      /\ record.command.op \in Reloads =>
           reloaded /\ \A i \in DOMAIN record.events : record.events[i].event = "book"
      /\ record.command.op \in Mutations \cup Reloads
      /\ IsSequence(db.journal)
  BY <1>1 DEF PublishedInv, BroadcastOK, JournalInv, JournalOK, Owes, Shaped
<1>3. Len(record.events) \in Nat /\ DOMAIN record.events = 1..Len(record.events)
  BY <1>2, SequenceGrows
<1>4. record.sent + 1 \in DOMAIN record.events
  BY <1>2, <1>3
<1>5. event \in ToSet(db.journal) \/ (reloaded /\ event.event = "book")
  BY <1>2, <1>4, JournaledElements
<1> QED
  BY <1>1, <1>5

LEMMA PublishedStep == PublishedInv /\ [ServerNext]_allVars => PublishedInv'
<1> SUFFICES ASSUME PublishedInv, [ServerNext]_allVars PROVE PublishedInv'
  OBVIOUS
<1>1. JournalInv /\ JournalInv'
  BY JournalStep DEF PublishedInv
<1>2. ToSet(db.journal) \subseteq ToSet(db'.journal) /\ (reloaded => reloaded')
  BY <1>1, JournalKept, ReloadedStays
<1>3. \A h \in Handlers :
        handler'[h].phase \in {"running", "publishing"} /\ handler'[h].command.op \in Reloads
          => reloaded'
  BY ReloadsKnown
<1>4. PublishedIsJournaled'
  <2>1. CASE bus' = bus \/ bus' = <<>>
    <3>1. \A i \in DOMAIN bus' : i \in DOMAIN bus /\ bus'[i] = bus[i]
      BY <2>1
    <3> QED
      BY <1>2, <3>1 DEF PublishedInv, BroadcastOK, PublishedIsJournaled
  <2>2. ASSUME NEW h \in Handlers, Publish(h)
        PROVE  PublishedIsJournaled'
    <3>1. PICK event : /\ bus' = Append(bus, event)
                       /\ \/ event \in ToSet(db.journal)
                          \/ reloaded /\ event.event = "book"
      BY <2>2, PublishTold
    <3>2. IsSequence(bus)
      BY <1>1 DEF JournalInv, JournalOK
    <3>3. /\ Len(bus) \in Nat /\ Len(bus') = Len(bus) + 1 /\ IsSequence(bus')
          /\ DOMAIN bus = 1..Len(bus)
          /\ bus'[Len(bus) + 1] = event /\ \A i \in 1..Len(bus) : bus'[i] = bus[i]
      BY <3>1, <3>2, SequenceGrows
    <3>4. DOMAIN bus' = 1..(Len(bus) + 1)
      BY <3>3, SequenceGrows
    <3>5. \A i \in DOMAIN bus' : i = Len(bus) + 1 \/ i \in DOMAIN bus
      BY <3>3, <3>4
    <3> QED
      BY <1>2, <3>1, <3>3, <3>5 DEF PublishedInv, BroadcastOK, PublishedIsJournaled
  <2>3. (\E h \in Handlers : Publish(h)) \/ bus' = bus \/ bus' = <<>>
    BY BusMoves
  <2> QED
    BY <2>1, <2>2, <2>3
<1> QED
  BY <1>1, <1>3, <1>4 DEF PublishedInv, BroadcastOK

\* Nothing is broadcast before it is in the journal (api.rs:86-99, 179-193), in whatever
\* order handlers persist and publish; after a restore or a replay, which broadcast a
\* book that nobody journals (api.rs:301-303, 335-337), no order, trade, cancel,
\* replacement or mass cancel is.
THEOREM PublishedAfterJournaled == ServerSpec => []PublishedIsJournaled
<1>1. ServerInit => PublishedInv
  BY JournalInit DEF ServerInit, PublishedInv, BroadcastOK, PublishedIsJournaled, Free
<1>2. PublishedInv => PublishedIsJournaled
  BY DEF PublishedInv, BroadcastOK
<1> QED
  BY <1>1, <1>2, PublishedStep, PTL DEF ServerSpec

(***************************************************************************)
(* The types of the engine, the handlers and the tables.  The engine's own *)
(* type invariant is not inductive here: a restore or a replay puts a book *)
(* together from what a checkpoint and the journal hold, so what they hold *)
(* is typed too, and with it every event and every order on the way there. *)
(***************************************************************************)

\* An order as the book and its events hold it: one that can rest has a price of a
\* level.
BookOrder ==
  {order \in Order : /\ order.price \in Price \cup {None}
                     /\ order.kind = "stop_limit" => order.price \in Price}

BookLevels(books) ==
  /\ DOMAIN books = Side
  /\ \A side \in Side : IsMap(books[side], Price, Seq(BookOrder))

BookStops(stops) ==
  /\ IsMap(stops, Nat, BookOrder) /\ IsFiniteSet(DOMAIN stops)
  /\ \A id \in DOMAIN stops : IsStopOrder(stops[id].kind)

AckRecord == [order : BookOrder, status : OrderStatus, trades : Seq(Trade)]

EventRecord ==
  [event : {"order"}, ack : AckRecord]
    \cup [event : {"trade"}, trade : Trade]
    \cup [event : {"book"}, sequence : Nat]
    \cup [event : {"cancel"}, id : Nat]
    \cup [event : {"mass_cancel"}, ids : Seq(Nat)]
    \cup [event : {"replace"}, cancelled : Nat, ack : AckRecord]

BookFields == {"nextOrderId", "nextTradeId", "sequence", "levels", "orderIndex",
               "stopOrders", "history", "recentTrades"}

\* A book as restore and replay build it.
BookTyped(b) ==
  /\ DOMAIN b = BookFields
  /\ b.nextOrderId \in Nat /\ b.nextTradeId \in Nat /\ b.sequence \in Nat
  /\ BookLevels(b.levels)
  /\ IsMap(b.orderIndex, Nat, Location)
  /\ BookStops(b.stopOrders)
  /\ IsMap(b.history, Nat, Seq(HistoryEntry))
  /\ b.recentTrades \in Seq(Trade)

SnapshotTyped(s) ==
  /\ s.nextOrderId \in Nat /\ s.nextTradeId \in Nat /\ s.sequence \in Nat
  /\ s.activeOrders \in Seq(BookOrder)
  /\ IsMap(s.history, Nat, Seq(HistoryEntry))
  /\ s.recentTrades \in Seq(Trade)

CheckpointTyped(c) ==
  /\ DOMAIN c = {"covers", "snapshot"}
  /\ c.covers \in Nat /\ SnapshotTyped(c.snapshot)

\* One checkpoint, as a sequence.
Holds(list) == \E c : list = <<c>> /\ CheckpointTyped(c)

\* What the engine keeps beside TypeInv.
EngineTyped ==
  /\ TypeInv
  /\ BookLevels(levels) /\ BookStops(stopOrders)
  /\ taker \in BookOrder
  /\ events \in Seq(EventRecord)

\* What a handler brings the engine, and what it has of it.
CommandTyped(command) ==
  /\ command.op \in {"submit", "replace"} => command.req \in Requests
  /\ command.op = "restore" => SnapshotTyped(command.snapshot)
  /\ command.op = "replay" =>
       /\ DOMAIN command = {"op", "checkpoint", "events"}
       /\ command.events \in Seq(EventRecord)
       /\ command.checkpoint = <<>> \/ Holds(command.checkpoint)

RecordTyped(record) ==
  /\ record.phase # "free" => CommandTyped(record.command)
  /\ record.phase = "persisting" => record.events \in Seq(EventRecord)
  /\ record.phase \in {"capturing", "saving"} => Holds(record.checkpoint)

StoreTyped ==
  /\ db.journal \in Seq(EventRecord)
  /\ IsSequence(db.snapshots)
  /\ \A i \in DOMAIN db.snapshots : CheckpointTyped(db.snapshots[i])

RecordsTyped == \A h \in Handlers : RecordTyped(handler[h])

TypedInv == JournalInv /\ EngineTyped /\ StoreTyped /\ RecordsTyped

\* A level is a queue of orders, and so is a queue that a level becomes.
LEMMA LevelSet ==
  ASSUME NEW books, BookLevels(books), NEW side \in Side, NEW price \in Price,
         NEW level \in Seq(BookOrder)
  PROVE  BookLevels(SetQueue(books, side, price, level))
BY DEF BookLevels, IsMap, SetQueue, Restrict

LEMMA LevelQueue ==
  ASSUME NEW books, BookLevels(books), NEW side \in Side, NEW price
  PROVE  Queue(books, side, price) \in Seq(BookOrder)
BY DEF BookLevels, IsMap, Queue

LEMMA SomeOrders ==
  ASSUME NEW level \in Seq(BookOrder)
  PROVE  level \in Seq(Order) /\ \A i \in DOMAIN level : level[i] \in BookOrder
<1>1. Len(level) \in Nat /\ DOMAIN level = 1..Len(level)
  BY LenProperties
<1>2. \A i \in 1..Len(level) : level[i] \in BookOrder
  BY ElementOfSeq
<1>3. BookOrder \subseteq Order
  BY DEF BookOrder
<1>4. level = [i \in 1..Len(level) |-> level[i]]
  BY <1>1, SeqDef
<1> QED
  BY <1>1, <1>2, <1>3, <1>4, SeqDef

LEMMA LevelPush ==
  ASSUME NEW books, BookLevels(books), NEW order \in BookOrder, order.price # None
  PROVE  BookLevels(Push(books, order))
<1>1. order.side \in Side /\ order.price \in Price
  BY DEF BookOrder, Order
<1>2. Append(Queue(books, order.side, order.price), order) \in Seq(BookOrder)
  BY <1>1, LevelQueue, AppendProperties
<1> QED
  BY <1>1, <1>2, LevelSet DEF Push

LEMMA LevelRemove ==
  ASSUME NEW books, BookLevels(books), NEW side \in Side, NEW price \in Price, NEW id
  PROVE  BookLevels(RemoveFromLevel(books, side, price, id))
<1> DEFINE level == Queue(books, side, price)
           i == PositionOf(level, id)
<1>1. level \in Seq(BookOrder) /\ level \in Seq(Order)
  BY LevelQueue, SomeOrders
<1>2. i = 0 \/ i \in 1..Len(level)
  BY <1>1, PositionOfFound
<1>3. CASE i = 0
  BY <1>3 DEF RemoveFromLevel
<1>4. CASE i # 0
  <2>1. RemoveAt(level, i) \in Seq(BookOrder)
    BY <1>1, <1>2, <1>4, RemoveAtProperties
  <2>2. BookLevels(SetQueue(books, side, price, RemoveAt(level, i)))
    BY <2>1, LevelSet
  <2> QED
    BY <1>4, <2>2 DEF RemoveFromLevel
<1> QED
  BY <1>3, <1>4

LEMMA LevelDeplete ==
  ASSUME NEW books, BookLevels(books), NEW side \in Side,
         NEW price \in DOMAIN books[side],
         NEW i \in DOMAIN books[side][price],
         NEW quantity \in Nat, quantity <= books[side][price][i].remaining
  PROVE  BookLevels(Deplete(books, side, price, i, quantity))
<1> DEFINE level == books[side][price]
           left == level[i].remaining - quantity
           after == IF left = 0 THEN RemoveAt(level, i)
                                ELSE [level EXCEPT ![i].remaining = left]
<1>1. price \in Price /\ level \in Seq(BookOrder)
  BY DEF BookLevels, IsMap
<1>2. i \in 1..Len(level) /\ level[i] \in BookOrder
  BY <1>1, LenProperties, ElementOfSeq
<1>3. left \in Nat
  BY <1>2 DEF BookOrder, Order
<1> HIDE DEF level, left
<1>4. [level[i] EXCEPT !.remaining = left] \in BookOrder
  BY <1>2, <1>3 DEF BookOrder, Order
<1>5. [level EXCEPT ![i] = [level[i] EXCEPT !.remaining = left]] \in Seq(BookOrder)
  BY <1>1, <1>2, <1>4, ExceptSeq
<1>6. [level EXCEPT ![i].remaining = left]
        = [level EXCEPT ![i] = [level[i] EXCEPT !.remaining = left]]
  OBVIOUS
<1>7. after \in Seq(BookOrder)
  BY <1>1, <1>2, <1>5, <1>6, RemoveAtProperties
<1> HIDE DEF after
<1>8. BookLevels(SetQueue(books, side, price, after))
  BY <1>1, <1>7, LevelSet
<1> QED
  BY <1>8 DEF Deplete, after, level, left

\* Stop orders come and go one by one.
LEMMA StopPut ==
  ASSUME NEW stops, BookStops(stops), NEW order \in BookOrder, IsStopOrder(order.kind),
         NEW id \in Nat
  PROVE  BookStops(Put(stops, id, order))
<1> DEFINE after == Put(stops, id, order)
<1>1. IsMap(after, Nat, BookOrder)
  BY PutType DEF BookStops
<1>2. DOMAIN after = DOMAIN stops \cup {id} /\ IsFiniteSet(DOMAIN stops \cup {id})
  BY FS_AddElement DEF BookStops, Put
<1>3. \A other \in DOMAIN after : IsStopOrder(after[other].kind)
  BY DEF BookStops, Put
<1> HIDE DEF after
<1> QED
  BY <1>1, <1>2, <1>3 DEF BookStops, after

LEMMA StopWithout ==
  ASSUME NEW stops, BookStops(stops), NEW id
  PROVE  BookStops(Without(stops, id))
<1> DEFINE after == Without(stops, id)
<1>1. IsMap(after, Nat, BookOrder)
  BY WithoutType DEF BookStops
<1>2. DOMAIN after = DOMAIN stops \ {id} /\ IsFiniteSet(DOMAIN stops \ {id})
  BY FS_RemoveElement DEF BookStops, Without, Restrict
<1>3. \A other \in DOMAIN after : IsStopOrder(after[other].kind)
  BY DEF BookStops, Without, Restrict
<1> HIDE DEF after
<1> QED
  BY <1>1, <1>2, <1>3 DEF BookStops, after

(***************************************************************************)
(* The books restore and replay build.                                     *)
(***************************************************************************)

LEMMA EmptyTyped == BookTyped(EmptyBook)
<1>1. BookLevels(EmptyLevels)
  BY EmptyMap DEF BookLevels, EmptyLevels
<1>2. BookStops(<<>>)
  <2>1. DOMAIN <<>> = {} /\ IsFiniteSet({})
    BY FS_EmptySet
  <2> QED
    BY <2>1, EmptyMap DEF BookStops
<1>3. <<>> \in Seq(Trade) /\ IsMap(<<>>, Nat, Location) /\ IsMap(<<>>, Nat, Seq(HistoryEntry))
  BY EmptyMap
<1> QED
  BY <1>1, <1>2, <1>3 DEF BookTyped, EmptyBook, BookFields

LEMMA RestTyped ==
  ASSUME NEW b, BookTyped(b), NEW order \in BookOrder
  PROVE  BookTyped(RestActive(b, order))
<1>1. order.id \in Nat /\ order.side \in Side /\ order.price \in Price \cup {None}
  BY DEF BookOrder, Order
<1>2. CASE IsStopOrder(order.kind)
  <2> DEFINE stops == Put(b.stopOrders, order.id, order)
  <2>1. BookStops(stops)
    BY <1>1, <1>2, StopPut DEF BookTyped
  <2> HIDE DEF stops
  <2>2. RestActive(b, order) = [b EXCEPT !.stopOrders = stops]
    BY <1>2 DEF RestActive, stops
  <2> QED
    BY <2>1, <2>2 DEF BookTyped, BookFields
<1>3. CASE ~IsStopOrder(order.kind) /\ order.price = None
  BY <1>3 DEF RestActive
<1>4. CASE ~IsStopOrder(order.kind) /\ order.price # None
  <2> DEFINE place == [side |-> order.side, price |-> order.price]
             books == Push(b.levels, order)
             index == Put(b.orderIndex, order.id, place)
  <2>1. BookLevels(books)
    BY <1>4, LevelPush DEF BookTyped
  <2>2. IsMap(index, Nat, Location)
    <3>1. place \in Location
      BY <1>1, <1>4 DEF Location
    <3> HIDE DEF place
    <3> QED
      BY <1>1, <3>1, PutType DEF BookTyped
  <2>3. RestActive(b, order) = [b EXCEPT !.levels = books, !.orderIndex = index]
    BY <1>4 DEF RestActive
  <2> HIDE DEF books, index
  <2> QED
    BY <2>1, <2>2, <2>3 DEF BookTyped, BookFields
<1> QED
  BY <1>2, <1>3, <1>4

LEMMA RemoveTyped ==
  ASSUME NEW b, BookTyped(b), NEW id
  PROVE  BookTyped(RemoveActive(b, id))
<1>1. CASE id \in DOMAIN b.stopOrders
  <2> DEFINE stops == Without(b.stopOrders, id)
  <2>1. BookStops(stops)
    BY StopWithout DEF BookTyped
  <2>2. RemoveActive(b, id) = [b EXCEPT !.stopOrders = stops]
    BY <1>1 DEF RemoveActive
  <2> HIDE DEF stops
  <2> QED
    BY <2>1, <2>2 DEF BookTyped, BookFields
<1>2. CASE id \notin DOMAIN b.stopOrders /\ id \in DOMAIN b.orderIndex
  <2> DEFINE at == b.orderIndex[id]
             index == Without(b.orderIndex, id)
             books == RemoveFromLevel(b.levels, at.side, at.price, id)
  <2>1. at.side \in Side /\ at.price \in Price
    BY <1>2 DEF BookTyped, IsMap, Location
  <2>2. IsMap(index, Nat, Location)
    BY WithoutType DEF BookTyped
  <2>3. BookLevels(books)
    <3> HIDE DEF at
    <3> QED
      BY <2>1, LevelRemove DEF BookTyped
  <2>4. RemoveActive(b, id) = [b EXCEPT !.orderIndex = index, !.levels = books]
    BY <1>2 DEF RemoveActive
  <2> HIDE DEF books, index
  <2> QED
    BY <2>2, <2>3, <2>4 DEF BookTyped, BookFields
<1>3. CASE id \notin DOMAIN b.stopOrders /\ id \notin DOMAIN b.orderIndex
  BY <1>3 DEF RemoveActive
<1> QED
  BY <1>1, <1>2, <1>3

LEMMA ReduceTyped ==
  ASSUME NEW b, BookTyped(b), NEW id \in Nat, NEW quantity \in Nat
  PROVE  BookTyped(ReduceActive(b, id, quantity))
<1>1. CASE id \notin DOMAIN b.orderIndex
  BY <1>1 DEF ReduceActive
<1>2. CASE id \in DOMAIN b.orderIndex
  <2> DEFINE side == b.orderIndex[id].side
             price == b.orderIndex[id].price
             level == Queue(b.levels, side, price)
             i == PositionOf(level, id)
             amount == IF level[i].remaining < quantity THEN level[i].remaining ELSE quantity
             left == level[i].remaining - amount
  <2>1. side \in Side /\ price \in Price
    BY <1>2 DEF BookTyped, IsMap, Location
  <2>2. level \in Seq(BookOrder) /\ level \in Seq(Order)
    <3> HIDE DEF side, price
    <3> QED
      BY <2>1, LevelQueue, SomeOrders DEF BookTyped
  <2>3. ReduceActive(b, id, quantity)
          = IF i = 0
              THEN [b EXCEPT !.history =
                      Record(@, id, Entry(b.sequence, "partially_filled", 0))]
              ELSE [b EXCEPT
                      !.levels = Deplete(@, side, price, i, amount),
                      !.orderIndex = IF left = 0 THEN Without(@, id) ELSE @,
                      !.history = RecordMakerFill(@, b.sequence, id, left)]
    BY <1>2 DEF ReduceActive
  <2> HIDE DEF side, price
  <2>4. CASE i = 0
    <3> DEFINE record == Record(b.history, id, Entry(b.sequence, "partially_filled", 0))
    <3>1. Entry(b.sequence, "partially_filled", 0) \in HistoryEntry
      BY DEF BookTyped, Entry, HistoryEntry, OrderStatus
    <3>2. IsMap(record, Nat, Seq(HistoryEntry))
      BY <3>1, RecordType DEF BookTyped
    <3>3. ReduceActive(b, id, quantity) = [b EXCEPT !.history = record]
      BY <2>3, <2>4
    <3> HIDE DEF record
    <3> QED
      BY <3>2, <3>3 DEF BookTyped, BookFields
  <2>5. CASE i # 0
    <3> DEFINE books == Deplete(b.levels, side, price, i, amount)
               index == IF left = 0 THEN Without(b.orderIndex, id) ELSE b.orderIndex
               record == RecordMakerFill(b.history, b.sequence, id, left)
    <3>1. i \in 1..Len(level) /\ DOMAIN level = 1..Len(level) /\ level[i] \in BookOrder
      <4>1. i \in 1..Len(level)
        <5> HIDE DEF level
        <5> QED
          BY <2>2, <2>5, PositionOfFound
      <4> HIDE DEF i, level
      <4> QED
        BY <2>2, <4>1, LenProperties, ElementOfSeq
    <3>2. price \in DOMAIN b.levels[side] /\ level = b.levels[side][price]
      <4>1. level # <<>>
        <5> HIDE DEF level, i
        <5> QED
          BY <3>1
      <4> QED
        BY <4>1 DEF Queue
    <3>3. level[i].remaining \in Nat
      BY <3>1 DEF BookOrder, Order
    <3>4. amount \in Nat /\ amount <= level[i].remaining /\ left \in Nat
      <4> HIDE DEF level, i
      <4> QED
        BY <3>3
    <3>5. BookLevels(books)
      <4>1. i \in DOMAIN b.levels[side][price] /\ amount <= b.levels[side][price][i].remaining
        BY <3>1, <3>2, <3>4
      <4>2. BookLevels(b.levels)
        BY DEF BookTyped
      <4> HIDE DEF i, amount, level
      <4> QED
        BY <2>1, <3>2, <3>4, <4>1, <4>2, LevelDeplete
    <3>6. IsMap(index, Nat, Location)
      <4> HIDE DEF left
      <4> QED
        BY WithoutType DEF BookTyped
    <3>7. IsMap(record, Nat, Seq(HistoryEntry))
      <4> HIDE DEF left
      <4> QED
        BY <3>4, RecordMakerFillType DEF BookTyped
    <3>8. ReduceActive(b, id, quantity)
            = [b EXCEPT !.levels = books, !.orderIndex = index, !.history = record]
      BY <2>3, <2>5
    <3> HIDE DEF books, index, record
    <3> QED
      BY <3>5, <3>6, <3>7, <3>8 DEF BookTyped, BookFields
  <2> QED
    BY <2>4, <2>5
<1> QED
  BY <1>1, <1>2

LEMMA AckTyped ==
  ASSUME NEW b, BookTyped(b), NEW ack \in AckRecord
  PROVE  BookTyped(ReplayOrderAck(b, ack))
<1> DEFINE order == ack.order
           seq == Greater(b.sequence, order.createdAt)
           next == Greater(b.nextOrderId, order.id + 1)
           record == RecordStatus(b.history, seq, order, ack.status)
           seen == [b EXCEPT !.sequence = seq, !.nextOrderId = next, !.history = record]
<1>1. order \in BookOrder /\ order \in Order /\ ack.status \in OrderStatus
  BY DEF AckRecord, BookOrder
<1>2. seq \in Nat /\ next \in Nat
  <2>1. order.createdAt \in Nat /\ order.id \in Nat
    BY <1>1 DEF Order
  <2>2. b.sequence \in Nat /\ b.nextOrderId \in Nat
    BY DEF BookTyped
  <2>3. seq \in {b.sequence, order.createdAt}
    BY DEF Greater
  <2>4. next \in {b.nextOrderId, order.id + 1}
    BY DEF Greater
  <2> HIDE DEF seq, next, order
  <2> QED
    BY <2>1, <2>2, <2>3, <2>4
<1>3. IsMap(record, Nat, Seq(HistoryEntry))
  <2> HIDE DEF order, seq
  <2> QED
    BY <1>1, <1>2, RecordStatusType DEF BookTyped
<1>4. ReplayOrderAck(b, ack)
        = IF ack.status \in {"resting", "partially_filled"} /\ order.remaining > 0
            THEN RestActive(seen, order) ELSE seen
  BY DEF ReplayOrderAck
<1> HIDE DEF order, seq, next, record
<1>5. BookTyped(seen)
  BY <1>2, <1>3 DEF BookTyped, BookFields
<1> HIDE DEF seen
<1> QED
  BY <1>1, <1>4, <1>5, RestTyped

LEMMA AdvanceTyped ==
  ASSUME NEW b, BookTyped(b), NEW seq \in Nat
  PROVE  BookTyped(AdvanceTo(b, seq))
BY DEF BookTyped, AdvanceTo, Greater, BookFields

LEMMA TradeTyped ==
  ASSUME NEW b, BookTyped(b), NEW trade \in Trade
  PROVE  BookTyped(ReplayTrade(b, trade))
<1>1. /\ trade.id \in Nat /\ trade.maker \in Nat /\ trade.quantity \in Nat
      /\ trade.sequence \in Nat
  BY DEF Trade
<1> DEFINE before == AdvanceTo(b, trade.sequence)
           next == Greater(before.nextTradeId, trade.id + 1)
           seen == [before EXCEPT !.nextTradeId = next]
           reduced == ReduceActive(seen, trade.maker, trade.quantity)
           trades == RetainRecent(reduced.recentTrades, trade)
<1>2. BookTyped(before)
  BY <1>1, AdvanceTyped
<1>3. ReplayTrade(b, trade) = [reduced EXCEPT !.recentTrades = trades]
  BY DEF ReplayTrade
<1> HIDE DEF before
<1>4. BookTyped(seen)
  BY <1>1, <1>2 DEF BookTyped, BookFields, Greater
<1> HIDE DEF seen
<1>5. BookTyped(reduced)
  BY <1>1, <1>4, ReduceTyped
<1> HIDE DEF reduced
<1>6. trades \in Seq(Trade)
  BY <1>5, RetainRecentType DEF BookTyped
<1> HIDE DEF trades
<1> QED
  BY <1>3, <1>5, <1>6 DEF BookTyped, BookFields

\* A fold keeps the types its operation keeps.
KeepsTyped(base, after) == BookTyped(base) => BookTyped(after)

Restoring == INSTANCE FoldProofs WITH Op <- RestActive, Rel <- KeepsTyped
Removing  == INSTANCE FoldProofs WITH Op <- RemoveActive, Rel <- KeepsTyped
Replaying == INSTANCE FoldProofs WITH Op <- ApplyReplayEvent, Rel <- KeepsTyped

LEMMA RemovalsTyped ==
  ASSUME NEW b, BookTyped(b), NEW ids \in Seq(Nat)
  PROVE  BookTyped(FoldLeft(RemoveActive, b, ids))
<1>1. FoldLeft(RemoveActive, b, ids) = Removing!Fold(b, ids)
  BY DEF FoldLeft, MapThenFoldSet, Max, Removing!Fold, Removing!Recursion, Removing!Greatest
<1>2. KeepsTyped(b, b)
  BY DEF KeepsTyped
<1>3. \A acc : \A i \in DOMAIN ids :
        KeepsTyped(b, acc) => KeepsTyped(b, RemoveActive(acc, ids[i]))
  BY RemoveTyped DEF KeepsTyped
<1>4. KeepsTyped(b, Removing!Fold(b, ids))
  BY <1>2, <1>3, Removing!FoldKeeps
<1> QED
  BY <1>1, <1>4 DEF KeepsTyped

LEMMA EventTyped ==
  ASSUME NEW b, BookTyped(b), NEW event \in EventRecord
  PROVE  BookTyped(ApplyReplayEvent(b, event))
<1>1. CASE event \in [event : {"order"}, ack : AckRecord]
  <2>1. event.event = "order" /\ event.ack \in AckRecord
    BY <1>1
  <2>2. ApplyReplayEvent(b, event) = ReplayOrderAck(b, event.ack)
    BY <2>1 DEF ApplyReplayEvent
  <2> QED
    BY <2>1, <2>2, AckTyped
<1>2. CASE event \in [event : {"trade"}, trade : Trade]
  <2>1. event.event = "trade" /\ event.trade \in Trade
    BY <1>2
  <2>2. ApplyReplayEvent(b, event) = ReplayTrade(b, event.trade)
    BY <2>1 DEF ApplyReplayEvent
  <2> QED
    BY <2>1, <2>2, TradeTyped
<1>3. CASE event \in [event : {"book"}, sequence : Nat]
  <2>1. event.event = "book" /\ event.sequence \in Nat
    BY <1>3
  <2>2. ApplyReplayEvent(b, event) = AdvanceTo(b, event.sequence)
    BY <2>1 DEF ApplyReplayEvent
  <2> QED
    BY <2>1, <2>2, AdvanceTyped
<1>4. CASE event \in [event : {"cancel"}, id : Nat]
  <2>1. event.event = "cancel"
    BY <1>4
  <2>2. ApplyReplayEvent(b, event) = RemoveActive(b, event.id)
    BY <2>1 DEF ApplyReplayEvent
  <2> QED
    BY <2>2, RemoveTyped
<1>5. CASE event \in [event : {"mass_cancel"}, ids : Seq(Nat)]
  <2>1. event.event = "mass_cancel" /\ event.ids \in Seq(Nat)
    BY <1>5
  <2>2. ApplyReplayEvent(b, event) = FoldLeft(RemoveActive, b, event.ids)
    BY <2>1 DEF ApplyReplayEvent
  <2> QED
    BY <2>1, <2>2, RemovalsTyped
<1>6. CASE event \in [event : {"replace"}, cancelled : Nat, ack : AckRecord]
  <2>1. event.event = "replace"
    BY <1>6
  <2>2. ApplyReplayEvent(b, event) = RemoveActive(b, event.cancelled)
    BY <2>1 DEF ApplyReplayEvent
  <2> QED
    BY <2>2, RemoveTyped
<1> QED
  BY <1>1, <1>2, <1>3, <1>4, <1>5, <1>6 DEF EventRecord

\* Whatever checkpoint and events a book is restored or replayed from, it has the
\* types of a live one.
LEMMA ReplayedTyped ==
  ASSUME NEW b, BookTyped(b), NEW recorded \in Seq(EventRecord)
  PROVE  BookTyped(Replayed(b, recorded))
<1>1. Replayed(b, recorded) = Replaying!Fold(b, recorded)
  BY DEF Replayed, FoldLeft, MapThenFoldSet, Max,
         Replaying!Fold, Replaying!Recursion, Replaying!Greatest
<1>2. KeepsTyped(b, b)
  BY DEF KeepsTyped
<1>3. \A i \in DOMAIN recorded : recorded[i] \in EventRecord
  <2> HIDE DEF EventRecord
  <2> QED
    BY LenProperties, ElementOfSeq
<1>4. \A acc : \A i \in DOMAIN recorded :
        KeepsTyped(b, acc) => KeepsTyped(b, ApplyReplayEvent(acc, recorded[i]))
  BY <1>3, EventTyped DEF KeepsTyped
<1>5. KeepsTyped(b, Replaying!Fold(b, recorded))
  BY <1>2, <1>4, Replaying!FoldKeeps
<1> QED
  BY <1>1, <1>5 DEF KeepsTyped

LEMMA RestoredTyped ==
  ASSUME NEW s, SnapshotTyped(s)
  PROVE  BookTyped(Restored(s))
<1> DEFINE base == [EmptyBook EXCEPT !.sequence = s.sequence,
                                     !.nextOrderId = s.nextOrderId,
                                     !.nextTradeId = s.nextTradeId,
                                     !.recentTrades = s.recentTrades,
                                     !.history = s.history]
           orders == s.activeOrders
<1>1. BookTyped(base)
  <2> DEFINE empty == EmptyBook
  <2>1. BookTyped(empty)
    BY EmptyTyped
  <2>2. base = [empty EXCEPT !.sequence = s.sequence,
                             !.nextOrderId = s.nextOrderId,
                             !.nextTradeId = s.nextTradeId,
                             !.recentTrades = s.recentTrades,
                             !.history = s.history]
    OBVIOUS
  <2> HIDE DEF empty, base
  <2> QED
    BY <2>1, <2>2 DEF BookTyped, BookFields, SnapshotTyped
<1>2. Restored(s) = FoldLeft(RestActive, base, orders)
  BY DEF Restored
<1> HIDE DEF base, orders
<1>3. FoldLeft(RestActive, base, orders) = Restoring!Fold(base, orders)
  BY DEF FoldLeft, MapThenFoldSet, Max,
         Restoring!Fold, Restoring!Recursion, Restoring!Greatest
<1>4. KeepsTyped(base, base)
  BY DEF KeepsTyped
<1>5. orders \in Seq(BookOrder) /\ \A i \in DOMAIN orders : orders[i] \in BookOrder
  BY SomeOrders DEF SnapshotTyped, orders
<1>6. \A acc : \A i \in DOMAIN orders :
        KeepsTyped(base, acc) => KeepsTyped(base, RestActive(acc, orders[i]))
  BY <1>5, RestTyped DEF KeepsTyped
<1>7. KeepsTyped(base, Restoring!Fold(base, orders))
  BY <1>4, <1>5, <1>6, Restoring!FoldKeeps
<1> QED
  BY <1>1, <1>2, <1>3, <1>7 DEF KeepsTyped

LEMMA FromCheckpointTyped ==
  ASSUME NEW checkpoint, checkpoint = <<>> \/ Holds(checkpoint),
         NEW recorded \in Seq(EventRecord)
  PROVE  BookTyped(FromCheckpoint(checkpoint, recorded))
<1> DEFINE base == IF checkpoint = <<>> THEN EmptyBook ELSE Restored(checkpoint[1].snapshot)
<1>1. BookTyped(base)
  <2>1. CASE checkpoint = <<>>
    BY <2>1, EmptyTyped
  <2>2. CASE checkpoint # <<>>
    <3>1. PICK c : checkpoint = <<c>> /\ CheckpointTyped(c)
      BY <2>2 DEF Holds
    <3>2. checkpoint[1] = c
      BY <3>1
    <3> QED
      BY <2>2, <3>1, <3>2, RestoredTyped DEF CheckpointTyped
  <2> QED
    BY <2>1, <2>2
<1>2. FromCheckpoint(checkpoint, recorded) = Replayed(base, recorded)
  BY DEF FromCheckpoint
<1> HIDE DEF base
<1> QED
  BY <1>1, <1>2, ReplayedTyped

(***************************************************************************)
(* Snapshots.                                                              *)
(***************************************************************************)

Join(left, right) == left \o right

KeepsOrders(base, after) == base \in Seq(BookOrder) => after \in Seq(BookOrder)

Joining == INSTANCE FoldProofs WITH Op <- Join, Rel <- KeepsOrders

LEMMA PriorityTyped ==
  ASSUME BookLevels(levels), NEW side \in Side
  PROVE  ByPriority(side) \in Seq(BookOrder)
<1> DEFINE queues == [i \in Price |-> Queue(levels, side, PriceAt(side, i))]
           none == <<>>
<1>1. \A i \in Price : queues[i] \in Seq(BookOrder)
  BY LevelQueue
<1>2. DOMAIN queues = Price /\ Price = 1..MaxOrderNotional /\ MaxOrderNotional \in Nat
  BY ConfigAssumption DEF Price
<1>3. ByPriority(side) = FoldLeft(\o, none, queues)
  BY DEF ByPriority
<1>4. queues \in Seq(Seq(BookOrder))
  BY <1>1, <1>2
<1>5. none \in Seq(BookOrder)
  OBVIOUS
<1> HIDE DEF queues, none
<1>6. FoldLeft(\o, none, queues) = Joining!Fold(none, queues)
  BY DEF FoldLeft, MapThenFoldSet, Max,
         Joining!Fold, Joining!Recursion, Joining!Greatest, Join
<1>7. KeepsOrders(none, none)
  BY DEF KeepsOrders
<1>8. \A acc : \A i \in DOMAIN queues :
        KeepsOrders(none, acc) => KeepsOrders(none, Join(acc, queues[i]))
  BY <1>1, <1>2, ConcatProperties DEF KeepsOrders, Join
<1>9. KeepsOrders(none, Joining!Fold(none, queues))
  BY <1>4, <1>7, <1>8, Joining!FoldKeeps
<1> QED
  BY <1>3, <1>5, <1>6, <1>9 DEF KeepsOrders

LEMMA StopsTyped ==
  ASSUME NEW stops, BookStops(stops)
  PROVE  SetToSeq(StopsOf(stops)) \in Seq(BookOrder)
<1> DEFINE orders == StopsOf(stops)
           n == Cardinality(orders)
           list == SetToSeq(orders)
<1>1. orders \subseteq BookOrder
  BY DEF BookStops, StopsOf, IsMap
<1>2. IsFiniteSet(orders)
  <2> DEFINE ids == DOMAIN stops
             f == [id \in ids |-> stops[id]]
  <2>1. f \in Surjection(ids, orders)
    BY DEF Surjection, StopsOf
  <2>2. IsFiniteSet(ids)
    BY DEF BookStops
  <2> HIDE DEF f, ids, orders
  <2> QED
    BY <2>1, <2>2, FS_Surjection
<1>3. n \in Nat /\ ExistsBijection(1..n, orders)
  BY <1>2, FS_CardinalityType
<1>4. list \in [1..n -> orders]
  <2>1. \E f \in [1..n -> orders] : IsInjective(f)
    BY <1>3 DEF ExistsBijection, Bijection, Injection
  <2> HIDE DEF orders
  <2> QED
    BY <2>1 DEF SetToSeq
<1> HIDE DEF list, orders, n
<1>5. list \in Seq(BookOrder)
  BY <1>1, <1>3, <1>4, SeqDef
<1> QED
  BY <1>5 DEF list, orders

LEMMA CapturedTyped ==
  ASSUME EngineTyped
  PROVE  SnapshotTyped(Captured)
<1> DEFINE first == SetToSeq(StopsOf(stopOrders))
           second == ByPriority("buy")
           third == ByPriority("sell")
<1>1. first \in Seq(BookOrder) /\ second \in Seq(BookOrder) /\ third \in Seq(BookOrder)
  BY StopsTyped, PriorityTyped DEF EngineTyped, Side
<1>2. Captured.activeOrders = (first \o second) \o third
  BY DEF Captured
<1> HIDE DEF first, second, third
<1>3. Captured.activeOrders \in Seq(BookOrder)
  BY <1>1, <1>2, ConcatProperties
<1>4. /\ Captured.sequence = sequence /\ Captured.nextOrderId = nextOrderId
      /\ Captured.nextTradeId = nextTradeId /\ Captured.recentTrades = recentTrades
      /\ Captured.history = history
  BY DEF Captured
<1> QED
  BY <1>3, <1>4 DEF SnapshotTyped, EngineTyped, TypeInv, TypeOK

(***************************************************************************)
(* The engine's steps.                                                     *)
(***************************************************************************)

\* The events of one acknowledgement.
LEMMA AckEventsTyped ==
  ASSUME TypeInv, NEW order \in BookOrder, NEW status \in OrderStatus,
         NEW trades \in Seq(Trade), NEW seq \in Nat
  PROVE  AckEvents(Ack(order, status, trades), seq) \in Seq(EventRecord)
<1> DEFINE ack == Ack(order, status, trades)
           front == IF replaced = 0 THEN <<>> ELSE <<ReplaceEvent(replaced, ack)>>
           own == <<OrderEvent(ack)>>
           told == [i \in DOMAIN ack.trades |-> TradeEvent(ack.trades[i])]
           last == <<BookEvent(seq)>>
<1>1. AckEvents(ack, seq) = ((front \o own) \o told) \o last
  BY DEF AckEvents
<1>2. ack.trades = trades /\ ack \in AckRecord
  BY DEF Ack, AckRecord
<1>3. replaced \in Nat
  BY DEF TypeInv, TypeOK
<1> HIDE DEF ack
<1>4. /\ ReplaceEvent(replaced, ack) \in EventRecord
      /\ OrderEvent(ack) \in EventRecord /\ BookEvent(seq) \in EventRecord
  BY <1>2, <1>3 DEF ReplaceEvent, OrderEvent, BookEvent, EventRecord
<1>5. told \in Seq(EventRecord)
  <2>1. DOMAIN trades = 1..Len(trades) /\ Len(trades) \in Nat
    BY LenProperties
  <2>2. \A i \in 1..Len(trades) : trades[i] \in Trade
    BY ElementOfSeq
  <2>3. \A trade \in Trade : TradeEvent(trade) \in EventRecord
    BY DEF TradeEvent, EventRecord
  <2> HIDE DEF EventRecord
  <2> QED
    BY <1>2, <2>1, <2>2, <2>3
<1>6. /\ front \in Seq(EventRecord) /\ own \in Seq(EventRecord)
      /\ last \in Seq(EventRecord)
  <2> HIDE DEF EventRecord
  <2> QED
    BY <1>4
<1> HIDE DEF front, own, told, last
<1>7. front \o own \in Seq(EventRecord)
  BY <1>6, ConcatProperties
<1>8. (front \o own) \o told \in Seq(EventRecord)
  BY <1>5, <1>7, ConcatProperties
<1>9. ((front \o own) \o told) \o last \in Seq(EventRecord)
  BY <1>6, <1>8, ConcatProperties
<1> QED
  BY <1>1, <1>9 DEF ack

\* What an admitted request becomes.
LEMMA IncomingTyped ==
  ASSUME TypeInv, NEW req \in Requests, Admitted(req)
  PROVE  Incoming(req) \in BookOrder
<1>1. Incoming(req) \in Order /\ Incoming(req).kind = req.kind
  BY IncomingType
<1>2. CASE IsPriced(req.kind)
  BY <1>1, <1>2, IncomingPrice DEF BookOrder
<1>3. CASE ~IsPriced(req.kind)
  <2>1. Incoming(req).price = None
    BY <1>3 DEF Incoming, MakeOrder
  <2> QED
    BY <1>1, <1>3, <2>1 DEF BookOrder, IsPriced
<1> QED
  BY <1>2, <1>3

LEMMA SubmitTyped ==
  ASSUME EngineTyped, NEW req \in Requests, Submit(req)
  PROVE  EngineTyped'
<1>1. TypeInv'
  BY TypeSubmit DEF EngineTyped
<1>2. sequence + 1 \in Nat /\ nextOrderId \in Nat
  BY DEF EngineTyped, TypeInv, TypeOK
<1>3. levels' = levels
  BY DEF Submit, RejectInvalid, AcceptStop, RejectFok, BeginExecution, bookVars
<1>4. ASSUME NEW status \in OrderStatus, Admitted(req), AcceptAs(req, status)
      PROVE  events' \in Seq(EventRecord) /\ taker' = taker
  <2>1. Incoming(req) \in BookOrder /\ <<>> \in Seq(Trade)
    BY <1>4, IncomingTyped DEF EngineTyped
  <2>2. events' = AckEvents(Ack(Incoming(req), status, <<>>), sequence + 1)
    BY <1>4 DEF AcceptAs, Answer
  <2> HIDE DEF EventRecord, BookOrder
  <2> QED
    BY <1>2, <1>4, <2>1, <2>2, AckEventsTyped DEF EngineTyped, AcceptAs, Answer
<1>5. CASE RejectInvalid(req)
  BY <1>1, <1>3, <1>5 DEF RejectInvalid, Answer, bookVars, EngineTyped
<1>6. CASE AcceptStop(req)
  <2>1. events' \in Seq(EventRecord) /\ taker' = taker
    BY <1>4, <1>6 DEF AcceptStop, OrderStatus
  <2>2. Incoming(req) \in BookOrder /\ IsStopOrder(Incoming(req).kind)
    BY <1>6, IncomingTyped, IncomingType DEF AcceptStop, EngineTyped
  <2>3. BookStops(stopOrders')
    BY <1>2, <1>6, <2>2, StopPut DEF AcceptStop, EngineTyped
  <2> QED
    BY <1>1, <1>3, <2>1, <2>3 DEF EngineTyped
<1>7. CASE RejectFok(req)
  <2>1. events' \in Seq(EventRecord) /\ taker' = taker
    BY <1>4, <1>7 DEF RejectFok, OrderStatus
  <2> QED
    BY <1>1, <1>3, <1>7, <2>1 DEF RejectFok, bookVars, EngineTyped
<1>8. CASE BeginExecution(req)
  <2>1. Incoming(req) \in BookOrder
    BY <1>8, IncomingTyped DEF BeginExecution, EngineTyped
  <2> QED
    BY <1>1, <1>3, <1>8, <2>1 DEF BeginExecution, bookVars, EngineTyped
<1> QED
  BY <1>5, <1>6, <1>7, <1>8 DEF Submit

LEMMA FillBestTyped ==
  ASSUME EngineTyped, FillBest
  PROVE  EngineTyped'
<1>1. TypeInv' /\ TypeInv /\ pc = "match" /\ CanTrade
  BY TypeFillBest DEF EngineTyped, FillBest
<1>2. BookLevels(levels')
  <2>1. /\ MakerSide \in Side
        /\ BestPrice \in DOMAIN levels[MakerSide]
        /\ BestPlace \in DOMAIN levels[MakerSide][BestPrice]
        /\ NextAmount \in Nat
        /\ NextAmount <= levels[MakerSide][BestPrice][BestPlace].remaining
    BY <1>1, NextTradeType DEF BestMaker
  <2>2. levels' = Deplete(levels, MakerSide, BestPrice, BestPlace, NextAmount)
    BY DEF FillBest
  <2> QED
    BY <2>1, <2>2, LevelDeplete DEF EngineTyped
<1>3. taker' \in BookOrder
  <2>1. taker' \in Order /\ taker \in BookOrder
    BY <1>1, NextTradeType DEF FillBest, EngineTyped
  <2>2. taker'.kind = taker.kind /\ taker'.price = taker.price
    BY <2>1 DEF FillBest, ReduceTaker, BookOrder, Order
  <2> QED
    BY <2>1, <2>2 DEF BookOrder
<1> QED
  BY <1>1, <1>2, <1>3 DEF FillBest, EngineTyped

\* The acknowledgement of the taker joins the events.
LEMMA AckJoinsTyped ==
  ASSUME EngineTyped, NEW status \in OrderStatus, NEW trades \in Seq(Trade)
  PROVE  events \o AckEvents(Ack(taker, status, trades), sequence) \in Seq(EventRecord)
<1>1. taker \in BookOrder /\ sequence \in Nat
  BY DEF EngineTyped, TypeInv, TypeOK
<1> DEFINE own == AckEvents(Ack(taker, status, trades), sequence)
<1> HIDE DEF EventRecord, BookOrder
<1>2. own \in Seq(EventRecord)
  BY <1>1, AckEventsTyped DEF EngineTyped
<1> HIDE DEF own
<1>3. events \o own \in Seq(EventRecord)
  BY <1>2, ConcatProperties DEF EngineTyped
<1> QED
  BY <1>3 DEF own

LEMMA NoOrderTyped == NoOrder \in BookOrder
BY NoOrderType DEF BookOrder, NoOrder

LEMMA RejectPostOnlyTyped ==
  ASSUME EngineTyped, RejectPostOnly
  PROVE  EngineTyped'
<1>1. TypeInv'
  BY TypeRejectPostOnly DEF EngineTyped
<1>2. events' \in Seq(EventRecord)
  <2>1. "rejected" \in OrderStatus /\ <<>> \in Seq(Trade)
    BY DEF OrderStatus
  <2>2. events' = events \o AckEvents(Ack(taker, "rejected", <<>>), sequence)
    BY DEF RejectPostOnly
  <2> QED
    BY <2>1, <2>2, AckJoinsTyped
<1> QED
  BY <1>1, <1>2, NoOrderTyped DEF RejectPostOnly, bookVars, EngineTyped

LEMMA SettleTyped ==
  ASSUME EngineTyped, Settle
  PROVE  EngineTyped'
<1>1. TypeInv' /\ TypeInv /\ pc = "match" /\ taker \in BookOrder /\ fills \in Seq(Trade)
  BY TypeSettle DEF EngineTyped, Settle, TypeInv, TypeOK
<1>2. events' \in Seq(EventRecord)
  <2> DEFINE status == SettledStatus(levels, taker, fills # <<>>)
  <2>1. status \in OrderStatus
    BY SettledStatusType
  <2>2. events' = events \o AckEvents(Ack(taker, status, fills), sequence)
    BY DEF Settle
  <2> HIDE DEF status
  <2> QED
    BY <1>1, <2>1, <2>2, AckJoinsTyped
<1>3. BookLevels(levels')
  <2>1. CASE Rests(levels, taker)
    <3>1. taker.price # None
      BY <1>1, <2>1, RestingHasPrice, ConfigAssumption DEF Price, None
    <3>2. levels' = Push(levels, taker)
      BY <2>1 DEF Settle
    <3> QED
      BY <1>1, <3>1, <3>2, LevelPush DEF EngineTyped
  <2>2. CASE ~Rests(levels, taker)
    BY <2>2 DEF Settle, EngineTyped
  <2> QED
    BY <2>1, <2>2
<1> QED
  BY <1>1, <1>2, <1>3, NoOrderTyped DEF Settle, EngineTyped

LEMMA ActivateStopTyped ==
  ASSUME EngineTyped, ActivateStop
  PROVE  EngineTyped'
<1>1. TypeInv' /\ TypeInv /\ NextTriggered \in DOMAIN stopOrders
  BY TypeActivateStop DEF EngineTyped, ActivateStop
<1>2. taker' = Activated(stopOrders[NextTriggered]) /\ taker' \in Order
      /\ stopOrders' = Without(stopOrders, NextTriggered)
  BY <1>1, ActivatedType DEF ActivateStop
<1>3. taker' \in BookOrder
  <2>1. stopOrders[NextTriggered] \in BookOrder
        /\ IsStopOrder(stopOrders[NextTriggered].kind)
    BY <1>1 DEF EngineTyped, BookStops, IsMap
  <2>2. taker'.price = stopOrders[NextTriggered].price
    BY <1>2 DEF Activated
  <2>3. taker'.kind # "stop_limit"
    BY <1>1, <1>2, ActivatedType DEF IsStopOrder
  <2> QED
    BY <1>2, <2>1, <2>2, <2>3 DEF BookOrder
<1>4. BookStops(stopOrders')
  BY <1>2, StopWithout DEF EngineTyped
<1> QED
  BY <1>1, <1>3, <1>4 DEF ActivateStop, EngineTyped

LEMMA CancelOrderTyped ==
  ASSUME EngineTyped, NEW id, CancelOrder(id)
  PROVE  BookLevels(levels') /\ BookStops(stopOrders')
<1>1. CASE id \in DOMAIN orderIndex
  <2>1. orderIndex[id].side \in Side /\ orderIndex[id].price \in Price
    BY <1>1 DEF EngineTyped, TypeInv, TypeOK, IsMap, Location
  <2> QED
    BY <1>1, <2>1, LevelRemove DEF CancelOrder, EngineTyped
<1>2. CASE id \notin DOMAIN orderIndex
  BY <1>2, StopWithout DEF CancelOrder, EngineTyped
<1> QED
  BY <1>1, <1>2

LEMMA CancelTyped ==
  ASSUME EngineTyped, NEW id \in ActiveIds, Cancel(id) \/ Replace(id)
  PROVE  EngineTyped'
<1>1. TypeInv'
  BY TypeCancel, TypeReplace DEF EngineTyped
<1>2. BookLevels(levels') /\ BookStops(stopOrders')
  BY CancelOrderTyped DEF Cancel, Replace
<1>3. events' \in Seq(EventRecord)
  <2>1. sequence + 1 \in Nat /\ id \in Nat
    BY DEF EngineTyped, TypeInv, TypeOK, ActiveIds, IsMap
  <2>2. CancelEvent(id) \in EventRecord /\ BookEvent(sequence + 1) \in EventRecord
    BY <2>1 DEF CancelEvent, BookEvent, EventRecord
  <2> DEFINE told == CancelEvent(id)
             last == BookEvent(sequence + 1)
  <2>3. events' = <<>> \/ events' = <<told, last>>
    BY DEF Cancel, Replace, Answer
  <2> HIDE DEF EventRecord, told, last
  <2>4. <<told, last>> \in Seq(EventRecord)
    BY <2>2 DEF told, last
  <2>5. <<>> \in Seq(EventRecord)
    OBVIOUS
  <2> DEFINE both == <<told, last>>
  <2> HIDE DEF both
  <2> QED
    BY <2>3, <2>4, <2>5 DEF both
<1>4. taker' = taker
  BY DEF Cancel, Replace, Answer
<1> QED
  BY <1>1, <1>2, <1>3, <1>4 DEF EngineTyped

LEMMA MassCancelTyped ==
  ASSUME EngineTyped,
         MassCancel \/ MassCancelDone \/ \E id \in cancelling : MassCancelOne(id)
  PROVE  EngineTyped'
<1>1. TypeInv'
  BY TypeMassCancel, TypeMassCancelOne, TypeMassCancelDone DEF EngineTyped
<1>2. CASE MassCancel
  BY <1>1, <1>2 DEF MassCancel, bookVars, EngineTyped
<1>3. CASE MassCancelDone
  <2> DEFINE told == MassCancelEvent(cancelled)
             last == BookEvent(sequence)
  <2>1. told \in EventRecord /\ last \in EventRecord
    BY DEF MassCancelEvent, BookEvent, EventRecord, EngineTyped, TypeInv, TypeOK
  <2>2. events' = <<told, last>>
    BY <1>3 DEF MassCancelDone, Answer
  <2> HIDE DEF EventRecord, told, last
  <2>3. <<told, last>> \in Seq(EventRecord)
    BY <2>1
  <2> QED
    BY <1>1, <1>3, <2>2, <2>3 DEF MassCancelDone, Answer, bookVars, EngineTyped
<1>4. ASSUME NEW id \in cancelling, MassCancelOne(id)
      PROVE  EngineTyped'
  <2>1. BookLevels(levels') /\ BookStops(stopOrders')
    BY <1>4, CancelOrderTyped DEF MassCancelOne
  <2> QED
    BY <1>1, <1>4, <2>1 DEF MassCancelOne, EngineTyped
<1> QED
  BY <1>2, <1>3, <1>4

\* A step of the command the engine is running.
LEMMA StepTyped ==
  ASSUME EngineTyped, EngineStep
  PROVE  EngineTyped'
<1>1. CASE SkipStop
  BY <1>1, TypeSkipStop DEF SkipStop, bookVars, EngineTyped
<1> QED
  BY <1>1, SubmitTyped, RejectPostOnlyTyped, FillBestTyped, SettleTyped, ActivateStopTyped,
     MassCancelTyped DEF EngineStep

\* Another book takes the place of the engine's.
LEMMA BecomesTyped ==
  ASSUME EngineTyped, pc = "idle", NEW b, BookTyped(b), Becomes(b), UNCHANGED controlVars,
         events' \in Seq(EventRecord), IsMap(submitted', Nat, Order), tape' \in Seq(Trade)
  PROVE  EngineTyped'
<1>1. /\ IsLevels(levels') /\ IsMap(stopOrders', Nat, Order)
      /\ \A id \in DOMAIN stopOrders' :
           /\ IsStopOrder(stopOrders'[id].kind)
           /\ stopOrders'[id].kind = "stop_limit" => stopOrders'[id].price \in Price
  <2>1. \A side \in Side : IsMap(b.levels[side], Price, Seq(BookOrder))
    BY DEF BookTyped, BookLevels
  <2>2. \A level \in Seq(BookOrder) : level \in Seq(Order)
    BY SomeOrders
  <2>3. \A side \in Side : IsMap(b.levels[side], Price, Seq(Order))
    BY <2>1, <2>2 DEF IsMap
  <2> QED
    BY <2>3 DEF BookTyped, BookLevels, BookStops, BookOrder, IsMap, IsLevels, Becomes
<1>2. TypeOK'
  BY <1>1 DEF EngineTyped, TypeInv, TypeOK, BookTyped, Becomes, controlVars
<1>3. ControlOK'
  BY <1>1 DEF EngineTyped, TypeInv, ControlOK, controlVars
<1> QED
  BY <1>2, <1>3 DEF EngineTyped, TypeInv, BookTyped, Becomes, controlVars

LEMMA EngineInitTyped == Init => EngineTyped
<1> SUFFICES ASSUME Init PROVE EngineTyped
  OBVIOUS
<1>1. BookLevels(EmptyBook.levels) /\ BookStops(EmptyBook.stopOrders)
  BY EmptyTyped DEF BookTyped
<1>2. BookLevels(levels) /\ BookStops(stopOrders)
  BY <1>1 DEF EmptyBook, Init
<1> QED
  BY <1>2, TypeInit, NoOrderTyped DEF Init, EngineTyped

(***************************************************************************)
(* The server's steps.                                                     *)
(***************************************************************************)

LEMMA FreeTyped == RecordTyped(Free)
BY DEF RecordTyped, Free

\* A handler that goes on, and has nothing new of the engine or the tables.
LEMMA CarriesTyped ==
  ASSUME NEW record, RecordTyped(record), record.phase # "free",
         NEW next, next.command = record.command,
         next.phase \notin {"persisting", "capturing", "saving"}
  PROVE  RecordTyped(next)
BY DEF RecordTyped

LEMMA RecordsPut ==
  ASSUME ControlInv, RecordsTyped, NEW h \in Handlers, NEW record, RecordTyped(record),
         handler' = [handler EXCEPT ![h] = record]
  PROVE  RecordsTyped'
<1>1. \A other \in Handlers : handler'[other] = IF other = h THEN record ELSE handler[other]
  BY DEF ControlInv, HandlersOK
<1>2. \A other \in Handlers : RecordTyped(handler'[other])
  BY <1>1 DEF RecordsTyped
<1> QED
  BY <1>2 DEF RecordsTyped

LEMMA EngineStays ==
  ASSUME EngineTyped, UNCHANGED vars
  PROVE  EngineTyped'
BY DEF EngineTyped, TypeInv, TypeOK, ControlOK, ActiveIds, vars, counterVars, bookVars,
       controlVars, ghostVars

LEMMA StoreStays ==
  ASSUME StoreTyped, UNCHANGED db
  PROVE  StoreTyped'
BY DEF StoreTyped

\* The worker takes a command up.
LEMMA StartTyped ==
  ASSUME EngineTyped, pc = "idle", NEW command, CommandTyped(command), Start(command)
  PROVE  EngineTyped'
<1>1. CASE command.op = "submit" /\ Submit(command.req)
  BY <1>1, SubmitTyped DEF CommandTyped
<1>2. CASE command.op \in {"cancel", "replace"} /\ command.id \in ActiveIds
           /\ (Cancel(command.id) \/ Replace(command.id))
  BY <1>2, CancelTyped
<1>3. CASE OrderNotFound
  <2>1. events' \in Seq(EventRecord)
    <3>1. <<>> \in Seq(EventRecord)
      OBVIOUS
    <3> QED
      BY <1>3, <3>1 DEF OrderNotFound
  <2> HIDE DEF EventRecord
  <2> QED
    BY <1>3, <2>1 DEF OrderNotFound, EngineTyped, TypeInv, TypeOK, ControlOK, ActiveIds,
                      counterVars, bookVars, controlVars, ghostVars
<1>4. CASE MassCancel
  BY <1>4, MassCancelTyped
<1>5. ASSUME NEW b, BookTyped(b), Load(b)
      PROVE  EngineTyped'
  <2>1. /\ Becomes(b) /\ UNCHANGED controlVars /\ events' = events
        /\ submitted' = submitted /\ tape' = tape
    BY <1>5 DEF Load, ghostVars
  <2>2. /\ events' \in Seq(EventRecord) /\ IsMap(submitted', Nat, Order)
        /\ tape' \in Seq(Trade)
    BY <2>1 DEF EngineTyped, TypeInv, TypeOK
  <2> QED
    BY <1>5, <2>1, <2>2, BecomesTyped
<1>6. CASE command.op = "restore" /\ Load(Restored(command.snapshot))
  BY <1>5, <1>6, RestoredTyped DEF CommandTyped
<1>7. CASE command.op = "replay"
           /\ Load(FromCheckpoint(command.checkpoint, command.events))
  BY <1>5, <1>7, FromCheckpointTyped DEF CommandTyped
<1>8. CASE UNCHANGED vars
  BY <1>8, EngineStays
<1> QED
  BY <1>1, <1>2, <1>3, <1>4, <1>6, <1>7, <1>8 DEF Start

LEMMA ServeTyped ==
  ASSUME TypedInv, Serve
  PROVE  EngineTyped' /\ StoreTyped' /\ RecordsTyped'
<1> DEFINE h == queue[1]
           command == handler[h].command
           record == [handler[h] EXCEPT !.phase = "running", !.orders = Condemned(command)]
<1>1. /\ h \in Handlers /\ Head(queue) = h /\ DOMAIN handler = Handlers
      /\ DOMAIN handler[h] = Fields /\ handler[h].phase = "queued"
  BY DEF TypedInv, JournalInv, ControlInv, HandlersOK, QueueOK, Serve, Shaped
<1>2. /\ handler' = [handler EXCEPT ![h] = record]
      /\ pc = "idle" /\ Start(command) /\ db' = db
  BY <1>1 DEF TypedInv, JournalInv, ControlInv, ServingOK, Serve, WorkerWaits
<1>3. RecordTyped(handler[h]) /\ CommandTyped(command)
  BY <1>1 DEF TypedInv, RecordsTyped, RecordTyped
<1>4. record.phase = "running" /\ record.command = handler[h].command
  BY <1>1 DEF Fields
<1> HIDE DEF h, command, record
<1>5. EngineTyped'
  BY <1>2, <1>3, StartTyped DEF TypedInv
<1>6. RecordTyped(record)
  BY <1>1, <1>3, <1>4, CarriesTyped
<1> QED
  BY <1>1, <1>2, <1>5, <1>6, RecordsPut, StoreStays DEF TypedInv, JournalInv

LEMMA WorkTyped ==
  ASSUME TypedInv, Work
  PROVE  EngineTyped' /\ StoreTyped' /\ RecordsTyped'
<1>1. /\ serving \in Handlers /\ handler[serving].phase = "running"
      /\ handler' = handler /\ db' = db
  BY DEF Work, TypedInv, JournalInv, ControlInv, ServingOK, WorkerWaits, serverVars
<1>2. EngineTyped'
  <2>1. CASE pc = "replace"
    <3>1. handler[serving].command.req \in Requests
      BY <1>1, <2>1 DEF TypedInv, JournalInv, ControlInv, ServingOK, RecordsTyped,
                        RecordTyped, CommandTyped
    <3>2. Submit(handler[serving].command.req)
      BY <2>1 DEF Work
    <3> QED
      BY <3>1, <3>2, SubmitTyped DEF TypedInv
  <2>2. CASE pc # "replace"
    BY <2>2, StepTyped DEF Work, TypedInv
  <2> QED
    BY <2>1, <2>2
<1> QED
  BY <1>1, <1>2, StoreStays DEF TypedInv, RecordsTyped

\* What a handler makes of the engine's answer.
LEMMA AnsweredTyped ==
  ASSUME EngineTyped, NEW record, Shaped(record), RecordTyped(record),
         record.phase = "running"
  PROVE  RecordTyped(Answered(record))
<1> DEFINE op == record.command.op
           calls == CallsFor(record.command, record.orders)
           captured == [covers |-> 0, snapshot |-> Captured]
           update == <<BookEvent(sequence)>>
<1>1. op \in Mutations \cup Reloads \cup {"checkpoint", "stream"} /\ DOMAIN record = Fields
  BY DEF Shaped
<1>2. CASE op \in Mutations /\ events = <<>>
  <2>1. Answered(record) = Free
    BY <1>2 DEF Answered, Mutations, Reloads
  <2> QED
    BY <2>1, FreeTyped
<1>3. CASE op \in Mutations /\ events # <<>>
  <2> HIDE DEF calls
  <2>1. Answered(record) = [record EXCEPT !.phase = "persisting", !.orders = {},
                                          !.events = events, !.calls = calls]
    BY <1>3 DEF Answered, calls, Mutations, Reloads
  <2>2. /\ Answered(record).phase = "persisting" /\ Answered(record).events = events
        /\ Answered(record).command = record.command
    BY <1>1, <2>1 DEF Fields
  <2> HIDE DEF op, EventRecord
  <2> QED
    BY <2>2 DEF RecordTyped, EngineTyped
<1>4. CASE op \in Reloads
  <2> HIDE DEF update
  <2>1. Answered(record) = [record EXCEPT !.phase = "publishing", !.events = update]
    BY <1>4 DEF Answered, update, Mutations, Reloads
  <2>2. Answered(record).phase = "publishing" /\ Answered(record).command = record.command
    BY <1>1, <2>1 DEF Fields
  <2> QED
    BY <2>2, CarriesTyped
<1>5. CASE op = "checkpoint"
  <2>1. CheckpointTyped(captured)
    <3>1. SnapshotTyped(Captured)
      BY CapturedTyped
    <3> QED
      BY <3>1 DEF CheckpointTyped
  <2>2. Answered(record) = [record EXCEPT !.phase = "capturing", !.checkpoint = <<captured>>]
    BY <1>5 DEF Answered, captured, Mutations, Reloads
  <2> HIDE DEF captured
  <2>3. /\ Answered(record).phase = "capturing" /\ Answered(record).checkpoint = <<captured>>
        /\ Answered(record).command = record.command
    BY <1>1, <2>2 DEF Fields
  <2>4. Holds(<<captured>>)
    BY <2>1 DEF Holds
  <2> HIDE DEF op
  <2> QED
    BY <2>3, <2>4 DEF RecordTyped
<1>6. CASE op = "stream"
  <2> HIDE DEF update
  <2>1. Answered(record) = [record EXCEPT !.phase = "greeting", !.events = update]
    BY <1>6 DEF Answered, update, Mutations, Reloads
  <2>2. Answered(record).phase = "greeting" /\ Answered(record).command = record.command
    BY <1>1, <2>1 DEF Fields
  <2> QED
    BY <2>2, CarriesTyped
<1> QED
  BY <1>1, <1>2, <1>3, <1>4, <1>5, <1>6

LEMMA RespondTyped ==
  ASSUME TypedInv, Respond \/ AnswerUnheard
  PROVE  EngineTyped' /\ StoreTyped' /\ RecordsTyped'
<1>1. /\ serving \in Handlers /\ Shaped(handler[serving])
      /\ handler[serving].phase = "running" /\ RecordTyped(handler[serving])
  <2>1. ~WorkerWaits
    BY DEF Respond, AnswerUnheard
  <2> QED
    BY <2>1 DEF TypedInv, JournalInv, ControlInv, ServingOK, HandlersOK, WorkerWaits,
                RecordsTyped
<1>2. PICK record : RecordTyped(record) /\ handler' = [handler EXCEPT ![serving] = record]
  <2>1. CASE Respond
    <3>1. handler' = [handler EXCEPT ![serving] = Answered(handler[serving])]
      BY <2>1 DEF Respond
    <3> QED
      BY <1>1, <3>1, AnsweredTyped DEF TypedInv
  <2>2. CASE AnswerUnheard
    BY <2>2, FreeTyped DEF AnswerUnheard, Release
  <2> QED
    BY <2>1, <2>2
<1>3. RecordsTyped'
  BY <1>1, <1>2, RecordsPut DEF TypedInv, JournalInv
<1> QED
  BY <1>3, EngineStays, StoreStays DEF Respond, AnswerUnheard, TypedInv

\* The engine answers the events of the journal after an id as they were recorded.
LEMMA StoredEventsTyped ==
  ASSUME StoreTyped, NEW id \in Nat
  PROVE  EventsAfterId(db, id) \in Seq(EventRecord)
<1> DEFINE journal == db.journal
           n == Len(journal)
<1>1. journal \in Seq(EventRecord) /\ n \in Nat /\ DOMAIN journal = 1..n
  BY DEF StoreTyped
<1>2. \A i \in (id + 1)..n : journal[i] \in EventRecord
  <2> HIDE DEF EventRecord, journal, n
  <2>1. \A i \in (id + 1)..n : i \in 1..n
    BY <1>1
  <2> QED
    BY <1>1, <2>1, ElementOfSeq DEF n
<1> HIDE DEF EventRecord, journal, n
<1>3. SubSeq(journal, id + 1, n) \in Seq(EventRecord)
  BY <1>1, <1>2, SubSeqProperties
<1> QED
  BY <1>3 DEF EventsAfterId, journal, n

LEMMA LatestTyped ==
  ASSUME StoreTyped
  PROVE  LatestSnapshot(db) = <<>> \/ Holds(LatestSnapshot(db))
<1>1. CASE db.snapshots = <<>>
  BY <1>1 DEF LatestSnapshot
<1>2. CASE db.snapshots # <<>>
  <2>1. Len(db.snapshots) \in DOMAIN db.snapshots
    BY <1>2, SequenceGrows, EmptySeq DEF StoreTyped
  <2>2. Last(db.snapshots) = db.snapshots[Len(db.snapshots)]
    BY DEF Last
  <2>3. CheckpointTyped(Last(db.snapshots)) /\ LatestSnapshot(db) = <<Last(db.snapshots)>>
    BY <1>2, <2>1, <2>2 DEF StoreTyped, LatestSnapshot
  <2> QED
    BY <2>3 DEF Holds
<1> QED
  BY <1>1, <1>2

\* What a client asks for, and the checkpoints it can name.
LEMMA ArrivingTyped ==
  ASSUME StoreTyped, NEW command \in ArrivingCommands
  PROVE  CommandTyped(command)
<1>1. CASE \E req \in Requests : command = SubmitCommand(req)
  BY <1>1 DEF SubmitCommand, CommandTyped
<1>2. CASE \E id \in KnownIds : command = CancelCommand(id)
  BY <1>2 DEF CancelCommand, CommandTyped
<1>3. CASE \E id \in KnownIds, req \in Requests : command = ReplaceCommand(id, req)
  BY <1>3 DEF ReplaceCommand, CommandTyped
<1>4. CASE command \in {MassCancelCommand, CheckpointCommand, StreamCommand}
  BY <1>4 DEF MassCancelCommand, CheckpointCommand, StreamCommand, CommandTyped
<1>5. CASE command = ReplayCommand(<<>>, <<>>)
  <2> DEFINE none == <<>>
  <2>1. none \in Seq(EventRecord)
    OBVIOUS
  <2> HIDE DEF EventRecord
  <2>2. /\ command.op = "replay" /\ DOMAIN command = {"op", "checkpoint", "events"}
        /\ command.events = none /\ command.checkpoint = <<>>
    BY <1>5 DEF ReplayCommand
  <2> HIDE DEF none
  <2> QED
    BY <2>1, <2>2 DEF CommandTyped
<1>6. CASE \E checkpoint \in ToSet(db.snapshots) :
             command = RestoreCommand(checkpoint.snapshot)
  <2>1. PICK checkpoint \in ToSet(db.snapshots) :
          command = RestoreCommand(checkpoint.snapshot)
    BY <1>6
  <2>2. CheckpointTyped(checkpoint)
    BY DEF StoreTyped, ToSet
  <2> QED
    BY <2>1, <2>2 DEF CheckpointTyped, RestoreCommand, CommandTyped
<1> QED
  BY <1>1, <1>2, <1>3, <1>4, <1>5, <1>6 DEF ArrivingCommands

LEMMA ReceiveTyped ==
  ASSUME TypedInv, NEW h \in Handlers, Receive(h)
  PROVE  EngineTyped' /\ StoreTyped' /\ RecordsTyped'
<1>1. PICK command \in ArrivingCommands :
        handler' = [handler EXCEPT
                      ![h].command = command,
                      ![h].phase = IF command.op = "replay" THEN "loading" ELSE "received"]
  BY DEF Receive
<1> DEFINE phase == IF command.op = "replay" THEN "loading" ELSE "received"
           record == [handler[h] EXCEPT !.command = command, !.phase = phase]
<1>2. DOMAIN handler = Handlers /\ DOMAIN handler[h] = Fields
  BY DEF TypedInv, JournalInv, ControlInv, HandlersOK, Shaped
<1>3. handler' = [handler EXCEPT ![h] = record]
  BY <1>1, <1>2
<1>4. record.command = command /\ record.phase = phase
  BY <1>2 DEF Fields
<1>5. phase \in {"loading", "received"}
  OBVIOUS
<1> HIDE DEF phase, record
<1>6. RecordTyped(record)
  BY <1>4, <1>5, ArrivingTyped DEF TypedInv, RecordTyped
<1> QED
  BY <1>3, <1>6, RecordsPut, EngineStays, StoreStays DEF Receive, TypedInv, JournalInv

\* A checkpoint learns how much of the journal it covers.
LEMMA CoverTyped ==
  ASSUME TypedInv, NEW h \in Handlers, CoverJournal(h)
  PROVE  EngineTyped' /\ StoreTyped' /\ RecordsTyped'
<1>1. /\ DOMAIN handler = Handlers /\ DOMAIN handler[h] = Fields
      /\ handler[h].phase = "capturing"
  BY DEF TypedInv, JournalInv, ControlInv, HandlersOK, Shaped, CoverJournal
<1>2. CommandTyped(handler[h].command) /\ Holds(handler[h].checkpoint)
  BY <1>1 DEF TypedInv, RecordsTyped, RecordTyped
<1>3. PICK c : handler[h].checkpoint = <<c>> /\ CheckpointTyped(c)
  BY <1>2 DEF Holds
<1> DEFINE list == <<c>>
           n == Len(db.journal)
           covering == [c EXCEPT !.covers = n]
           record == [handler[h] EXCEPT !.phase = "saving", !.checkpoint = <<covering>>]
<1>4. handler' = [handler EXCEPT ![h] = record]
  <2>1. [list EXCEPT ![1].covers = n] = <<covering>>
    OBVIOUS
  <2>2. handler' = [handler EXCEPT ![h].phase = "saving", ![h].checkpoint[1].covers = n]
    BY DEF CoverJournal, LatestEventJournalId
  <2>3. handler' = [handler EXCEPT ![h] = [handler[h] EXCEPT
                                             !.phase = "saving",
                                             !.checkpoint = [list EXCEPT ![1].covers = n]]]
    BY <1>1, <1>3, <2>2 DEF Fields
  <2> QED
    BY <2>1, <2>3
<1>5. CheckpointTyped(covering)
  <2>1. n \in Nat
    BY SequenceGrows DEF TypedInv, StoreTyped
  <2> HIDE DEF n
  <2> QED
    BY <1>3, <2>1 DEF CheckpointTyped
<1> HIDE DEF covering
<1>6. /\ record.command = handler[h].command /\ record.phase = "saving"
      /\ record.checkpoint = <<covering>>
  BY <1>1 DEF Fields
<1> HIDE DEF record
<1>7. RecordTyped(record)
  BY <1>2, <1>5, <1>6 DEF RecordTyped, Holds
<1> QED
  BY <1>4, <1>7, RecordsPut, EngineStays, StoreStays DEF CoverJournal, TypedInv, JournalInv

LEMMA SaveTyped ==
  ASSUME TypedInv, NEW h \in Handlers, SaveCheckpoint(h)
  PROVE  EngineTyped' /\ StoreTyped' /\ RecordsTyped'
<1>1. handler[h].phase = "saving" /\ DOMAIN db = Tables
  BY DEF TypedInv, JournalInv, JournalOK, SaveCheckpoint
<1>2. PICK c : handler[h].checkpoint = <<c>> /\ CheckpointTyped(c)
  BY <1>1 DEF TypedInv, RecordsTyped, RecordTyped, Holds
<1> DEFINE before == db.snapshots
           n == Len(before)
           after == Append(before, c)
<1>3. db'.journal = db.journal /\ db'.snapshots = after
  BY <1>1, <1>2 DEF SaveCheckpoint, RecordSnapshot, Tables
<1>4. /\ IsSequence(before) /\ n \in Nat /\ DOMAIN before = 1..n
      /\ \A i \in 1..n : CheckpointTyped(before[i])
  BY SequenceGrows DEF TypedInv, StoreTyped
<1>5. IsSequence(after) /\ DOMAIN after = 1..(n + 1)
      /\ \A i \in 1..(n + 1) : after[i] = IF i \in 1..n THEN before[i] ELSE c
  <2>1. /\ IsSequence(after) /\ Len(after) = n + 1
        /\ after[n + 1] = c /\ \A i \in 1..n : after[i] = before[i]
    BY <1>4, SequenceGrows
  <2>2. DOMAIN after = 1..(n + 1)
    BY <2>1, SequenceGrows
  <2>3. \A i \in 1..(n + 1) : i \in 1..n \/ i = n + 1
    BY <1>4
  <2>4. n + 1 \notin 1..n
    BY <1>4
  <2> HIDE DEF before, after, n
  <2> QED
    BY <2>1, <2>2, <2>3, <2>4
<1> HIDE DEF before, after, n
<1>6. StoreTyped'
  BY <1>2, <1>3, <1>4, <1>5 DEF TypedInv, StoreTyped
<1> QED
  BY <1>6, FreeTyped, RecordsPut, EngineStays DEF SaveCheckpoint, Release, TypedInv, JournalInv

\* A replay learns the latest checkpoint, then the events after it.
LEMMA LoadTyped ==
  ASSUME TypedInv, NEW h \in Handlers, LoadCheckpoint(h) \/ ReadEvents(h)
  PROVE  EngineTyped' /\ StoreTyped' /\ RecordsTyped'
<1> DEFINE command == handler[h].command
<1>1. /\ DOMAIN handler = Handlers /\ DOMAIN handler[h] = Fields
      /\ handler[h].phase \in {"loading", "reading"} /\ command.op = "replay"
  BY DEF TypedInv, JournalInv, ControlInv, HandlersOK, Shaped, LoadCheckpoint, ReadEvents
<1>2. CommandTyped(command)
  BY <1>1 DEF TypedInv, RecordsTyped, RecordTyped
<1>3. /\ DOMAIN command = {"op", "checkpoint", "events"}
      /\ command.events \in Seq(EventRecord)
      /\ command.checkpoint = <<>> \/ Holds(command.checkpoint)
  BY <1>1, <1>2 DEF CommandTyped
<1>4. PICK asked, phase :
        /\ CommandTyped(asked) /\ phase \in {"reading", "received"}
        /\ handler' = [handler EXCEPT ![h] = [handler[h] EXCEPT !.phase = phase,
                                                                !.command = asked]]
  <2>1. CASE LoadCheckpoint(h)
    <3> DEFINE latest == LatestSnapshot(db)
               asked == [command EXCEPT !.checkpoint = latest]
    <3>1. latest = <<>> \/ Holds(latest)
      BY LatestTyped DEF TypedInv
    <3>2. handler' = [handler EXCEPT ![h].phase = "reading",
                                     ![h].command.checkpoint = latest]
      BY <2>1 DEF LoadCheckpoint
    <3> HIDE DEF latest
    <3>3. handler' = [handler EXCEPT ![h] = [handler[h] EXCEPT !.phase = "reading",
                                                              !.command = asked]]
      BY <1>1, <3>2 DEF Fields
    <3>4. /\ asked.op = "replay" /\ DOMAIN asked = {"op", "checkpoint", "events"}
          /\ asked.events = command.events /\ asked.checkpoint = latest
      BY <1>1, <1>3
    <3> HIDE DEF asked, command, EventRecord
    <3>5. CommandTyped(asked)
      BY <1>3, <3>1, <3>4 DEF CommandTyped
    <3> QED
      BY <3>3, <3>5
  <2>2. CASE ReadEvents(h)
    <3> DEFINE since == CoveredBy(command.checkpoint)
               found == EventsAfterId(db, since)
               asked == [command EXCEPT !.events = found]
    <3>1. since \in Nat
      <4>1. CASE command.checkpoint = <<>>
        BY <4>1 DEF CoveredBy
      <4>2. CASE command.checkpoint # <<>>
        <5>1. PICK c : command.checkpoint = <<c>> /\ CheckpointTyped(c)
          BY <1>3, <4>2 DEF Holds
        <5> HIDE DEF command
        <5> QED
          BY <4>2, <5>1 DEF CoveredBy, CheckpointTyped
      <4> QED
        BY <4>1, <4>2
    <3>2. found \in Seq(EventRecord)
      <4> HIDE DEF since, EventRecord
      <4> QED
        BY <3>1, StoredEventsTyped DEF TypedInv
    <3>3. handler' = [handler EXCEPT ![h].phase = "received", ![h].command.events = found]
      BY <2>2 DEF ReadEvents
    <3> HIDE DEF found, since
    <3>4. handler' = [handler EXCEPT ![h] = [handler[h] EXCEPT !.phase = "received",
                                                              !.command = asked]]
      BY <1>1, <3>3 DEF Fields
    <3>5. /\ asked.op = "replay" /\ DOMAIN asked = {"op", "checkpoint", "events"}
          /\ asked.checkpoint = command.checkpoint /\ asked.events = found
      BY <1>1, <1>3
    <3> HIDE DEF asked, command, EventRecord
    <3>6. CommandTyped(asked)
      BY <1>3, <3>2, <3>5 DEF CommandTyped
    <3> QED
      BY <3>4, <3>6
  <2> QED
    BY <2>1, <2>2
<1> DEFINE record == [handler[h] EXCEPT !.phase = phase, !.command = asked]
<1>5. record.phase = phase /\ record.command = asked
  BY <1>1 DEF Fields
<1>6. handler' = [handler EXCEPT ![h] = record]
  BY <1>4
<1> HIDE DEF record
<1>7. RecordTyped(record)
  BY <1>4, <1>5 DEF RecordTyped
<1> QED
  BY <1>6, <1>7, RecordsPut, EngineStays, StoreStays
     DEF LoadCheckpoint, ReadEvents, TypedInv, JournalInv

\* A handler writes its report, or part of it.
LEMMA PersistTyped ==
  ASSUME TypedInv, NEW h \in Handlers, Persist(h) \/ PersistFails(h)
  PROVE  EngineTyped' /\ StoreTyped' /\ RecordsTyped'
<1>1. /\ DOMAIN handler = Handlers /\ DOMAIN handler[h] = Fields
      /\ handler[h].phase = "persisting"
  BY DEF TypedInv, JournalInv, ControlInv, HandlersOK, Shaped, Persist, PersistFails
<1>2. RecordTyped(handler[h]) /\ handler[h].events \in Seq(EventRecord)
  BY <1>1 DEF TypedInv, RecordsTyped, RecordTyped
<1>3. CASE Persist(h)
  <2> DEFINE record == [handler[h] EXCEPT !.phase = "publishing", !.calls = <<>>]
  <2>1. handler' = [handler EXCEPT ![h] = record]
    BY <1>1, <1>3 DEF Persist
  <2>2. record.phase = "publishing" /\ record.command = handler[h].command
    BY <1>1 DEF Fields
  <2> HIDE DEF record
  <2>3. RecordTyped(record)
    BY <1>1, <1>2, <2>2, CarriesTyped
  <2>4. db'.journal = db.journal \o handler[h].events /\ db'.snapshots = db.snapshots
    BY <1>3, PersistAppends DEF TypedInv
  <2>5. db'.journal \in Seq(EventRecord)
    <3>1. db.journal \in Seq(EventRecord)
      BY DEF TypedInv, StoreTyped
    <3> HIDE DEF EventRecord
    <3> QED
      BY <1>2, <2>4, <3>1, ConcatProperties
  <2>6. StoreTyped'
    BY <2>4, <2>5 DEF TypedInv, StoreTyped
  <2> QED
    BY <1>3, <2>1, <2>3, <2>6, RecordsPut, EngineStays DEF Persist, TypedInv, JournalInv
<1>4. CASE PersistFails(h)
  <2>1. db'.journal = db.journal /\ db'.snapshots = db.snapshots
    BY <1>4, PersistFailsKeeps DEF TypedInv
  <2>2. StoreTyped'
    BY <2>1 DEF TypedInv, StoreTyped
  <2> QED
    BY <1>4, <2>2, FreeTyped, RecordsPut, EngineStays
       DEF PersistFails, Release, TypedInv, JournalInv
<1> QED
  BY <1>3, <1>4

LEMMA PublishTyped ==
  ASSUME TypedInv, NEW h \in Handlers, Publish(h)
  PROVE  EngineTyped' /\ StoreTyped' /\ RecordsTyped'
<1> DEFINE more == [handler[h] EXCEPT !.sent = @ + 1]
<1>1. DOMAIN handler = Handlers /\ DOMAIN handler[h] = Fields
      /\ handler[h].phase = "publishing" /\ RecordTyped(handler[h])
  BY DEF TypedInv, JournalInv, ControlInv, HandlersOK, Shaped, Publish, RecordsTyped
<1>2. more.phase = "publishing" /\ more.command = handler[h].command
  BY <1>1 DEF Fields
<1>3. handler' = [handler EXCEPT ![h] = Free] \/ handler' = [handler EXCEPT ![h] = more]
  BY DEF Publish
<1> HIDE DEF more
<1>4. RecordTyped(more)
  BY <1>1, <1>2, CarriesTyped
<1> QED
  BY <1>3, <1>4, FreeTyped, RecordsPut, EngineStays, StoreStays
     DEF Publish, TypedInv, JournalInv

\* The other steps of a handler.
LEMMA HandlerTyped ==
  ASSUME TypedInv, NEW h \in Handlers,
         Enqueue(h) \/ Abandon(h) \/ DbFails(h) \/ SetKillSwitch(h)
  PROVE  EngineTyped' /\ StoreTyped' /\ RecordsTyped'
<1>1. UNCHANGED vars /\ UNCHANGED db
  BY DEF Enqueue, Abandon, DbFails, SetKillSwitch
<1>2. RecordsTyped'
  <2>1. CASE Enqueue(h)
    <3> DEFINE record == [handler[h] EXCEPT !.phase = "queued"]
    <3>1. DOMAIN handler = Handlers /\ DOMAIN handler[h] = Fields
          /\ handler[h].phase = "received" /\ RecordTyped(handler[h])
      BY <2>1 DEF TypedInv, JournalInv, ControlInv, HandlersOK, Shaped, Enqueue, RecordsTyped
    <3>2. record.phase = "queued" /\ record.command = handler[h].command
      BY <3>1 DEF Fields
    <3>3. handler' = [handler EXCEPT ![h] = record]
      BY <2>1, <3>1 DEF Enqueue, To
    <3> HIDE DEF record
    <3>4. RecordTyped(record)
      BY <3>1, <3>2, CarriesTyped
    <3> QED
      BY <3>3, <3>4, RecordsPut DEF TypedInv, JournalInv
  <2>2. CASE Abandon(h) \/ DbFails(h)
    BY <2>2, FreeTyped, RecordsPut DEF Abandon, DbFails, Release, TypedInv, JournalInv
  <2>3. CASE SetKillSwitch(h)
    BY <2>3 DEF SetKillSwitch, TypedInv, RecordsTyped
  <2> QED
    BY <2>1, <2>2, <2>3
<1> QED
  BY <1>1, <1>2, EngineStays, StoreStays DEF TypedInv

\* A restart begins with an empty book over the tables as they are.
LEMMA CrashTyped ==
  ASSUME TypedInv, Crash
  PROVE  EngineTyped' /\ StoreTyped' /\ RecordsTyped'
<1> DEFINE b == EmptyBook
<1>1. BookTyped(b) /\ Becomes(b) /\ UNCHANGED controlVars
  BY EmptyTyped DEF Crash
<1>2. pc = "idle"
  BY DEF Crash, TypedInv, JournalInv, ControlInv, ServingOK
<1> HIDE DEF b
<1>3. /\ events' \in Seq(EventRecord) /\ IsMap(submitted', Nat, Order)
      /\ tape' \in Seq(Trade)
  <2>1. events' = <<>> /\ submitted' = <<>> /\ tape' = <<>>
    BY DEF Crash
  <2>2. <<>> \in Seq(EventRecord) /\ <<>> \in Seq(Trade)
    <3> HIDE DEF EventRecord, Trade
    <3> QED
      OBVIOUS
  <2>3. IsMap(<<>>, Nat, Order)
    BY DEF IsMap
  <2> HIDE DEF EventRecord, Trade
  <2> QED
    BY <2>1, <2>2, <2>3
<1>4. EngineTyped'
  BY <1>1, <1>2, <1>3, BecomesTyped DEF TypedInv
<1>5. RecordsTyped'
  BY FreeTyped DEF Crash, RecordsTyped
<1> QED
  BY <1>4, <1>5, StoreStays DEF Crash, TypedInv

LEMMA TypedStep == TypedInv /\ [ServerNext]_allVars => TypedInv'
<1> SUFFICES ASSUME TypedInv, [ServerNext]_allVars
             PROVE  EngineTyped' /\ StoreTyped' /\ RecordsTyped'
  BY JournalStep DEF TypedInv
<1>1. CASE UNCHANGED allVars
  <2>1. UNCHANGED vars /\ UNCHANGED db /\ UNCHANGED handler
    BY <1>1 DEF allVars, serverVars
  <2> QED
    BY <2>1, EngineStays, StoreStays DEF TypedInv, RecordsTyped
<1>2. CASE Worker
  BY <1>2, ServeTyped, WorkTyped, RespondTyped DEF Worker
<1>3. ASSUME NEW h \in Handlers, HandlerStep(h)
      PROVE  EngineTyped' /\ StoreTyped' /\ RecordsTyped'
  BY <1>3, HandlerTyped, PersistTyped, PublishTyped, CoverTyped, SaveTyped, LoadTyped
     DEF HandlerStep
<1>4. ASSUME NEW h \in Handlers, Arrival(h)
      PROVE  EngineTyped' /\ StoreTyped' /\ RecordsTyped'
  BY <1>4, ReceiveTyped, HandlerTyped DEF Arrival
<1>5. CASE Failure
  <2>1. CASE Panic
    BY <2>1, EngineStays, StoreStays DEF Panic, TypedInv, RecordsTyped
  <2> QED
    BY <1>5, <2>1, RespondTyped, PersistTyped, HandlerTyped, CrashTyped DEF Failure
<1>6. CASE Finished
  BY <1>1, <1>6 DEF Finished
<1> QED
  BY <1>1, <1>2, <1>3, <1>4, <1>5, <1>6 DEF ServerNext

LEMMA TypedInit == ServerInit => TypedInv
<1> SUFFICES ASSUME ServerInit PROVE TypedInv
  OBVIOUS
<1>1. StoreTyped
  <2> DEFINE none == <<>>
  <2>1. none \in Seq(EventRecord)
    OBVIOUS
  <2>2. db.journal = none /\ db.snapshots = <<>>
    BY DEF ServerInit, EmptyDb
  <2> HIDE DEF none, EventRecord
  <2> QED
    BY <2>1, <2>2, ShortSequences DEF StoreTyped
<1>2. RecordsTyped
  BY FreeTyped DEF ServerInit, RecordsTyped
<1> QED
  BY <1>1, <1>2, JournalInit, EngineInitTyped DEF ServerInit, TypedInv

\* Every variable keeps its type and the handlers, the queue and the worker stay in
\* step: a handler is in the queue exactly when it waits for an answer of a worker that
\* lives, the worker serves exactly the handler whose command is running, and the book
\* is between commands while it waits (command.rs:113-165, api.rs:382-406).  It holds
\* through every restart, restore and replay, since what a checkpoint or the journal
\* gives back has the types of what the engine wrote there (db.rs:186-310,
\* book.rs:360-389, 561-640).
THEOREM ServerTypes == ServerSpec => []ServerTypeOK
<1>1. TypedInv => ServerTypeOK
  <2> SUFFICES ASSUME TypedInv PROVE ServerTypeOK
    OBVIOUS
  <2>1. TypeOK
    BY DEF TypedInv, EngineTyped, TypeInv
  <2>2. HandlersOK /\ QueueOK /\ ServingOK
    BY DEF TypedInv, JournalInv, ControlInv
  <2>3. \A h \in Handlers : handler[h].phase \in HandlerPhase
    BY <2>2 DEF HandlersOK, Shaped
  <2>4. \A h \in Handlers :
          (h \in ToSet(queue)) <=> (handler[h].phase = "queued" /\ workerUp)
    BY <2>2 DEF QueueOK, ToSet
  <2> QED
    BY <2>1, <2>2, <2>3, <2>4 DEF QueueOK, ServingOK, ServerTypeOK
<1> QED
  BY <1>1, TypedInit, TypedStep, PTL DEF ServerSpec
==============================================================================
