-------------------------------- MODULE Feed --------------------------------
(***************************************************************************)
(* The WebSocket feed over the running server: stream_events of            *)
(* src/backend/src/api.rs and the bounded broadcast channel (tokio's       *)
(* broadcast::channel, main.rs).  A stream goes on from the book snapshot  *)
(* the engine gave its handler (ApiServer) through                         *)
(*   greeting -> greeted -> streaming                                      *)
(* and ends when its socket fails or when it has fallen too far behind.    *)
(*                                                                         *)
(* A book, in a snapshot or an event, is its sequence number.  The client  *)
(* is the dashboard: it displays the last book it was sent.                *)
(***************************************************************************)
EXTENDS ApiServer

CONSTANT Capacity   (* of the broadcast channel: main.rs has 4096 *)

ASSUME CapacityAssumption == Capacity \in Nat \ {0}

VARIABLE client     (* handler -> its receiver and what its client has seen *)

feedVars == <<allVars, client>>

\* `joined' events had been broadcast at the subscription, `cursor' have been passed
\* by now; `seen' are those the client was sent and `displayed' the book it shows.
Disconnected == [joined |-> 0, cursor |-> 0, seen |-> <<>>, displayed |-> 0]

FeedInit ==
  /\ ServerInit
  /\ client = [h \in Handlers |-> Disconnected]

Unread(h) == Len(bus) - client[h].cursor

(***************************************************************************)
(* stream_events.                                                          *)
(***************************************************************************)

SendSnapshot(h) ==
  /\ WorkerWaits
  /\ handler[h].phase = "greeting"
  /\ client' = [client EXCEPT ![h] = [Disconnected EXCEPT
                                        !.displayed = handler[h].events[1].sequence]]
  /\ To(h, "greeted")
  /\ UNCHANGED <<vars, queue, serving, workerUp, killSwitch, db, bus, requests, faults,
                 acknowledged, reloaded>>

Subscribe(h) ==
  /\ WorkerWaits
  /\ handler[h].phase = "greeted"
  /\ client' = [client EXCEPT ![h].joined = Len(bus), ![h].cursor = Len(bus)]
  /\ To(h, "streaming")
  /\ UNCHANGED <<vars, queue, serving, workerUp, killSwitch, db, bus, requests, faults,
                 acknowledged, reloaded>>

Forward(h) ==
  /\ WorkerWaits
  /\ handler[h].phase = "streaming"
  /\ Unread(h) \in 1..Capacity
  /\ LET event == bus[client[h].cursor + 1]
     IN  client' = [client EXCEPT
                      ![h].cursor = @ + 1,
                      ![h].seen = Append(@, event),
                      ![h].displayed = IF event.event = "book" THEN event.sequence ELSE @]
  /\ UNCHANGED allVars

LaggedMutant(h) ==
  /\ WorkerWaits
  /\ handler[h].phase = "streaming"
  /\ Unread(h) > Capacity
  /\ client' = [client EXCEPT ![h].cursor = Len(bus) - Capacity]
  /\ UNCHANGED allVars

LaggedIgnoredMutant(h) ==
  /\ WorkerWaits
  /\ handler[h].phase = "streaming"
  /\ Unread(h) > Capacity
  /\ UNCHANGED feedVars

\* The oldest unread event has been overwritten: recv returns an error and the
\* stream ends.
Lagged(h) ==
  /\ WorkerWaits
  /\ handler[h].phase = "streaming"
  /\ Unread(h) > Capacity
  /\ Release(h)
  /\ UNCHANGED <<vars, queue, serving, workerUp, killSwitch, db, bus, requests, faults,
                 acknowledged, reloaded, client>>

\* Sending to the client fails.
SocketFails(h) ==
  /\ WorkerWaits
  /\ \/ handler[h].phase = "greeting"
     \/ handler[h].phase = "streaming" /\ Unread(h) \in 1..Capacity
  /\ Fault("disconnect")
  /\ Release(h)
  /\ UNCHANGED <<vars, queue, serving, workerUp, killSwitch, db, bus, requests,
                 acknowledged, reloaded, client>>

StreamStep(h) == SendSnapshot(h) \/ Subscribe(h) \/ Forward(h) \/ Lagged(h)

CaughtUp(h) == handler[h].phase = "streaming" /\ Unread(h) = 0

\* Nobody has anything left to do.
FeedAtRest == \A h \in Handlers : handler[h].phase = "free" \/ CaughtUp(h)

\* No request can arrive either: the bound is reached, or all handlers are streams.
FeedFinished ==
  /\ FeedAtRest
  /\ requests = MaxRequests \/ \A h \in Handlers : CaughtUp(h)
  /\ UNCHANGED feedVars

FeedNext ==
  \/ ServerNext /\ UNCHANGED client
  \/ \E h \in Handlers : StreamStep(h)
  \/ \E h \in Handlers : SocketFails(h)
  \/ FeedFinished

\* Nothing obliges a stream to go on: it waits for its socket, without a timeout, for
\* as long as its client does not read.  The other handlers are those of ServerSpec.
FeedSpec ==
  /\ FeedInit
  /\ [][FeedNext]_feedVars
  /\ WF_feedVars(Worker /\ UNCHANGED client)
  /\ \A h \in Handlers : WF_feedVars(HandlerStep(h) /\ UNCHANGED client)

\* The client of h goes on reading: its stream is never for ever in a send.
KeepsReading(h) == WF_feedVars(StreamStep(h))

(***************************************************************************)
(* Properties.                                                             *)
(***************************************************************************)

\* A stream that has not ended has shown its client every event since it subscribed,
\* each once and in the order of their broadcast: a client that cannot keep up is
\* cut off, never left with a hole (api.rs:417-422).
StreamGapless ==
  \A h \in Handlers :
    handler[h].phase = "streaming" =>
      client[h].seen = SubSeq(bus, client[h].joined + 1, client[h].cursor)

\* Whatever is broadcast reaches every client that goes on reading, whatever the other
\* clients do, or its stream ends (api.rs:408-423).
StreamDelivers ==
  \A h \in Handlers :
    KeepsReading(h) =>
      ((handler[h].phase \in {"greeting", "greeted", "streaming"})
         ~> (handler[h].phase = "free" \/ CaughtUp(h)))

\* ARCHITECTURE.md:73: the dashboard shows the live book and its sequence.  Once
\* everything is answered, published and forwarded, that is the engine's sequence.
DisplayCurrent ==
  FeedAtRest =>
    \A h \in Handlers : CaughtUp(h) => client[h].displayed = sequence

\* The same of a client that cannot have missed anything, since nothing had been
\* broadcast when it subscribed (ARCHITECTURE.md:73).
DisplayFollows ==
  FeedAtRest =>
    \A h \in Handlers :
      CaughtUp(h) /\ client[h].joined = 0 => client[h].displayed = sequence
==============================================================================
