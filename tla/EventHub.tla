------------------------------ MODULE EventHub ------------------------------
(***************************************************************************)
(* The event hub of the Go core (internal/inbox): goroutines publish, one  *)
(* SSE handler per connected client forwards, and a ring of recent events  *)
(* serves clients that reconnect with the ID of the last event they heard. *)
(* One action is one critical section of Hub.mu or of one subscriber's     *)
(* sendMu, or one frame written to a client.  A definition marked "Slip"   *)
(* is a wrong variant of the one after it, never part of Next.             *)
(***************************************************************************)
EXTENDS Integers, Sequences

CONSTANTS
  Publishers,   \* the goroutines that publish
  Clients,      \* browser tabs
  Streams,      \* the GET /events requests they may make, each used once
  ClientOf,     \* ClientOf[s]: the client that makes request s
  Topics,       \* topics of published events
  Wants,        \* Wants[c]: the topics client c asks for; {} asks for all
  Cap,          \* inbox.buffer_size, raised to 1 by NewHub
  Buf,          \* capacity of a subscriber's channel, 64 in the code
  MaxEvents,    \* bound: events published
  MaxRestarts   \* bound: how often the core is replaced by a new process

ASSUME HubAssumption ==
  /\ ClientOf \in [Streams -> Clients]
  /\ Wants \in [Clients -> SUBSET Topics]
  /\ Cap \in Nat \ {0} /\ Buf \in Nat \ {0}
  /\ MaxEvents \in Nat /\ MaxRestarts \in Nat

VARIABLES
  ring,     \* Hub.ring
  count,    \* Hub.count: events this process has put into the ring
  subs,     \* Hub.subs
  down,     \* Hub.closed
  closing,  \* the subscribers Shutdown has still to close
  pub,      \* Publish in progress: event, targets left, subscriber to remove
  chan,     \* chan[s]: the channel of the subscriber of request s
  shut,     \* subscriber.closed
  conn,     \* the request: handler, connection, backlog to write, and its history
  last,     \* last[c]: the Last-Event-ID the client's EventSource would send
  log,      \* history: every event, in the order they entered a ring
  restarts  \* how much of the bound is used up

hub     == <<ring, count, subs, down, closing>>
streams == <<chan, shut, conn, last>>
vars    == <<hub, pub, streams, log, restarts>>

-----------------------------------------------------------------------------
\* IDs are only compared for equality: no ring ever holds the one of a resync frame.
NoId   == 0
Empty  == [id |-> NoId, topic |-> "none"]
Resync == [id |-> -1, topic |-> "resync"]

Wanted(s, e) == LET w == Wants[ClientOf[s]] IN w = {} \/ e.topic \in w

\* Those of some events that the client asked for, in their order.
Relevant(s, events) ==
  LET upTo[n \in 0 .. Len(events)] ==
        IF n = 0 THEN <<>>
        ELSE IF Wanted(s, events[n]) THEN Append(upTo[n - 1], events[n])
        ELSE upTo[n - 1]
  IN  upTo[Len(events)]

Idle == [env |-> Empty, targets |-> {}, dropped |-> {}]
Unconnected == [pc |-> "off", link |-> "new", out |-> <<>>, sent |-> <<>>, from |-> NoId, since |-> 0]

Init ==
  /\ ring = [i \in 0 .. Cap - 1 |-> Empty] /\ count = 0
  /\ subs = {} /\ down = FALSE /\ closing = {}
  /\ pub = [p \in Publishers |-> Idle]
  /\ chan = [s \in Streams |-> <<>>] /\ shut = [s \in Streams |-> FALSE]
  /\ conn = [s \in Streams |-> Unconnected]
  /\ last = [c \in Clients |-> NoId]
  /\ log = <<>> /\ restarts = 0

-----------------------------------------------------------------------------
(* Publish.                                                                *)

\* The rest of a Publish that has only to deliver to ts and to remove gone.
Left(p, ts, gone) ==
  pub' = [pub EXCEPT ![p] = IF ts \cup gone = {} THEN Idle
                            ELSE [env |-> @.env, targets |-> ts, dropped |-> gone]]

\* Under Hub.mu: into the ring, and a snapshot of the subscribers that match.  The ID,
\* drawn before, is fresh, also after a restart (newEventID).
Publish(p, t) ==
  LET e  == [id |-> Len(log) + 1, topic |-> t]
      ts == {s \in subs : Wanted(s, e)}
  IN /\ pub[p] = Idle /\ Len(log) < MaxEvents
     /\ ring' = [ring EXCEPT ![count % Cap] = e]
     /\ count' = count + 1
     /\ log' = Append(log, e)
     /\ pub' = IF ts = {} THEN pub ELSE [pub EXCEPT ![p] = [env |-> e, targets |-> ts, dropped |-> {}]]
     /\ UNCHANGED <<subs, down, closing, streams, restarts>>

Delivering(p, s) == s \in pub[p].targets /\ pub[p].dropped = {}
HasRoom(s) == Len(chan[s]) < Buf
Put(p, s) ==
  /\ chan' = [chan EXCEPT ![s] = Append(@, pub[p].env)]
  /\ Left(p, pub[p].targets \ {s}, {})
GiveUp(p, s) ==
  /\ shut' = [shut EXCEPT ![s] = TRUE]
  /\ Left(p, pub[p].targets \ {s}, {s})

\* Slip: an event that does not fit is skipped.
DeliverOrSkip(p, s) ==
  /\ Delivering(p, s)
  /\ IF ~shut[s] /\ HasRoom(s) THEN Put(p, s)
     ELSE Left(p, pub[p].targets \ {s}, {}) /\ UNCHANGED chan
  /\ UNCHANGED <<hub, shut, conn, last, log, restarts>>

\* Under sendMu: send if the channel is open and has room; otherwise it is closed, now or
\* already, and the subscriber is to be removed.
Deliver(p, s) ==
  /\ Delivering(p, s)
  /\ \/ ~shut[s] /\ HasRoom(s) /\ Put(p, s) /\ UNCHANGED shut
     \/ (shut[s] \/ ~HasRoom(s)) /\ GiveUp(p, s) /\ UNCHANGED chan
  /\ UNCHANGED <<hub, conn, last, log, restarts>>

RemoveDropped(p) ==
  /\ pub[p].dropped # {}
  /\ subs' = subs \ pub[p].dropped
  /\ Left(p, pub[p].targets, {})
  /\ UNCHANGED <<ring, count, down, closing, streams, log, restarts>>

PublisherStep(p) == RemoveDropped(p) \/ \E s \in Streams : Deliver(p, s)

-----------------------------------------------------------------------------
(* Subscribe and ServeSSE.                                                 *)

\* The events in the ring, oldest first.
Size      == IF count < Cap THEN count ELSE Cap
Window    == [i \in 1 .. Size |-> ring[(count - Size + i - 1) % Cap]]
Found(id) == {i \in 1 .. Size : Window[i].id = id}

After(s, i) == Relevant(s, SubSeq(Window, i + 1, Size))

\* Slip: an ID that is not retained replays the whole window.
BacklogAnyway(s, id) ==
  IF id = NoId THEN <<>>
  ELSE IF Found(id) = {} THEN After(s, 0)
  ELSE After(s, CHOOSE i \in Found(id) : TRUE)

\* snapshotSinceLocked, and the resync frame ServeSSE writes when the ID is evicted.
Backlog(s, id) ==
  IF id = NoId THEN <<>>
  ELSE IF Found(id) = {} THEN <<Resync>>
  ELSE After(s, CHOOSE i \in Found(id) : TRUE)

\* EventSource opens one request at a time.
MayOpen(s) ==
  /\ conn[s] = Unconnected
  /\ \A r \in Streams : ClientOf[r] = ClientOf[s] => conn[r].link # "open"

Answer(s, backlog) ==
  conn' = [conn EXCEPT ![s] = [pc |-> "on", link |-> "open", out |-> backlog, sent |-> <<>>,
                               from |-> last[ClientOf[s]], since |-> Len(log)]]

\* Slip: registered although the hub is shut down.
SubscribeAnyway(s) ==
  /\ MayOpen(s)
  /\ Answer(s, Backlog(s, last[ClientOf[s]]))
  /\ subs' = subs \cup {s}
  /\ UNCHANGED <<ring, count, down, closing, pub, chan, shut, last, log, restarts>>

\* Under Hub.mu: backlog and registration together; a hub that is shut down hands out a
\* closed channel instead.
Subscribe(s) ==
  /\ MayOpen(s)
  /\ \/ /\ ~down /\ subs' = subs \cup {s}
        /\ Answer(s, Backlog(s, last[ClientOf[s]])) /\ UNCHANGED shut
     \/ /\ down /\ shut' = [shut EXCEPT ![s] = TRUE]
        /\ Answer(s, <<>>) /\ UNCHANGED subs
  /\ UNCHANGED <<ring, count, down, closing, pub, chan, last, log, restarts>>

Heard(s) == conn[s].link = "open"

\* A frame reaches the client, or is written to a connection that is lost.
Write(s, e, out) ==
  /\ conn' = [conn EXCEPT ![s].out = out, ![s].sent = IF Heard(s) THEN Append(@, e) ELSE @]
  /\ last' = IF Heard(s) THEN [last EXCEPT ![ClientOf[s]] = e.id] ELSE last

WriteBacklog(s) ==
  /\ conn[s].pc = "on" /\ conn[s].out # <<>>
  /\ Write(s, Head(conn[s].out), Tail(conn[s].out))
  /\ UNCHANGED <<hub, pub, chan, shut, log, restarts>>

Forward(s) ==
  /\ conn[s].pc = "on" /\ conn[s].out = <<>> /\ chan[s] # <<>>
  /\ Write(s, Head(chan[s]), <<>>)
  /\ chan' = [chan EXCEPT ![s] = Tail(@)]
  /\ UNCHANGED <<hub, pub, shut, log, restarts>>

\* The channel is closed and drained, the request's context is done or a write has
\* failed: ServeSSE returns, and drop closes the channel under sendMu ...
Leave(s) ==
  /\ conn[s].pc = "on" /\ conn[s].out = <<>>
  /\ (shut[s] /\ chan[s] = <<>>) \/ ~Heard(s)
  /\ shut' = [shut EXCEPT ![s] = TRUE]
  /\ conn' = [conn EXCEPT ![s].pc = "removing"]
  /\ UNCHANGED <<hub, pub, chan, last, log, restarts>>

\* Slip: closed but left in the hub.
RemoveSubNot(s) ==
  /\ conn[s].pc = "removing"
  /\ conn' = [conn EXCEPT ![s].pc = "gone"]
  /\ UNCHANGED <<hub, pub, chan, shut, last, log, restarts>>

\* ... and removes the subscriber under Hub.mu.
RemoveSub(s) ==
  /\ conn[s].pc = "removing"
  /\ subs' = subs \ {s}
  /\ conn' = [conn EXCEPT ![s].pc = "gone"]
  /\ UNCHANGED <<ring, count, down, closing, pub, chan, shut, last, log, restarts>>

HandlerStep(s) == WriteBacklog(s) \/ Forward(s) \/ Leave(s) \/ RemoveSub(s)

-----------------------------------------------------------------------------
(* The connection, shutdown and restart.                                   *)

\* A connection nobody listens to any more has no history to keep.
Lose(s) ==
  /\ Heard(s)
  /\ conn' = [conn EXCEPT ![s].link = "lost", ![s].sent = <<>>, ![s].from = NoId, ![s].since = 0]
  /\ UNCHANGED <<hub, pub, chan, shut, last, log, restarts>>

ShutdownLock ==
  /\ ~down /\ down' = TRUE
  /\ closing' = subs /\ subs' = {}
  /\ UNCHANGED <<ring, count, pub, streams, log, restarts>>

ShutdownClose(s) ==
  /\ s \in closing /\ closing' = closing \ {s}
  /\ shut' = [shut EXCEPT ![s] = TRUE]
  /\ UNCHANGED <<ring, count, subs, down, pub, chan, conn, last, log, restarts>>

\* The core dies, or is stopped, and a new one starts with an empty ring.
Restart ==
  /\ restarts < MaxRestarts /\ restarts' = restarts + 1
  /\ ring' = [i \in 0 .. Cap - 1 |-> Empty] /\ count' = 0
  /\ subs' = {} /\ down' = FALSE /\ closing' = {}
  /\ pub' = [p \in Publishers |-> Idle]
  /\ chan' = [s \in Streams |-> <<>>]
  /\ conn' = [s \in Streams |-> IF conn[s] = Unconnected THEN Unconnected
                                ELSE [Unconnected EXCEPT !.pc = "gone", !.link = "lost"]]
  /\ UNCHANGED <<shut, last, log>>

\* Nothing to do until the next request.
Quiet ==
  /\ \A p \in Publishers : pub[p] = Idle
  /\ \A s \in Streams : conn[s].pc \in {"off", "gone"} \/ (Heard(s) /\ ~shut[s])
  /\ closing = {}
Wait == Quiet /\ UNCHANGED vars

Next ==
  \/ \E p \in Publishers : PublisherStep(p) \/ \E t \in Topics : Publish(p, t)
  \/ \E s \in Streams : Subscribe(s) \/ HandlerStep(s) \/ Lose(s) \/ ShutdownClose(s)
  \/ ShutdownLock \/ Restart \/ Wait

Spec == Init /\ [][Next]_vars
=============================================================================
