---------------------------- MODULE HubProperties ----------------------------
(***************************************************************************)
(* What the event hub promises: see EventHub for the state.                *)
(***************************************************************************)
EXTENDS EventHub, FiniteSets, SequencesExt

Events == [id : Int, topic : Topics \cup {"none", "resync"}]

\* Type invariant: the shape of every variable.
HubTypeOK ==
  /\ subs \in SUBSET Streams /\ closing \in SUBSET Streams /\ down \in BOOLEAN
  /\ pub \in [Publishers -> [env : Events, targets : SUBSET Streams, dropped : SUBSET Streams]]
  /\ chan \in [Streams -> Seq(Events)] /\ shut \in [Streams -> BOOLEAN]
  /\ log \in Seq(Events)
  /\ DOMAIN conn = Streams

-----------------------------------------------------------------------------
\* What a request has been, or will be, sent so far.
Line(s) == conn[s].sent \o conn[s].out \o chan[s]

\* How often an event has reached, or is on its way to, the client of a request.
Times(s, e) == Cardinality({i \in DOMAIN Line(s) : Line(s)[i] = e})
                 + Cardinality({p \in Publishers : s \in pub[p].targets /\ pub[p].env = e})

\* A connected client misses no event and gets none twice, although publishers deliver
\* outside the lock and the stream starts while they do: everything that entered the ring
\* since Subscribe is written, buffered or on its way exactly once, or the channel is
\* closed so that the client reconnects (Publish, deliver, Subscribe).
LiveExactlyOnce ==
  \A s \in subs : Heard(s) /\ ~shut[s] =>
    \A i \in conn[s].since + 1 .. Len(log) : Wanted(s, log[i]) => Times(s, log[i]) = 1

\* A reconnect is answered by all that followed the given ID, in order, before anything
\* else, or by a resync: never by a part of it (Subscribe, snapshotSinceLocked).
ReplayExact ==
  \A s \in Streams : s \in subs /\ Heard(s) /\ conn[s].from # NoId =>
    LET missed(k) == Relevant(s, SubSeq(log, k + 1, conn[s].since))
    IN \/ Line(s) # <<>> /\ Head(Line(s)) = Resync
       \/ \E k \in 1 .. conn[s].since : log[k].id = conn[s].from /\ IsPrefix(missed(k), Line(s))

\* Nothing is sent on a closed channel, which would bring the core down, however many
\* publishers, the handler's drop and Shutdown race for the subscriber (sendMu).
NoSendAfterClose ==
  [][\A s \in Streams : shut[s] =>
       shut'[s] /\ \E k \in 0 .. Len(chan[s]) : chan'[s] = SubSeq(chan[s], k + 1, Len(chan[s]))]_vars

\* A subscriber leaves the hub: one that is registered has a handler, and one that was
\* closed has somebody about to remove it.  Otherwise the hub would grow for ever.
NoDeadSubscriber ==
  \A s \in subs :
    /\ conn[s].pc \in {"on", "removing"}
    /\ shut[s] => conn[s].pc = "removing" \/ \E p \in Publishers : s \in pub[p].dropped

\* Shutdown leaves no stream that could hold up the drain of the HTTP server, also not of a
\* client that subscribes while it happens: every handler that still runs has a closed channel,
\* which nothing enters any more (NoSendAfterClose), and with it always a step to take: it has a
\* frame to write, an event to forward, or leaves (Shutdown, Subscribe, drop). A write that a client
\* which reads nothing blocks (sse.go) is outside of it.
NoStreamHoldsTheDrain ==
  down /\ closing = {} => \A s \in Streams : conn[s].pc \in {"on", "removing"} => shut[s]
=============================================================================
