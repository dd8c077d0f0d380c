------------------------------- MODULE HubProofs -------------------------------
(***************************************************************************)
(* The hub, for every number of publishers, clients and requests and every *)
(* capacity.                                                               *)
(*                                                                         *)
(* SubsInv: a subscriber is served or about to be removed.  It is          *)
(* inductive with Placed and Unmade: only requests that were answered are  *)
(* known to anybody, and what Shutdown has to close is not registered.     *)
(*                                                                         *)
(* DrainInv: a handler whose subscriber is neither registered nor to be    *)
(* closed has a closed channel.                                            *)
(*                                                                         *)
(* LineInv: what a client is sent is exact.  RingInv says that the ring    *)
(* shows the end of the log, FlightInv that events on their way differ,    *)
(* and HeardInv follows every event since Subscribe from the publisher     *)
(* that holds it into the line of the client, where it never moves back.   *)
(***************************************************************************)
EXTENDS HubProperties, FiniteSetTheorems, SequenceTheorems, WellFoundedInduction, TLAPS

\* A request that was not made is known to nobody, and its channel is open.
Unmade ==
  \A s \in Streams : conn[s].pc = "off" =>
    /\ conn[s] = Unconnected /\ ~shut[s] /\ s \notin subs /\ s \notin closing
    /\ \A p \in Publishers : s \notin pub[p].targets

\* Shutdown takes every subscriber out of the hub before it closes the first.
Placed == (down => subs = {}) /\ (~down => closing = {})

SubsInv == HubTypeOK /\ Unmade /\ Placed /\ NoDeadSubscriber

LEMMA IdleShape == Idle \in [env : Events, targets : SUBSET Streams, dropped : SUBSET Streams]
  BY DEF Idle, Empty, Events, NoId

LEMMA HubStart == Init => SubsInv
  <1> SUFFICES ASSUME Init PROVE SubsInv
    OBVIOUS
  <1>1. pub \in [Publishers -> [env : Events, targets : SUBSET Streams, dropped : SUBSET Streams]]
    BY IdleShape DEF Init
  <1>2. chan \in [Streams -> Seq(Events)] /\ log \in Seq(Events)
    BY DEF Init
  <1>3. HubTypeOK
    BY <1>1, <1>2 DEF Init, HubTypeOK
  <1> QED
    BY <1>3 DEF Init, SubsInv, Unmade, Placed, NoDeadSubscriber, Idle

-----------------------------------------------------------------------------
\* What Left makes of the publishers.
LEMMA LeftShape ==
  ASSUME HubTypeOK, NEW p \in Publishers, NEW ts \in SUBSET Streams, NEW gone \in SUBSET Streams,
         Left(p, ts, gone)
  PROVE  /\ pub' \in [Publishers -> [env : Events, targets : SUBSET Streams, dropped : SUBSET Streams]]
         /\ pub'[p].targets = ts /\ pub'[p].dropped = gone
         /\ \A q \in Publishers \ {p} : pub'[q] = pub[q]
  <1> DEFINE r == [env |-> pub[p].env, targets |-> ts, dropped |-> gone]
  <1>1. r \in [env : Events, targets : SUBSET Streams, dropped : SUBSET Streams]
    BY DEF HubTypeOK
  <1>2. pub' = [pub EXCEPT ![p] = IF ts \cup gone = {} THEN Idle ELSE r]
    BY DEF Left
  <1> QED
    BY <1>1, <1>2, IdleShape DEF HubTypeOK, Idle

LEMMA PublishKeeps ==
  ASSUME SubsInv, NEW p \in Publishers, NEW t \in Topics, Publish(p, t)
  PROVE  SubsInv'
  <1> DEFINE e  == [id |-> Len(log) + 1, topic |-> t]
             ts == {s \in subs : Wanted(s, e)}
  <1>1. e \in Events
    BY DEF SubsInv, HubTypeOK, Events
  <1>2. log' \in Seq(Events)
    BY <1>1 DEF SubsInv, HubTypeOK, Publish
  <1>3. pub' = IF ts = {} THEN pub ELSE [pub EXCEPT ![p] = [env |-> e, targets |-> ts, dropped |-> {}]]
    BY DEF Publish
  <1>5. ts \in SUBSET subs
    OBVIOUS
  <1>6. /\ subs' = subs /\ down' = down /\ closing' = closing
        /\ chan' = chan /\ shut' = shut /\ conn' = conn
    BY DEF Publish, streams
  <1>7. pub[p].dropped = {}
    BY DEF Publish, Idle
  <1> HIDE DEF e, ts
  <1>8. HubTypeOK'
    BY <1>1, <1>2, <1>3, <1>5, <1>6 DEF SubsInv, HubTypeOK
  <1>9. Unmade'
    BY <1>3, <1>5, <1>6 DEF SubsInv, HubTypeOK, Unmade
  <1>10. NoDeadSubscriber'
    BY <1>3, <1>6, <1>7 DEF SubsInv, HubTypeOK, NoDeadSubscriber
  <1> QED
    BY <1>6, <1>8, <1>9, <1>10 DEF SubsInv, Placed

LEMMA DeliverKeeps ==
  ASSUME SubsInv, NEW p \in Publishers, NEW s \in Streams, Deliver(p, s)
  PROVE  SubsInv'
  <1>1. /\ s \in pub[p].targets /\ pub[p].dropped = {} /\ conn[s].pc # "off"
        /\ pub[p].targets \ {s} \in SUBSET Streams /\ {} \in SUBSET Streams /\ {s} \in SUBSET Streams
    BY DEF Deliver, Delivering, SubsInv, HubTypeOK, Unmade
  <1>2. subs' = subs /\ down' = down /\ closing' = closing /\ conn' = conn /\ log' = log
    BY DEF Deliver, hub
  <1>3. CASE ~shut[s] /\ HasRoom(s) /\ Put(p, s) /\ UNCHANGED shut
    <2>1. /\ pub' \in [Publishers -> [env : Events, targets : SUBSET Streams, dropped : SUBSET Streams]]
          /\ pub'[p].targets = pub[p].targets \ {s} /\ pub'[p].dropped = {}
          /\ \A q \in Publishers \ {p} : pub'[q] = pub[q]
      BY <1>1, <1>3, LeftShape DEF Put, SubsInv
    <2>2. chan' \in [Streams -> Seq(Events)]
      BY <1>3 DEF Put, SubsInv, HubTypeOK
    <2> QED
      BY <1>1, <1>2, <1>3, <2>1, <2>2 DEF SubsInv, HubTypeOK, Unmade, Placed, NoDeadSubscriber
  <1>4. CASE GiveUp(p, s) /\ UNCHANGED chan
    <2>1. /\ pub' \in [Publishers -> [env : Events, targets : SUBSET Streams, dropped : SUBSET Streams]]
          /\ pub'[p].targets = pub[p].targets \ {s} /\ pub'[p].dropped = {s}
          /\ \A q \in Publishers \ {p} : pub'[q] = pub[q]
      BY <1>1, <1>4, LeftShape DEF GiveUp, SubsInv
    <2>2. shut' = [shut EXCEPT ![s] = TRUE]
      BY <1>4 DEF GiveUp
    <2>3. HubTypeOK'
      BY <1>2, <1>4, <2>1, <2>2 DEF SubsInv, HubTypeOK
    <2>4. Unmade'
      BY <1>1, <1>2, <2>1, <2>2 DEF SubsInv, HubTypeOK, Unmade
    <2>5. NoDeadSubscriber'
      BY <1>1, <1>2, <2>1, <2>2 DEF SubsInv, HubTypeOK, NoDeadSubscriber
    <2> QED
      BY <1>2, <2>3, <2>4, <2>5 DEF SubsInv, Placed
  <1> QED
    BY <1>3, <1>4 DEF Deliver

LEMMA RemoveDroppedKeeps ==
  ASSUME SubsInv, NEW p \in Publishers, RemoveDropped(p)
  PROVE  SubsInv'
  <1>1. pub[p].targets \in SUBSET Streams /\ {} \in SUBSET Streams /\ Left(p, pub[p].targets, {})
    BY DEF SubsInv, HubTypeOK, RemoveDropped
  <1>2. /\ pub' \in [Publishers -> [env : Events, targets : SUBSET Streams, dropped : SUBSET Streams]]
        /\ pub'[p].targets = pub[p].targets /\ pub'[p].dropped = {}
        /\ \A q \in Publishers \ {p} : pub'[q] = pub[q]
    BY <1>1, LeftShape DEF SubsInv
  <1>3. /\ subs' = subs \ pub[p].dropped /\ down' = down /\ closing' = closing
        /\ chan' = chan /\ shut' = shut /\ conn' = conn /\ log' = log
    BY DEF RemoveDropped, streams
  <1> QED
    BY <1>2, <1>3 DEF SubsInv, HubTypeOK, Unmade, Placed, NoDeadSubscriber

-----------------------------------------------------------------------------
LEMMA SubscribeKeeps ==
  ASSUME SubsInv, NEW s \in Streams, Subscribe(s)
  PROVE  SubsInv'
  <1>1. /\ conn[s].pc = "off" /\ ~shut[s] /\ s \notin subs
        /\ down' = down /\ closing' = closing /\ pub' = pub /\ chan' = chan /\ log' = log
    BY DEF Subscribe, MayOpen, Unconnected, SubsInv, Unmade
  <1>2. /\ DOMAIN conn' = Streams /\ conn'[s].pc = "on"
        /\ \A r \in Streams \ {s} : conn'[r] = conn[r]
    BY DEF Subscribe, Answer, SubsInv, HubTypeOK
  <1>3. CASE ~down /\ subs' = subs \cup {s} /\ UNCHANGED shut
    BY <1>1, <1>2, <1>3 DEF SubsInv, HubTypeOK, Unmade, Placed, NoDeadSubscriber
  <1>4. CASE down /\ shut' = [shut EXCEPT ![s] = TRUE] /\ UNCHANGED subs
    BY <1>1, <1>2, <1>4 DEF SubsInv, HubTypeOK, Unmade, Placed, NoDeadSubscriber
  <1> QED
    BY <1>3, <1>4 DEF Subscribe

\* A frame leaves the handler's place as it is.
LEMMA WriteShape ==
  ASSUME HubTypeOK, NEW s \in Streams, NEW e, NEW out, Write(s, e, out)
  PROVE  DOMAIN conn' = Streams /\ conn'[s].pc = conn[s].pc
         /\ \A r \in Streams \ {s} : conn'[r] = conn[r]
  BY DEF Write, HubTypeOK

LEMMA HandlerKeeps ==
  ASSUME SubsInv, NEW s \in Streams, HandlerStep(s)
  PROVE  SubsInv'
  <1> HubTypeOK
    BY DEF SubsInv
  <1>1. CASE WriteBacklog(s)
    <2>1. /\ DOMAIN conn' = Streams /\ conn'[s].pc = "on"
          /\ \A r \in Streams \ {s} : conn'[r] = conn[r]
      BY <1>1, WriteShape DEF WriteBacklog
    <2> QED
      BY <1>1, <2>1 DEF WriteBacklog, hub, SubsInv, HubTypeOK, Unmade, Placed, NoDeadSubscriber
  <1>2. CASE Forward(s)
    <2>1. /\ DOMAIN conn' = Streams /\ conn'[s].pc = "on"
          /\ \A r \in Streams \ {s} : conn'[r] = conn[r]
      BY <1>2, WriteShape DEF Forward
    <2>2. chan' \in [Streams -> Seq(Events)]
      BY <1>2 DEF Forward, HubTypeOK
    <2> QED
      BY <1>2, <2>1, <2>2 DEF Forward, hub, SubsInv, HubTypeOK, Unmade, Placed, NoDeadSubscriber
  <1>3. CASE Leave(s)
    <2>1. /\ DOMAIN conn' = Streams /\ conn'[s].pc = "removing"
          /\ \A r \in Streams \ {s} : conn'[r] = conn[r]
      BY <1>3 DEF Leave, HubTypeOK
    <2>2. shut' = [shut EXCEPT ![s] = TRUE]
      BY <1>3 DEF Leave
    <2> QED
      BY <1>3, <2>1, <2>2 DEF Leave, hub, SubsInv, HubTypeOK, Unmade, Placed, NoDeadSubscriber
  <1>4. CASE RemoveSub(s)
    <2>1. /\ DOMAIN conn' = Streams /\ conn'[s].pc = "gone"
          /\ \A r \in Streams \ {s} : conn'[r] = conn[r]
      BY <1>4 DEF RemoveSub, HubTypeOK
    <2>2. subs' = subs \ {s}
      BY <1>4 DEF RemoveSub
    <2> QED
      BY <1>4, <2>1, <2>2 DEF RemoveSub, SubsInv, HubTypeOK, Unmade, Placed, NoDeadSubscriber
  <1> QED
    BY <1>1, <1>2, <1>3, <1>4 DEF HandlerStep

LEMMA LoseKeeps ==
  ASSUME SubsInv, NEW s \in Streams, Lose(s)
  PROVE  SubsInv'
  <1>1. conn[s].pc # "off"
    BY DEF Lose, Heard, SubsInv, Unmade, Unconnected
  <1>2. /\ DOMAIN conn' = Streams /\ conn'[s].pc = conn[s].pc
        /\ \A r \in Streams \ {s} : conn'[r] = conn[r]
    BY DEF Lose, SubsInv, HubTypeOK
  <1> QED
    BY <1>1, <1>2 DEF Lose, hub, SubsInv, HubTypeOK, Unmade, Placed, NoDeadSubscriber

LEMMA ShutdownKeeps ==
  ASSUME SubsInv, ShutdownLock \/ \E s \in Streams : ShutdownClose(s)
  PROVE  SubsInv'
  <1>1. CASE ShutdownLock
    BY <1>1 DEF ShutdownLock, streams, SubsInv, HubTypeOK, Unmade, Placed, NoDeadSubscriber
  <1>2. ASSUME NEW s \in Streams, ShutdownClose(s) PROVE SubsInv'
    <2>1. s \in closing /\ down /\ subs = {}
      BY <1>2 DEF ShutdownClose, SubsInv, HubTypeOK, Placed
    <2> QED
      BY <1>2, <2>1 DEF ShutdownClose, SubsInv, HubTypeOK, Unmade, Placed, NoDeadSubscriber
  <1> QED
    BY <1>1, <1>2

LEMMA RestartKeeps == ASSUME SubsInv, Restart PROVE SubsInv'
  <1>1. chan' \in [Streams -> Seq(Events)]
    BY DEF Restart
  <1>2. \A s \in Streams : conn'[s].pc = "off" => conn[s] = Unconnected /\ conn'[s] = Unconnected
    BY DEF Restart, Unconnected
  <1>3. \A s \in Streams : conn'[s].pc = "off" => ~shut'[s]
    BY <1>2 DEF Restart, SubsInv, Unmade, Unconnected
  <1>4. HubTypeOK'
    BY <1>1, IdleShape DEF Restart, SubsInv, HubTypeOK
  <1> QED
    BY <1>2, <1>3, <1>4 DEF Restart, SubsInv, Unmade, Placed, NoDeadSubscriber, Idle

LEMMA SubsStep == SubsInv /\ [Next]_vars => SubsInv'
  <1> SUFFICES ASSUME SubsInv, [Next]_vars PROVE SubsInv'
    OBVIOUS
  <1>1. ASSUME NEW p \in Publishers, PublisherStep(p) PROVE SubsInv'
    BY <1>1, DeliverKeeps, RemoveDroppedKeeps DEF PublisherStep
  <1>2. ASSUME NEW p \in Publishers, NEW t \in Topics, Publish(p, t) PROVE SubsInv'
    BY <1>2, PublishKeeps
  <1>3. ASSUME NEW s \in Streams, Subscribe(s) \/ HandlerStep(s) \/ Lose(s) \/ ShutdownClose(s)
        PROVE  SubsInv'
    BY <1>3, SubscribeKeeps, HandlerKeeps, LoseKeeps, ShutdownKeeps
  <1>4. CASE UNCHANGED vars
    BY <1>4 DEF vars, hub, streams, SubsInv, HubTypeOK, Unmade, Placed, NoDeadSubscriber
  <1> QED
    BY <1>1, <1>2, <1>3, <1>4, ShutdownKeeps, RestartKeeps DEF Next, Wait

LEMMA SubsCorrect == Spec => []SubsInv
  BY HubStart, SubsStep, PTL DEF Spec

\* The hub's state keeps its shape, for any number of publishers and requests.
THEOREM HubTypeCorrect == Spec => []HubTypeOK
  <1>1. SubsInv => HubTypeOK
    BY DEF SubsInv
  <1> QED
    BY SubsCorrect, <1>1, PTL

\* Whoever is registered with the hub is served, or somebody is about to remove him, for any
\* number of publishers and requests, shutdowns and restarts (Subscribe, deliver, drop).
THEOREM NoDeadSubscriberAlways == Spec => []NoDeadSubscriber
  <1>1. SubsInv => NoDeadSubscriber
    BY DEF SubsInv
  <1> QED
    BY SubsCorrect, <1>1, PTL

-----------------------------------------------------------------------------
(* What Shutdown leaves behind.                                            *)

\* A handler's subscriber is registered, or about to be closed by Shutdown, or closed; and a
\* publisher removes only what it has closed.
DrainInv ==
  /\ \A p \in Publishers : \A s \in pub[p].dropped : shut[s]
  /\ \A s \in Streams : conn[s].pc \in {"on", "removing"} => s \in subs \/ s \in closing \/ shut[s]

LEMMA PublishersDrain ==
  ASSUME SubsInv, DrainInv, NEW p \in Publishers, PublisherStep(p) \/ \E t \in Topics : Publish(p, t)
  PROVE  DrainInv'
  <1> HubTypeOK
    BY DEF SubsInv
  <1>1. ASSUME NEW t \in Topics, Publish(p, t) PROVE DrainInv'
    <2>1. \A q \in Publishers : pub'[q].dropped \subseteq pub[q].dropped
      BY <1>1 DEF Publish, HubTypeOK
    <2> QED
      BY <1>1, <2>1 DEF Publish, streams, DrainInv
  <1>2. CASE RemoveDropped(p)
    <2>0. pub[p].targets \in SUBSET Streams /\ {} \in SUBSET Streams /\ Left(p, pub[p].targets, {})
      BY <1>2 DEF RemoveDropped, HubTypeOK
    <2>1. /\ pub'[p].dropped = {} /\ \A q \in Publishers \ {p} : pub'[q] = pub[q]
          /\ subs' = subs \ pub[p].dropped /\ UNCHANGED <<closing, shut, conn>>
      BY <1>2, <2>0, LeftShape DEF RemoveDropped, streams
    <2>2. \A s \in Streams : s \in pub[p].dropped => shut[s]
      BY DEF DrainInv
    <2>3. ASSUME NEW q \in Publishers, NEW s \in pub'[q].dropped PROVE shut'[s]
      BY <2>1, <2>3 DEF DrainInv
    <2>4. ASSUME NEW s \in Streams, conn'[s].pc \in {"on", "removing"}
          PROVE  s \in subs' \/ s \in closing' \/ shut'[s]
      BY <2>1, <2>2, <2>4 DEF DrainInv
    <2> QED
      BY <2>3, <2>4 DEF DrainInv
  <1>3. ASSUME NEW s \in Streams, Deliver(p, s) PROVE DrainInv'
    <2>1. /\ pub[p].dropped = {} /\ UNCHANGED <<subs, closing, conn>>
          /\ pub[p].targets \ {s} \in SUBSET Streams /\ {} \in SUBSET Streams /\ {s} \in SUBSET Streams
      BY <1>3 DEF Deliver, Delivering, hub, HubTypeOK
    <2>2. CASE Put(p, s) /\ UNCHANGED shut
      <3>1. pub'[p].dropped = {} /\ \A q \in Publishers \ {p} : pub'[q] = pub[q]
        BY <2>1, <2>2, LeftShape DEF Put
      <3> QED
        BY <2>1, <2>2, <3>1 DEF DrainInv
    <2>3. CASE GiveUp(p, s)
      <3>1. pub'[p].dropped = {s} /\ \A q \in Publishers \ {p} : pub'[q] = pub[q]
        BY <2>1, <2>3, LeftShape DEF GiveUp
      <3>2. shut' = [shut EXCEPT ![s] = TRUE] /\ shut \in [Streams -> BOOLEAN]
        BY <2>3 DEF GiveUp, HubTypeOK
      <3>3. shut'[s] /\ \A r \in Streams : shut[r] => shut'[r]
        BY <3>2
      <3>4. \A q \in Publishers : pub[q].dropped \subseteq Streams
        BY DEF HubTypeOK
      <3> QED
        BY <2>1, <3>1, <3>3, <3>4 DEF DrainInv
    <2> QED
      BY <1>3, <2>2, <2>3 DEF Deliver
  <1> QED
    BY <1>1, <1>2, <1>3 DEF PublisherStep

LEMMA HandlerDrain ==
  ASSUME SubsInv, DrainInv, NEW s \in Streams, Subscribe(s) \/ HandlerStep(s) \/ Lose(s)
  PROVE  DrainInv'
  <1> HubTypeOK
    BY DEF SubsInv
  <1>0. /\ shut \in [Streams -> BOOLEAN]
        /\ \A p \in Publishers : pub[p].dropped \subseteq Streams
    BY DEF HubTypeOK
  <1>1. CASE Subscribe(s)
    <2>1. (\A r \in Streams \ {s} : conn'[r] = conn[r]) /\ UNCHANGED <<closing, pub>>
      BY <1>1 DEF Subscribe, Answer, HubTypeOK
    <2>2. CASE subs' = subs \cup {s} /\ UNCHANGED shut
      BY <2>1, <2>2 DEF DrainInv
    <2>3. CASE shut' = [shut EXCEPT ![s] = TRUE] /\ UNCHANGED subs
      BY <1>0, <2>1, <2>3 DEF DrainInv
    <2> QED
      BY <1>1, <2>2, <2>3 DEF Subscribe
  <1>2. CASE WriteBacklog(s) \/ Forward(s)
    <2>1. (\A r \in Streams : conn'[r].pc = conn[r].pc) /\ UNCHANGED <<subs, closing, pub, shut>>
      BY <1>2, WriteShape DEF WriteBacklog, Forward, hub
    <2> QED
      BY <2>1 DEF DrainInv
  <1>3. CASE Leave(s)
    <2>1. /\ (\A r \in Streams \ {s} : conn'[r] = conn[r]) /\ UNCHANGED <<subs, closing, pub>>
          /\ shut' = [shut EXCEPT ![s] = TRUE]
      BY <1>3 DEF Leave, hub, HubTypeOK
    <2> QED
      BY <1>0, <2>1 DEF DrainInv
  <1>4. CASE RemoveSub(s)
    <2>1. /\ (\A r \in Streams \ {s} : conn'[r] = conn[r]) /\ UNCHANGED <<closing, pub, shut>>
          /\ subs' = subs \ {s} /\ conn'[s].pc = "gone"
      BY <1>4 DEF RemoveSub, HubTypeOK
    <2> QED
      BY <2>1 DEF DrainInv
  <1>5. CASE Lose(s)
    <2>1. (\A r \in Streams : conn'[r].pc = conn[r].pc) /\ UNCHANGED <<subs, closing, pub, shut>>
      BY <1>5 DEF Lose, hub, HubTypeOK
    <2> QED
      BY <2>1 DEF DrainInv
  <1> QED
    BY <1>1, <1>2, <1>3, <1>4, <1>5 DEF HandlerStep

LEMMA DrainStep == SubsInv /\ DrainInv /\ [Next]_vars => DrainInv'
  <1> SUFFICES ASSUME SubsInv, DrainInv, [Next]_vars PROVE DrainInv'
    OBVIOUS
  <1>1. ASSUME NEW s \in Streams, ShutdownClose(s) PROVE DrainInv'
    <2>1. /\ shut \in [Streams -> BOOLEAN] /\ \A p \in Publishers : pub[p].dropped \subseteq Streams
          /\ closing' = closing \ {s} /\ shut' = [shut EXCEPT ![s] = TRUE] /\ UNCHANGED <<subs, pub, conn>>
      BY <1>1 DEF ShutdownClose, SubsInv, HubTypeOK
    <2>2. shut'[s] /\ \A r \in Streams : shut[r] => shut'[r]
      BY <2>1
    <2>3. ASSUME NEW q \in Publishers, NEW r \in pub'[q].dropped PROVE shut'[r]
      BY <2>1, <2>2, <2>3 DEF DrainInv
    <2>4. ASSUME NEW r \in Streams, conn'[r].pc \in {"on", "removing"}
          PROVE  r \in subs' \/ r \in closing' \/ shut'[r]
      <3>1. r \in subs \/ r \in closing \/ shut[r]
        BY <2>1, <2>4 DEF DrainInv
      <3>2. r \in closing => r \in closing' \/ shut'[r]
        BY <2>1, <2>2
      <3> QED
        BY <2>1, <2>2, <3>1, <3>2
    <2> QED
      BY <2>3, <2>4 DEF DrainInv
  <1>2. CASE ShutdownLock
    <2>1. subs' = {} /\ closing' = subs /\ closing = {} /\ UNCHANGED <<pub, shut, conn>>
      BY <1>2 DEF ShutdownLock, streams, SubsInv, Placed
    <2> QED
      BY <2>1 DEF DrainInv
  <1>3. CASE Restart
    <2>1. (\A p \in Publishers : pub'[p] = Idle) /\ \A s \in Streams : conn'[s].pc \in {"off", "gone"}
      BY <1>3 DEF Restart, Unconnected
    <2> QED
      BY <2>1 DEF DrainInv, Idle
  <1>4. CASE UNCHANGED vars
    BY <1>4 DEF vars, hub, streams, DrainInv
  <1> QED
    BY <1>1, <1>2, <1>3, <1>4, PublishersDrain, HandlerDrain DEF Next, Wait

\* A hub that has shut down leaves no handler with an open channel, whoever subscribed, was
\* dropped or went away while it did (Subscribe, deliver, drop, Shutdown).
THEOREM DrainsAlways == Spec => []NoStreamHoldsTheDrain
  <1>1. Init => SubsInv /\ DrainInv
    <2>1. Init => DrainInv
      BY DEF Init, DrainInv, Idle, Unconnected
    <2> QED
      BY <2>1, HubStart
  <1>2. (SubsInv /\ DrainInv) /\ [Next]_vars => (SubsInv /\ DrainInv)'
    BY SubsStep, DrainStep
  <1>3. SubsInv /\ DrainInv => NoStreamHoldsTheDrain
    BY DEF SubsInv, Placed, DrainInv, NoStreamHoldsTheDrain
  <1> QED
    BY <1>1, <1>2, <1>3, PTL DEF Spec

-----------------------------------------------------------------------------
\* What a step leaves in a channel.
Shorter(c, d) == \E k \in 0 .. Len(c) : d = SubSeq(c, k + 1, Len(c))

LEMMA Shortens ==
  ASSUME NEW S, NEW c \in Seq(S)
  PROVE  Shorter(c, c) /\ Shorter(c, <<>>) /\ (c # <<>> => Shorter(c, Tail(c)))
  <1>1. c = SubSeq(c, 0 + 1, Len(c)) /\ 0 \in 0 .. Len(c)
    OBVIOUS
  <1>2. <<>> = SubSeq(c, Len(c) + 1, Len(c)) /\ Len(c) \in 0 .. Len(c)
    OBVIOUS
  <1>3. c # <<>> => Tail(c) = SubSeq(c, 1 + 1, Len(c)) /\ 1 \in 0 .. Len(c)
    OBVIOUS
  <1> QED
    BY <1>1, <1>2, <1>3 DEF Shorter

StaysClosed(s) == shut[s] => shut'[s] /\ Shorter(chan[s], chan'[s])

LEMMA ClosedStep == ASSUME HubTypeOK, [Next]_vars PROVE \A s \in Streams : StaysClosed(s)
  <1> SUFFICES ASSUME NEW s \in Streams, shut[s] PROVE shut'[s] /\ Shorter(chan[s], chan'[s])
    BY DEF StaysClosed
  <1>0. /\ chan[s] \in Seq(Events)
        /\ Shorter(chan[s], chan[s]) /\ Shorter(chan[s], <<>>)
        /\ chan[s] # <<>> => Shorter(chan[s], Tail(chan[s]))
    BY Shortens DEF HubTypeOK
  <1>1. ASSUME NEW p \in Publishers, NEW r \in Streams, Deliver(p, r)
        PROVE  shut'[s] /\ chan'[s] = chan[s]
    BY <1>1 DEF Deliver, Put, GiveUp, HubTypeOK
  <1>2. ASSUME NEW p \in Publishers, RemoveDropped(p) \/ \E t \in Topics : Publish(p, t)
        PROVE  shut'[s] /\ chan'[s] = chan[s]
    BY <1>2 DEF RemoveDropped, Publish, streams
  <1>3. ASSUME NEW r \in Streams, Subscribe(r) \/ WriteBacklog(r) \/ Leave(r) \/ RemoveSub(r)
                                  \/ Lose(r) \/ ShutdownClose(r)
        PROVE  shut'[s] /\ chan'[s] = chan[s]
    BY <1>3 DEF Subscribe, WriteBacklog, Leave, RemoveSub, Lose, ShutdownClose, HubTypeOK
  <1>4. ASSUME NEW r \in Streams, Forward(r) PROVE shut'[s] /\ Shorter(chan[s], chan'[s])
    BY <1>0, <1>4 DEF Forward, HubTypeOK
  <1>5. CASE ShutdownLock \/ UNCHANGED vars
    BY <1>0, <1>5 DEF ShutdownLock, vars, streams
  <1>6. CASE Restart
    BY <1>0, <1>6 DEF Restart, HubTypeOK
  <1> QED
    BY <1>0, <1>1, <1>2, <1>3, <1>4, <1>5, <1>6 DEF Next, PublisherStep, HandlerStep, Wait

\* Nothing is ever sent on a channel that was closed, whoever closed it and however many
\* publishers still hold its subscriber in their snapshots (deliver, drop, Shutdown).
THEOREM NoSendAfterCloseAlways == Spec => NoSendAfterClose
  <1>1. HubTypeOK /\ [Next]_vars => [\A s \in Streams : shut[s] =>
          shut'[s] /\ \E k \in 0 .. Len(chan[s]) : chan'[s] = SubSeq(chan[s], k + 1, Len(chan[s]))]_vars
    BY ClosedStep DEF StaysClosed, Shorter
  <1>2. SubsInv => HubTypeOK
    BY DEF SubsInv
  <1> QED
    BY SubsCorrect, <1>1, <1>2, PTL DEF Spec, NoSendAfterClose

-----------------------------------------------------------------------------
(* What a stream carries.                                                  *)

Link == [pc : {"off", "on", "removing", "gone"}, link : {"new", "open", "lost"},
         out : Seq(Events), sent : Seq(Events), from : Int, since : Nat]

\* The parts of the type that only this argument needs; a request that was not made has
\* nothing in its channel.
LineTypeOK ==
  /\ conn \in [Streams -> Link] /\ last \in [Clients -> Int]
  /\ ring \in [0 .. Cap - 1 -> Events] /\ count \in Nat
  /\ \A s \in Streams : conn[s].pc = "off" => chan[s] = <<>>

\* The ring holds the last of what this process has put into it, each in its place, and IDs
\* number the events.
RingInv ==
  /\ \A i \in 1 .. Len(log) : log[i].id = i
  /\ count <= Len(log)
  /\ \A j \in 1 .. count : count - Cap < j => ring[(j - 1) % Cap] = log[Len(log) - count + j]

\* Publishers on their way have different events, all of them logged.
FlightInv ==
  \A p \in Publishers : pub[p].targets # {} =>
    /\ pub[p].env.id \in 1 .. Len(log)
    /\ \A q \in Publishers \ {p} : pub[q].targets # {} => pub[q].env # pub[p].env

\* The events after the k-th that the client had missed when it connected.
Missed(s, k) == Relevant(s, SubSeq(log, k + 1, conn[s].since))

Replayed(s) ==
  conn[s].from # NoId =>
    \/ Line(s) # <<>> /\ Head(Line(s)) = Resync
    \/ \E k \in 1 .. conn[s].since :
         log[k].id = conn[s].from /\ \E rest \in Seq(Events) : Line(s) = Missed(s, k) \o rest

InLine(s, e) == \E i \in DOMAIN Line(s) : Line(s)[i] = e
Flying(s, e) == \E p \in Publishers : s \in pub[p].targets /\ pub[p].env = e

\* What came after the client connected is somewhere and nowhere twice.
Once(s) ==
  /\ \A i \in conn[s].since + 1 .. Len(log) :
       Wanted(s, log[i]) => InLine(s, log[i]) \/ Flying(s, log[i])
  /\ \A i \in DOMAIN Line(s) :
       /\ Line(s)[i].id <= Len(log)
       /\ Line(s)[i].id > conn[s].since => \A j \in DOMAIN Line(s) \ {i} : Line(s)[j] # Line(s)[i]
  /\ \A p \in Publishers : s \in pub[p].targets =>
       pub[p].env.id > conn[s].since /\ ~InLine(s, pub[p].env)

HeardInv ==
  \A s \in subs : Heard(s) =>
    /\ conn[s].since <= Len(log) /\ Replayed(s)
    /\ ~shut[s] => Once(s)

LineInv == LineTypeOK /\ RingInv /\ FlightInv /\ HeardInv

-----------------------------------------------------------------------------
(* Induction up to a number, and what it says of the events replayed.      *)

LEMMA Least ==
  ASSUME NEW T \in SUBSET Nat, T # {}
  PROVE  \E x \in T : \A y \in T : x <= y
  <1> DEFINE R == OpToRel(<, Nat)
  <1>1. IsWellFoundedOn(R, Nat)
    BY NatLessThanWellFounded
  <1>2. \A x, y \in Nat : y < x => <<y, x>> \in R
    BY DEF OpToRel
  <1> HIDE DEF R
  <1>3. PICK x \in T : \A y \in T : ~ (<<y, x>> \in R)
    BY <1>1, WFMin
  <1>4. ASSUME NEW y \in T PROVE x <= y
    <2>1. ~ (<<y, x>> \in R)
      BY <1>3
    <2>2. ~ (y < x)
      BY <2>1, <1>2
    <2> QED
      BY <2>2
  <1> QED
    BY <1>4

LEMMA UpTo ==
  ASSUME NEW n \in Nat, NEW P, 0 \in P, \A m \in 1 .. n : m - 1 \in P => m \in P
  PROVE  \A m \in 0 .. n : m \in P
  <1> DEFINE T == {m \in 0 .. n : m \notin P}
  <1> SUFFICES ASSUME T # {} PROVE FALSE
    OBVIOUS
  <1>1. T \in SUBSET Nat
    OBVIOUS
  <1>2. PICK m \in T : \A k \in T : m <= k
    BY <1>1, Least
  <1>3. m \in 1 .. n
    OBVIOUS
  <1>4. m - 1 \in 0 .. n /\ m - 1 \notin T
    BY <1>2, <1>3
  <1> QED
    BY <1>3, <1>4

LEMMA RelevantType ==
  ASSUME NEW E, NEW q \in Seq(E), NEW s
  PROVE  Relevant(s, q) \in Seq(E)
  <1> DEFINE N == Len(q)
             D(g, m) == IF m = 0 THEN <<>>
                        ELSE IF Wanted(s, q[m]) THEN Append(g[m - 1], q[m])
                        ELSE g[m - 1]
             Upto(g, n) == g \in [0 .. n -> Seq(E)] /\ \A m \in 0 .. n : g[m] = D(g, m)
             f == CHOOSE f : f = [m \in 0 .. N |-> D(f, m)]
  <1>1. N \in Nat /\ \A m \in 1 .. N : q[m] \in E
    OBVIOUS
  <1>2. \A g : D(g, 0) = <<>>
    OBVIOUS
  <1>3. ASSUME NEW g, NEW m \in 1 .. N, g[m - 1] \in Seq(E) PROVE D(g, m) \in Seq(E)
    <2>1. m # 0 /\ q[m] \in E
      BY <1>1
    <2>2. Append(g[m - 1], q[m]) \in Seq(E)
      BY <1>3, <2>1, AppendProperties
    <2>3. D(g, m) = IF Wanted(s, q[m]) THEN Append(g[m - 1], q[m]) ELSE g[m - 1]
      BY <2>1
    <2> QED
      BY <1>3, <2>2, <2>3
  <1>4. ASSUME NEW g, NEW h, NEW m \in 1 .. N, g[m - 1] = h[m - 1] PROVE D(g, m) = D(h, m)
    BY <1>4
  <1>0. Relevant(s, q) = f[N]
    BY DEF Relevant
  <1> HIDE DEF N, D, f
  <1>5. \E g : Upto(g, N)
    <2> DEFINE P == {n \in 0 .. N : \E g : Upto(g, n)}
    <2>1. 0 \in P
      <3> DEFINE g == [m \in 0 .. 0 |-> <<>>]
      <3>1. g \in [0 .. 0 -> Seq(E)] /\ \A m \in 0 .. 0 : m = 0 /\ g[m] = <<>>
        OBVIOUS
      <3>2. Upto(g, 0)
        BY <1>2, <3>1
      <3>3. \E h : Upto(h, 0)
        BY <3>2
      <3>4. 0 \in 0 .. N
        BY <1>1
      <3> HIDE DEF Upto
      <3> QED
        BY <3>3, <3>4
    <2>2. ASSUME NEW n \in 1 .. N, n - 1 \in P PROVE n \in P
      <3>1. PICK g : Upto(g, n - 1)
        BY <2>2
      <3> DEFINE h == [m \in 0 .. n |-> IF m = n THEN D(g, n) ELSE g[m]]
      <3>2. /\ n - 1 \in 0 .. n - 1 /\ g[n - 1] \in Seq(E)
            /\ \A m \in 0 .. n : m # n => m \in 0 .. n - 1 /\ g[m] \in Seq(E)
        BY <1>1, <3>1
      <3>3. D(g, n) \in Seq(E)
        BY <1>3, <3>2
      <3>4. h \in [0 .. n -> Seq(E)]
        BY <3>2, <3>3
      <3>5. ASSUME NEW m \in 0 .. n PROVE h[m] = D(h, m)
        <4>1. CASE m = 0
          <5>1. h[m] = g[m] /\ g[m] = D(g, m)
            BY <1>1, <3>1, <3>2, <4>1
          <5> QED
            BY <1>2, <4>1, <5>1
        <4>2. CASE m \in 1 .. n - 1
          <5>1. h[m] = g[m] /\ g[m] = D(g, m) /\ h[m - 1] = g[m - 1]
            BY <1>1, <3>1, <4>2
          <5>2. m \in 1 .. N
            BY <1>1, <4>2
          <5> QED
            BY <1>4, <5>1, <5>2
        <4>3. CASE m = n
          <5>1. h[m] = D(g, n) /\ h[m - 1] = g[m - 1]
            BY <1>1, <4>3
          <5> QED
            BY <1>4, <4>3, <5>1
        <4> QED
          BY <1>1, <4>1, <4>2, <4>3
      <3> HIDE DEF h
      <3>6. Upto(h, n) /\ n \in 0 .. N
        BY <1>1, <3>4, <3>5
      <3> QED
        BY <3>6
    <2> HIDE DEF P
    <2>4. N \in Nat /\ \A n \in 1 .. N : n - 1 \in P => n \in P
      BY <1>1, <2>2
    <2>5. \A n \in 0 .. N : n \in P
      BY <2>1, <2>4, UpTo
    <2>3. N \in P
      BY <1>1, <2>5
    <2> QED
      BY <2>3 DEF P
  <1>6. PICK g : Upto(g, N)
    BY <1>5
  <1>7. g = [m \in 0 .. N |-> D(g, m)]
    BY <1>6
  <1>8. f = [m \in 0 .. N |-> D(f, m)]
    <2> DEFINE Fits(h) == h = [m \in 0 .. N |-> D(h, m)]
    <2>1. Fits(g) /\ f = CHOOSE h : Fits(h)
      BY <1>7 DEF f
    <2> HIDE DEF Fits
    <2>2. Fits(f)
      BY <2>1
    <2> QED
      BY <2>2 DEF Fits
  <1>9. f[N] \in Seq(E)
    <2> DEFINE P == {n \in 0 .. N : f[n] \in Seq(E)}
    <2>1. 0 \in P
      <3>1. f[0] = <<>>
        BY <1>1, <1>2, <1>8
      <3>2. 0 \in 0 .. N /\ <<>> \in Seq(E)
        BY <1>1, EmptySeq
      <3> QED
        BY <3>1, <3>2
    <2>2. ASSUME NEW n \in 1 .. N, n - 1 \in P PROVE n \in P
      <3>1. f[n] = D(f, n) /\ n \in 0 .. N
        BY <1>1, <1>8
      <3>2. f[n - 1] \in Seq(E)
        BY <2>2
      <3> QED
        BY <1>3, <3>1, <3>2
    <2> HIDE DEF P
    <2>4. N \in Nat /\ \A n \in 1 .. N : n - 1 \in P => n \in P
      BY <1>1, <2>2
    <2>5. \A n \in 0 .. N : n \in P
      BY <2>1, <2>4, UpTo
    <2>3. N \in P
      BY <1>1, <2>5
    <2> QED
      BY <2>3 DEF P
  <1> QED
    BY <1>0, <1>9

-----------------------------------------------------------------------------
(* Lines, whatever moves along them.                                       *)

LEMMA MoveHead ==
  ASSUME NEW E, NEW a \in Seq(E), NEW b \in Seq(E), b # <<>>
  PROVE  Append(a, Head(b)) \o Tail(b) = a \o b
  <1> DEFINE c == Append(a, Head(b))
             t == Tail(b)
             n == Len(a)
             m == Len(b)
  <1>1. /\ t \in Seq(E) /\ Len(t) = m - 1 /\ \A i \in 1 .. Len(t) : t[i] = b[i + 1]
        /\ Head(b) \in E /\ Head(b) = b[1] /\ m \in Nat \ {0} /\ n \in Nat
    BY HeadTailProperties, EmptySeq, LenProperties
  <1>2. c \in Seq(E) /\ Len(c) = n + 1 /\ c[n + 1] = b[1] /\ \A i \in 1 .. n : c[i] = a[i]
    BY <1>1, AppendProperties
  <1> HIDE DEF c, t
  <1>3. c \o t \in Seq(E) /\ Len(c \o t) = Len(c) + Len(t)
        /\ \A i \in 1 .. Len(c) + Len(t) : (c \o t)[i] = IF i <= Len(c) THEN c[i] ELSE t[i - Len(c)]
    BY <1>1, <1>2, ConcatProperties
  <1>4. a \o b \in Seq(E) /\ Len(a \o b) = n + m
        /\ \A i \in 1 .. n + m : (a \o b)[i] = IF i <= n THEN a[i] ELSE b[i - n]
    BY ConcatProperties
  <1> HIDE DEF n, m
  <1>5. Len(c) + Len(t) = n + m
    BY <1>1, <1>2
  <1>6. ASSUME NEW i \in 1 .. n + m PROVE (c \o t)[i] = (a \o b)[i]
    <2>1. (a \o b)[i] = IF i <= n THEN a[i] ELSE b[i - n]
      BY <1>4
    <2>2. (c \o t)[i] = IF i <= n + 1 THEN c[i] ELSE t[i - (n + 1)]
      BY <1>2, <1>3, <1>5
    <2>4. CASE i <= n
      <3>1. i \in 1 .. n /\ i <= n + 1
        BY <1>1, <2>4
      <3> QED
        BY <1>2, <2>1, <2>2, <2>4, <3>1
    <2>5. CASE i = n + 1
      <3>1. i - n = 1 /\ ~ (i <= n)
        BY <1>1, <2>5
      <3> QED
        BY <1>2, <2>1, <2>2, <2>5, <3>1
    <2>6. CASE i > n + 1
      <3>1. /\ i - (n + 1) \in 1 .. Len(t) /\ (i - (n + 1)) + 1 = i - n
            /\ ~ (i <= n) /\ ~ (i <= n + 1)
        BY <1>1, <2>6
      <3>2. t[i - (n + 1)] = b[i - n]
        BY <1>1, <3>1
      <3> QED
        BY <2>1, <2>2, <3>1, <3>2
    <2>7. i <= n \/ i = n + 1 \/ i > n + 1
      BY <1>1
    <2> QED
      BY <2>4, <2>5, <2>6, <2>7
  <1>7. Len(c \o t) = n + m /\ Len(a \o b) = n + m
    BY <1>3, <1>4, <1>5
  <1>8. c \o t = a \o b
    BY <1>3, <1>4, <1>6, <1>7, SeqEqual
  <1> QED
    BY <1>8 DEF c, t

LEMMA LineType ==
  ASSUME HubTypeOK, LineTypeOK, NEW s \in Streams
  PROVE  /\ conn[s].sent \in Seq(Events) /\ conn[s].out \in Seq(Events) /\ chan[s] \in Seq(Events)
         /\ Line(s) \in Seq(Events) /\ conn[s].since \in Nat /\ conn[s].from \in Int
  <1>1. /\ conn[s].sent \in Seq(Events) /\ conn[s].out \in Seq(Events) /\ chan[s] \in Seq(Events)
        /\ conn[s].since \in Nat /\ conn[s].from \in Int
    BY DEF HubTypeOK, LineTypeOK, Link
  <1>2. conn[s].sent \o conn[s].out \in Seq(Events)
    BY <1>1, ConcatProperties
  <1>3. (conn[s].sent \o conn[s].out) \o chan[s] \in Seq(Events)
    BY <1>1, <1>2, ConcatProperties
  <1> QED
    BY <1>1, <1>3 DEF Line

\* The same publishers are on their way to a request, with the same.
SameFlights(s) ==
  \A p \in Publishers : /\ s \in pub'[p].targets <=> s \in pub[p].targets
                        /\ s \in pub[p].targets => pub'[p].env = pub[p].env

\* What is neither written nor put elsewhere than before is as good as it was.
LEMMA HeardSame ==
  ASSUME NEW s \in Streams, Replayed(s), ~shut[s] => Once(s),
         Line(s)' = Line(s), log' = log, ~shut'[s] => ~shut[s],
         conn'[s].since = conn[s].since, conn'[s].from = conn[s].from,
         ~shut'[s] => SameFlights(s)
  PROVE  Replayed(s)' /\ (~shut'[s] => Once(s)')
  <1>1. \A k : Missed(s, k)' = Missed(s, k)
    BY DEF Missed
  <1>2. Replayed(s)'
    BY <1>1 DEF Replayed
  <1>3. \A e : InLine(s, e)' = InLine(s, e)
    BY DEF InLine
  <1>4. ASSUME ~shut'[s] PROVE Once(s)'
    <2>1. SameFlights(s) /\ Once(s)
      BY <1>4
    <2>2. \A e : Flying(s, e)' <=> Flying(s, e)
      BY <2>1 DEF Flying, SameFlights
    <2> QED
      BY <1>3, <2>1, <2>2 DEF Once, SameFlights
  <1> QED
    BY <1>2, <1>4

\* A step that publishes nothing and puts nothing into a channel.
LEMMA QuietStep ==
  ASSUME LineInv, LineTypeOK', ring' = ring, count' = count, log' = log,
         subs' \subseteq subs, subs \subseteq Streams,
         \A p \in Publishers : /\ pub'[p].targets \subseteq pub[p].targets
                               /\ pub'[p].targets # {} => pub'[p].env = pub[p].env,
         \A s \in subs' : Heard(s)' =>
           /\ Heard(s) /\ Line(s)' = Line(s)
           /\ conn'[s].since = conn[s].since /\ conn'[s].from = conn[s].from
           /\ ~shut'[s] => ~shut[s] /\ SameFlights(s)
  PROVE  LineInv'
  <1>1. RingInv'
    BY DEF LineInv, RingInv
  <1>2. FlightInv'
    BY DEF LineInv, FlightInv
  <1>3. ASSUME NEW s \in subs', Heard(s)'
        PROVE  conn'[s].since <= Len(log') /\ Replayed(s)' /\ (~shut'[s] => Once(s)')
    <2>1. /\ s \in subs /\ s \in Streams /\ Heard(s) /\ Line(s)' = Line(s)
          /\ conn'[s].since = conn[s].since /\ conn'[s].from = conn[s].from
          /\ ~shut'[s] => ~shut[s]
          /\ ~shut'[s] => SameFlights(s)
      BY <1>3
    <2>2. conn[s].since <= Len(log) /\ Replayed(s) /\ (~shut[s] => Once(s))
      BY <2>1 DEF LineInv, HeardInv
    <2>3. Replayed(s)' /\ (~shut'[s] => Once(s)')
      BY <2>1, <2>2, HeardSame
    <2> QED
      BY <2>1, <2>2, <2>3
  <1>4. HeardInv'
    BY <1>3 DEF HeardInv
  <1> QED
    BY <1>1, <1>2, <1>4 DEF LineInv

LEMMA WriteLine ==
  ASSUME HubTypeOK, LineTypeOK, NEW s \in Streams, NEW e \in Events, NEW out \in Seq(Events),
         Write(s, e, out)
  PROVE  /\ conn' \in [Streams -> Link] /\ last' \in [Clients -> Int]
         /\ conn'[s] = [conn[s] EXCEPT !.out = out, !.sent = IF Heard(s) THEN Append(@, e) ELSE @]
         /\ \A r \in Streams \ {s} : conn'[r] = conn[r]
         /\ conn'[s].pc = conn[s].pc
  <1> DEFINE c == [conn[s] EXCEPT !.out = out, !.sent = IF Heard(s) THEN Append(@, e) ELSE @]
  <1>1. conn[s] \in Link
    BY DEF LineTypeOK
  <1>2. Append(conn[s].sent, e) \in Seq(Events)
    BY LineType, AppendProperties
  <1>3. c \in Link
    BY <1>1, <1>2 DEF Link
  <1>4. conn' = [conn EXCEPT ![s] = c]
    BY DEF Write, LineTypeOK
  <1>5. c.pc = conn[s].pc
    BY <1>1 DEF Link
  <1> HIDE DEF c
  <1>6. /\ conn' \in [Streams -> Link] /\ conn'[s] = c
        /\ \A r \in Streams \ {s} : conn'[r] = conn[r]
    BY <1>3, <1>4 DEF LineTypeOK
  <1>7. e.id \in Int
    BY DEF Events
  <1>8. last' \in [Clients -> Int]
    BY <1>7 DEF Write, LineTypeOK
  <1> QED
    BY <1>5, <1>6, <1>8 DEF c

LEMMA WriteBacklogLine ==
  ASSUME SubsInv, LineInv, NEW s \in Streams, WriteBacklog(s)
  PROVE  LineInv'
  <1>0. HubTypeOK /\ LineTypeOK /\ subs \subseteq Streams
    BY DEF SubsInv, LineInv, HubTypeOK
  <1> DEFINE sent == conn[s].sent
             out == conn[s].out
  <1>1. /\ conn[s].pc = "on" /\ out # <<>> /\ Write(s, Head(out), Tail(out))
        /\ ring' = ring /\ count' = count /\ log' = log /\ subs' = subs /\ pub' = pub
        /\ chan' = chan /\ shut' = shut
    BY DEF WriteBacklog, hub
  <1>2. /\ sent \in Seq(Events) /\ out \in Seq(Events) /\ chan[s] \in Seq(Events)
        /\ Head(out) \in Events /\ Tail(out) \in Seq(Events)
    BY <1>0, <1>1, LineType, HeadTailProperties
  <1>3. /\ conn' \in [Streams -> Link] /\ last' \in [Clients -> Int]
        /\ conn'[s] = [conn[s] EXCEPT !.out = Tail(out),
                                      !.sent = IF Heard(s) THEN Append(@, Head(out)) ELSE @]
        /\ \A r \in Streams \ {s} : conn'[r] = conn[r]
        /\ conn'[s].pc = conn[s].pc
    BY <1>0, <1>1, <1>2, WriteLine
  <1>4. LineTypeOK'
    BY <1>0, <1>1, <1>3 DEF LineTypeOK
  <1>5. /\ conn'[s].link = conn[s].link /\ conn'[s].since = conn[s].since
        /\ conn'[s].from = conn[s].from /\ conn'[s].out = Tail(out)
        /\ Heard(s) => conn'[s].sent = Append(sent, Head(out))
    BY <1>0, <1>3 DEF LineTypeOK, Link
  <1>6. ASSUME Heard(s) PROVE Line(s)' = Line(s)
    <2>1. Append(sent, Head(out)) \o Tail(out) = sent \o out
      BY <1>1, <1>2, MoveHead
    <2>2. Line(s)' = (Append(sent, Head(out)) \o Tail(out)) \o chan[s]
      BY <1>1, <1>5, <1>6 DEF Line
    <2> QED
      BY <2>1, <2>2 DEF Line
  <1>7. \A r \in Streams \ {s} : Line(r)' = Line(r)
    BY <1>1, <1>3 DEF Line
  <1>8. \A r \in Streams : SameFlights(r)
    BY <1>1 DEF SameFlights
  <1>9. ASSUME NEW r \in subs', Heard(r)'
        PROVE  /\ Heard(r) /\ Line(r)' = Line(r)
               /\ conn'[r].since = conn[r].since /\ conn'[r].from = conn[r].from
               /\ ~shut'[r] => ~shut[r] /\ SameFlights(r)
    BY <1>0, <1>1, <1>3, <1>5, <1>6, <1>7, <1>8, <1>9 DEF Heard
  <1> QED
    BY <1>0, <1>1, <1>4, <1>9, QuietStep

LEMMA ForwardLine ==
  ASSUME SubsInv, LineInv, NEW s \in Streams, Forward(s)
  PROVE  LineInv'
  <1>0. HubTypeOK /\ LineTypeOK /\ subs \subseteq Streams
    BY DEF SubsInv, LineInv, HubTypeOK
  <1> DEFINE sent == conn[s].sent
             c == chan[s]
  <1>1. /\ conn[s].pc = "on" /\ conn[s].out = <<>> /\ c # <<>> /\ Write(s, Head(c), <<>>)
        /\ ring' = ring /\ count' = count /\ log' = log /\ subs' = subs /\ pub' = pub
        /\ chan' = [chan EXCEPT ![s] = Tail(@)] /\ shut' = shut
    BY DEF Forward, hub
  <1>2. /\ sent \in Seq(Events) /\ c \in Seq(Events) /\ <<>> \in Seq(Events)
        /\ Head(c) \in Events /\ Tail(c) \in Seq(Events)
    BY <1>0, <1>1, LineType, HeadTailProperties, EmptySeq
  <1>3. /\ conn' \in [Streams -> Link] /\ last' \in [Clients -> Int]
        /\ conn'[s] = [conn[s] EXCEPT !.out = <<>>,
                                      !.sent = IF Heard(s) THEN Append(@, Head(c)) ELSE @]
        /\ \A r \in Streams \ {s} : conn'[r] = conn[r]
        /\ conn'[s].pc = conn[s].pc
    BY <1>0, <1>1, <1>2, WriteLine
  <1>4. chan'[s] = Tail(c) /\ \A r \in Streams \ {s} : chan'[r] = chan[r]
    BY <1>0, <1>1 DEF HubTypeOK
  <1>5. LineTypeOK'
    BY <1>0, <1>1, <1>3, <1>4 DEF LineTypeOK
  <1>6. /\ conn'[s].link = conn[s].link /\ conn'[s].since = conn[s].since
        /\ conn'[s].from = conn[s].from /\ conn'[s].out = <<>>
        /\ Heard(s) => conn'[s].sent = Append(sent, Head(c))
    BY <1>0, <1>3 DEF LineTypeOK, Link
  <1>7. ASSUME Heard(s) PROVE Line(s)' = Line(s)
    <2>1. Append(sent, Head(c)) \o Tail(c) = sent \o c
      BY <1>1, <1>2, MoveHead
    <2>2. Append(sent, Head(c)) \in Seq(Events)
      BY <1>2, AppendProperties
    <2>3. Append(sent, Head(c)) \o <<>> = Append(sent, Head(c)) /\ sent \o <<>> = sent
      BY <1>2, <2>2, ConcatEmptySeq
    <2>4. Line(s)' = (Append(sent, Head(c)) \o <<>>) \o Tail(c) /\ Line(s) = (sent \o <<>>) \o c
      BY <1>1, <1>4, <1>6, <1>7 DEF Line
    <2> QED
      BY <2>1, <2>3, <2>4
  <1>8. \A r \in Streams \ {s} : Line(r)' = Line(r)
    BY <1>3, <1>4 DEF Line
  <1>9. \A r \in Streams : SameFlights(r)
    BY <1>1 DEF SameFlights
  <1>10. ASSUME NEW r \in subs', Heard(r)'
        PROVE  /\ Heard(r) /\ Line(r)' = Line(r)
               /\ conn'[r].since = conn[r].since /\ conn'[r].from = conn[r].from
               /\ ~shut'[r] => ~shut[r] /\ SameFlights(r)
    BY <1>0, <1>1, <1>3, <1>6, <1>7, <1>8, <1>9, <1>10 DEF Heard
  <1> QED
    BY <1>0, <1>1, <1>5, <1>10, QuietStep

\* A step that only moves a handler on, loses a connection or closes channels.
LEMMA CloseLine ==
  ASSUME SubsInv, LineInv, ring' = ring, count' = count, log' = log, pub' = pub, chan' = chan,
         last' = last, subs' \subseteq subs, conn' \in [Streams -> Link],
         \A r \in Streams : /\ conn'[r].pc = "off" => conn[r].pc = "off"
                            /\ shut[r] => shut'[r]
                            /\ Heard(r)' => /\ Heard(r) /\ conn'[r].since = conn[r].since
                                            /\ conn'[r].from = conn[r].from
                                            /\ conn'[r].out = conn[r].out
                                            /\ conn'[r].sent = conn[r].sent
  PROVE  LineInv'
  <1>0. LineTypeOK /\ subs \subseteq Streams
    BY DEF SubsInv, LineInv, HubTypeOK
  <1>1. LineTypeOK'
    BY <1>0 DEF LineTypeOK
  <1>2. ASSUME NEW r \in subs', Heard(r)'
        PROVE  /\ Heard(r) /\ Line(r)' = Line(r)
               /\ conn'[r].since = conn[r].since /\ conn'[r].from = conn[r].from
               /\ ~shut'[r] => ~shut[r] /\ SameFlights(r)
    <2>1. r \in Streams
      BY <1>0
    <2>2. Line(r)' = Line(r)
      BY <1>2, <2>1 DEF Line
    <2>3. SameFlights(r)
      BY DEF SameFlights
    <2> QED
      BY <1>2, <2>1, <2>2, <2>3
  <1> QED
    BY <1>0, <1>1, <1>2, QuietStep

LEMMA LeaveLine == ASSUME SubsInv, LineInv, NEW s \in Streams, Leave(s) \/ RemoveSub(s) PROVE LineInv'
  <1>1. PICK pc \in {"removing", "gone"} : conn' = [conn EXCEPT ![s].pc = pc]
    BY DEF Leave, RemoveSub
  <1>2. conn[s] \in Link /\ conn \in [Streams -> Link]
    BY DEF LineInv, LineTypeOK
  <1>3. [conn[s] EXCEPT !.pc = pc] \in Link
    BY <1>2 DEF Link
  <1>4. /\ conn' \in [Streams -> Link] /\ conn'[s] = [conn[s] EXCEPT !.pc = pc]
        /\ \A r \in Streams \ {s} : conn'[r] = conn[r]
    BY <1>1, <1>2, <1>3
  <1>5. /\ conn'[s].pc # "off" /\ conn'[s].link = conn[s].link /\ conn'[s].since = conn[s].since
        /\ conn'[s].from = conn[s].from /\ conn'[s].out = conn[s].out
        /\ conn'[s].sent = conn[s].sent
    BY <1>1, <1>2, <1>4 DEF Link
  <1>6. /\ ring' = ring /\ count' = count /\ log' = log /\ pub' = pub /\ chan' = chan
        /\ last' = last /\ subs' \subseteq subs
    BY DEF Leave, RemoveSub, hub
  <1>7. \A r \in Streams : shut[r] => shut'[r]
    BY DEF Leave, RemoveSub, SubsInv, HubTypeOK
  <1> QED
    BY <1>4, <1>5, <1>6, <1>7, CloseLine DEF Heard

LEMMA LoseLine == ASSUME SubsInv, LineInv, NEW s \in Streams, Lose(s) PROVE LineInv'
  <1> DEFINE c == [conn[s] EXCEPT !.link = "lost", !.sent = <<>>, !.from = NoId, !.since = 0]
  <1>1. conn[s] \in Link /\ conn \in [Streams -> Link]
    BY DEF LineInv, LineTypeOK
  <1>2. c \in Link /\ c.pc = conn[s].pc /\ c.link = "lost"
    <2>1. <<>> \in Seq(Events) /\ NoId \in Int /\ 0 \in Nat
      BY EmptySeq DEF NoId
    <2>2. c \in Link
      BY <1>1, <2>1 DEF Link
    <2> QED
      BY <1>1, <2>2 DEF Link
  <1>3. conn' = [conn EXCEPT ![s] = c]
    BY <1>1 DEF Lose
  <1> HIDE DEF c
  <1>4. conn' \in [Streams -> Link] /\ conn'[s] = c /\ \A r \in Streams \ {s} : conn'[r] = conn[r]
    BY <1>1, <1>2, <1>3
  <1>5. /\ ring' = ring /\ count' = count /\ log' = log /\ pub' = pub /\ chan' = chan
        /\ last' = last /\ subs' \subseteq subs /\ shut' = shut
    BY DEF Lose, hub
  <1> QED
    BY <1>2, <1>4, <1>5, CloseLine DEF Heard

LEMMA ShutdownLine ==
  ASSUME SubsInv, LineInv, ShutdownLock \/ \E s \in Streams : ShutdownClose(s)
  PROVE  LineInv'
  <1>1. /\ ring' = ring /\ count' = count /\ log' = log /\ pub' = pub /\ chan' = chan
        /\ last' = last /\ subs' \subseteq subs /\ conn' = conn
    BY DEF ShutdownLock, ShutdownClose, streams
  <1>2. \A r \in Streams : shut[r] => shut'[r]
    BY DEF ShutdownLock, ShutdownClose, streams, SubsInv, HubTypeOK
  <1>3. conn' \in [Streams -> Link]
    BY <1>1 DEF LineInv, LineTypeOK
  <1> QED
    BY <1>1, <1>2, <1>3, CloseLine DEF Heard

-----------------------------------------------------------------------------
(* Delivery.                                                               *)

LEMMA LeftFlights ==
  ASSUME HubTypeOK, NEW p \in Publishers, NEW ts \in SUBSET pub[p].targets,
         NEW gone \in SUBSET Streams, Left(p, ts, gone)
  PROVE  /\ pub'[p].targets = ts /\ (ts # {} => pub'[p].env = pub[p].env)
         /\ \A q \in Publishers \ {p} : pub'[q] = pub[q]
         /\ \A q \in Publishers : /\ pub'[q].targets \subseteq pub[q].targets
                                  /\ pub'[q].targets # {} => pub'[q].env = pub[q].env
         /\ \A r \in Streams : (r \in ts <=> r \in pub[p].targets) => SameFlights(r)
  <1>1. ts \in SUBSET Streams
    BY DEF HubTypeOK
  <1>2. pub'[p].targets = ts /\ \A q \in Publishers \ {p} : pub'[q] = pub[q]
    BY <1>1, LeftShape
  <1>3. pub' = [pub EXCEPT ![p] = IF ts \cup gone = {} THEN Idle
                                  ELSE [env |-> pub[p].env, targets |-> ts, dropped |-> gone]]
    BY DEF Left
  <1>4. ts # {} => pub'[p].env = pub[p].env
    BY <1>3 DEF HubTypeOK
  <1>5. \A r \in Streams : (r \in ts <=> r \in pub[p].targets) => SameFlights(r)
    BY <1>2, <1>4 DEF SameFlights
  <1> QED
    BY <1>2, <1>4, <1>5

LEMMA RemoveDroppedLine ==
  ASSUME SubsInv, LineInv, NEW p \in Publishers, RemoveDropped(p)
  PROVE  LineInv'
  <1>0. HubTypeOK /\ LineTypeOK /\ subs \subseteq Streams
    BY DEF SubsInv, LineInv, HubTypeOK
  <1>1. /\ ring' = ring /\ count' = count /\ log' = log /\ chan' = chan /\ shut' = shut
        /\ conn' = conn /\ last' = last /\ subs' \subseteq subs /\ Left(p, pub[p].targets, {})
    BY DEF RemoveDropped, streams
  <1>2. LineTypeOK'
    BY <1>0, <1>1 DEF LineTypeOK
  <1>3. /\ \A q \in Publishers : /\ pub'[q].targets \subseteq pub[q].targets
                                 /\ pub'[q].targets # {} => pub'[q].env = pub[q].env
        /\ \A r \in Streams : SameFlights(r)
    <2>1. pub[p].targets \in SUBSET pub[p].targets /\ {} \in SUBSET Streams
      OBVIOUS
    <2> QED
      BY <1>0, <1>1, <2>1, LeftFlights
  <1>4. \A r \in Streams : Line(r)' = Line(r)
    BY <1>1 DEF Line
  <1>5. ASSUME NEW r \in subs', Heard(r)'
        PROVE  /\ Heard(r) /\ Line(r)' = Line(r)
               /\ conn'[r].since = conn[r].since /\ conn'[r].from = conn[r].from
               /\ ~shut'[r] => ~shut[r] /\ SameFlights(r)
    BY <1>0, <1>1, <1>3, <1>4, <1>5 DEF Heard
  <1> QED
    BY <1>0, <1>1, <1>2, <1>3, <1>5, QuietStep

\* Who is given up has a closed channel.
LEMMA GiveUpLine ==
  ASSUME SubsInv, LineInv, NEW p \in Publishers, NEW s \in Streams,
         Deliver(p, s), GiveUp(p, s), chan' = chan
  PROVE  LineInv'
  <1>0. HubTypeOK /\ LineTypeOK /\ subs \subseteq Streams
    BY DEF SubsInv, LineInv, HubTypeOK
  <1>1. /\ ring' = ring /\ count' = count /\ log' = log /\ subs' = subs
        /\ conn' = conn /\ last' = last /\ Left(p, pub[p].targets \ {s}, {s})
        /\ shut' = [shut EXCEPT ![s] = TRUE]
    BY DEF Deliver, GiveUp, hub
  <1>2. LineTypeOK'
    BY <1>0, <1>1 DEF LineTypeOK
  <1>3. /\ \A q \in Publishers : /\ pub'[q].targets \subseteq pub[q].targets
                                 /\ pub'[q].targets # {} => pub'[q].env = pub[q].env
        /\ \A r \in Streams \ {s} : SameFlights(r)
    <2> DEFINE ts == pub[p].targets \ {s}
    <2>1. /\ ts \in SUBSET pub[p].targets /\ {s} \in SUBSET Streams
          /\ \A r \in Streams \ {s} : r \in ts <=> r \in pub[p].targets
      OBVIOUS
    <2>2. Left(p, ts, {s})
      BY <1>1
    <2> HIDE DEF ts
    <2> QED
      BY <1>0, <2>1, <2>2, LeftFlights
  <1>4. \A r \in Streams : Line(r)' = Line(r)
    BY <1>1 DEF Line
  <1>5. shut'[s] /\ \A r \in Streams \ {s} : shut'[r] = shut[r]
    BY <1>0, <1>1 DEF HubTypeOK
  <1>6. ASSUME NEW r \in subs', Heard(r)'
        PROVE  /\ Heard(r) /\ Line(r)' = Line(r)
               /\ conn'[r].since = conn[r].since /\ conn'[r].from = conn[r].from
               /\ ~shut'[r] => ~shut[r] /\ SameFlights(r)
    BY <1>0, <1>1, <1>3, <1>4, <1>5, <1>6 DEF Heard
  <1> QED
    BY <1>0, <1>1, <1>2, <1>3, <1>6, QuietStep

\* An event that is put into a channel is the end of the line.
LEMMA PutExtends ==
  ASSUME HubTypeOK, LineTypeOK, NEW s \in Streams, NEW e \in Events,
         chan' = [chan EXCEPT ![s] = Append(@, e)], conn' = conn
  PROVE  /\ Line(s)' = Append(Line(s), e)
         /\ DOMAIN Line(s) = 1 .. Len(Line(s)) /\ Len(Line(s)) \in Nat
         /\ DOMAIN Line(s)' = 1 .. Len(Line(s)) + 1
         /\ Line(s)'[Len(Line(s)) + 1] = e
         /\ \A i \in DOMAIN Line(s) : Line(s)'[i] = Line(s)[i]
         /\ \A r \in Streams \ {s} : Line(r)' = Line(r)
  <1> DEFINE x == conn[s].sent \o conn[s].out
             c == chan[s]
  <1>1. x \in Seq(Events) /\ c \in Seq(Events) /\ <<e>> \in Seq(Events) /\ Line(s) \in Seq(Events)
    BY LineType, ConcatProperties
  <1>2. Line(s)' = x \o Append(c, e) /\ Line(s) = x \o c
    BY DEF Line, HubTypeOK
  <1> HIDE DEF x, c
  <1>3. x \o c \in Seq(Events)
    BY <1>1, <1>2
  <1>4. Append(c, e) = c \o <<e>> /\ Append(x \o c, e) = (x \o c) \o <<e>>
    BY <1>1, <1>3, AppendIsConcat
  <1>5. (x \o c) \o <<e>> = x \o (c \o <<e>>)
    BY <1>1, ConcatAssociative
  <1>6. Line(s)' = Append(Line(s), e)
    BY <1>2, <1>4, <1>5
  <1>7. \A r \in Streams \ {s} : Line(r)' = Line(r)
    BY DEF Line, HubTypeOK
  <1> DEFINE L == Line(s)
             A == Append(L, e)
  <1>8. /\ A \in Seq(Events) /\ Len(A) = Len(L) + 1 /\ A[Len(L) + 1] = e
        /\ \A i \in 1 .. Len(L) : A[i] = L[i]
    BY <1>1, AppendProperties
  <1>9. DOMAIN L = 1 .. Len(L) /\ Len(L) \in Nat /\ DOMAIN A = 1 .. Len(A)
    BY <1>1, <1>8, LenProperties
  <1> HIDE DEF A, L
  <1>10. Line(s)' = A /\ Line(s) = L
    BY <1>6 DEF A, L
  <1> QED
    BY <1>6, <1>7, <1>8, <1>9, <1>10

LEMMA MissedType ==
  ASSUME HubTypeOK, NEW s \in Streams, conn[s].since \in Nat, conn[s].since <= Len(log),
         NEW k \in 1 .. conn[s].since
  PROVE  Missed(s, k) \in Seq(Events)
  <1>1. /\ k + 1 \in Int /\ conn[s].since \in Int
        /\ \A i \in k + 1 .. conn[s].since : i \in 1 .. Len(log)
    BY DEF HubTypeOK
  <1>2. \A i \in 1 .. Len(log) : log[i] \in Events
    BY ElementOfSeq DEF HubTypeOK
  <1>3. SubSeq(log, k + 1, conn[s].since) \in Seq(Events)
    BY <1>1, <1>2, SubSeqProperties
  <1> QED
    BY <1>3, RelevantType DEF Missed

LEMMA PutReplayed ==
  ASSUME HubTypeOK, LineTypeOK, NEW s \in Streams, NEW e \in Events, Replayed(s),
         conn[s].since <= Len(log),
         chan' = [chan EXCEPT ![s] = Append(@, e)], conn' = conn, log' = log
  PROVE  Replayed(s)'
  <1>1. /\ Line(s) \in Seq(Events) /\ Line(s)' = Append(Line(s), e) /\ conn[s].since \in Nat
        /\ <<e>> \in Seq(Events)
    <2>1. Line(s)' = Append(Line(s), e)
      BY PutExtends
    <2>2. <<e>> \in Seq(Events)
      OBVIOUS
    <2> QED
      BY <2>1, <2>2, LineType
  <1>2. CASE conn[s].from = NoId
    BY <1>2 DEF Replayed
  <1>3. CASE Line(s) # <<>> /\ Head(Line(s)) = Resync
    <2>1. Line(s)' # <<>> /\ Head(Line(s)') = Resync
      BY <1>1, <1>3, AppendProperties, HeadTailAppend
    <2> QED
      BY <2>1 DEF Replayed
  <1>4. CASE \E k \in 1 .. conn[s].since :
               log[k].id = conn[s].from /\ \E rest \in Seq(Events) : Line(s) = Missed(s, k) \o rest
    <2>1. PICK k \in 1 .. conn[s].since, rest \in Seq(Events) :
            log[k].id = conn[s].from /\ Line(s) = Missed(s, k) \o rest
      BY <1>4
    <2> DEFINE m == Missed(s, k)
               more == rest \o <<e>>
    <2>2. m \in Seq(Events)
      BY <1>1, MissedType
    <2>3. Missed(s, k)' = m
      BY DEF Missed
    <2> HIDE DEF m
    <2>4. Append(Line(s), e) = Line(s) \o <<e>> /\ (m \o rest) \o <<e>> = m \o more
      <3>1. Append(Line(s), e) = Line(s) \o <<e>>
        BY <1>1, AppendIsConcat
      <3>2. (m \o rest) \o <<e>> = m \o (rest \o <<e>>)
        BY <1>1, <2>2, ConcatAssociative
      <3> QED
        BY <3>1, <3>2
    <2>5. Line(s)' = m \o more /\ more \in Seq(Events)
      BY <1>1, <2>1, <2>4, ConcatProperties DEF m
    <2> HIDE DEF more
    <2>6. \E r \in Seq(Events) : Line(s)' = Missed(s, k)' \o r
      BY <2>3, <2>5
    <2>7. k \in 1 .. conn'[s].since /\ log'[k].id = conn'[s].from
      BY <2>1
    <2> QED
      BY <2>6, <2>7 DEF Replayed
  <1> QED
    BY <1>2, <1>3, <1>4 DEF Replayed

LEMMA PutOnce ==
  ASSUME SubsInv, LineInv, NEW p \in Publishers, NEW s \in Streams, Once(s),
         s \in pub[p].targets, Put(p, s), conn' = conn, log' = log
  PROVE  Once(s)'
  <1>0. HubTypeOK /\ LineTypeOK /\ pub[p].env \in Events
    BY DEF SubsInv, LineInv, HubTypeOK
  <1> DEFINE e == pub[p].env
             n == Len(Line(s))
             In(x) == \E j \in DOMAIN Line(s)' : Line(s)'[j] = x
             On(x) == \E q \in Publishers : s \in pub'[q].targets /\ pub'[q].env = x
  <1>1. /\ DOMAIN Line(s) = 1 .. n /\ n \in Nat /\ DOMAIN Line(s)' = 1 .. n + 1
        /\ Line(s)'[n + 1] = e /\ \A i \in DOMAIN Line(s) : Line(s)'[i] = Line(s)[i]
    BY <1>0, PutExtends DEF Put
  <1>2. /\ pub'[p].targets = pub[p].targets \ {s}
        /\ \A q \in Publishers \ {p} : pub'[q] = pub[q]
    <2>1. pub[p].targets \ {s} \in SUBSET pub[p].targets /\ {} \in SUBSET Streams
      OBVIOUS
    <2> QED
      BY <1>0, <2>1, LeftFlights DEF Put
  <1>3. /\ e.id > conn[s].since /\ ~InLine(s, e) /\ e.id \in 1 .. Len(log)
        /\ \A q \in Publishers \ {p} : s \in pub[q].targets => pub[q].env # e
    BY DEF Once, LineInv, FlightInv
  <1> HIDE DEF n
  <1>4. ASSUME NEW x PROVE In(x) <=> (InLine(s, x) \/ x = e)
    BY <1>1 DEF InLine
  <1>5. ASSUME NEW x PROVE Flying(s, x) => On(x) \/ x = e
    BY <1>2 DEF Flying
  <1>6. ASSUME NEW i \in conn'[s].since + 1 .. Len(log'), Wanted(s, log'[i])
        PROVE  In(log'[i]) \/ On(log'[i])
    <2>1. InLine(s, log[i]) \/ Flying(s, log[i])
      BY <1>6 DEF Once
    <2> HIDE DEF In, On, e
    <2> QED
      BY <1>4, <1>5, <2>1
  <1>7. ASSUME NEW i \in DOMAIN Line(s)'
        PROVE  /\ Line(s)'[i].id <= Len(log')
               /\ Line(s)'[i].id > conn'[s].since =>
                    \A j \in DOMAIN Line(s)' \ {i} : Line(s)'[j] # Line(s)'[i]
    <2>1. CASE i = n + 1
      <3>1. Line(s)'[i] = e /\ \A j \in DOMAIN Line(s)' \ {i} : j \in DOMAIN Line(s) /\ Line(s)[j] # e
        BY <1>1, <1>3, <2>1 DEF InLine
      <3> QED
        BY <1>1, <1>3, <3>1
    <2>2. CASE i \in 1 .. n
      <3>1. Line(s)'[i] = Line(s)[i] /\ Line(s)[i] # e /\ Line(s)[i].id <= Len(log)
        BY <1>1, <1>3, <2>2 DEF InLine, Once
      <3>2. Line(s)[i].id > conn[s].since => \A j \in DOMAIN Line(s) \ {i} : Line(s)[j] # Line(s)[i]
        BY <1>1, <2>2 DEF Once
      <3>3. \A j \in DOMAIN Line(s)' \ {i} : j = n + 1 \/ (j \in DOMAIN Line(s) \ {i} /\ Line(s)'[j] = Line(s)[j])
        BY <1>1, <2>2
      <3> QED
        BY <1>1, <3>1, <3>2, <3>3
    <2>3. i = n + 1 \/ i \in 1 .. n
      BY <1>1
    <2> QED
      BY <2>1, <2>2, <2>3
  <1>8. ASSUME NEW q \in Publishers, s \in pub'[q].targets
        PROVE  pub'[q].env.id > conn'[s].since /\ ~In(pub'[q].env)
    <2>1. q # p /\ s \in pub[q].targets /\ pub'[q].env = pub[q].env
      BY <1>2, <1>8
    <2>2. pub[q].env # e /\ pub[q].env.id > conn[s].since /\ ~InLine(s, pub[q].env)
      BY <1>3, <2>1 DEF Once
    <2> HIDE DEF e, In
    <2>3. ~In(pub[q].env)
      BY <1>4, <2>2
    <2> QED
      BY <2>1, <2>2, <2>3
  <1> HIDE DEF e
  <1> QED
    BY <1>6, <1>7, <1>8 DEF Once, InLine, Flying

LEMMA DeliverLine ==
  ASSUME SubsInv, LineInv, NEW p \in Publishers, NEW s \in Streams, Deliver(p, s)
  PROVE  LineInv'
  <1>0. HubTypeOK /\ LineTypeOK /\ subs \subseteq Streams /\ pub[p].env \in Events
    BY DEF SubsInv, LineInv, HubTypeOK
  <1>1. CASE GiveUp(p, s) /\ UNCHANGED chan
    BY <1>1, GiveUpLine
  <1>2. CASE ~shut[s] /\ Put(p, s) /\ UNCHANGED shut
    <2>1. /\ ring' = ring /\ count' = count /\ log' = log /\ subs' = subs /\ shut' = shut
          /\ conn' = conn /\ last' = last /\ Left(p, pub[p].targets \ {s}, {})
          /\ chan' = [chan EXCEPT ![s] = Append(@, pub[p].env)] /\ s \in pub[p].targets
      BY <1>2 DEF Deliver, Delivering, Put, hub
    <2>2. /\ \A q \in Publishers : /\ pub'[q].targets \subseteq pub[q].targets
                                   /\ pub'[q].targets # {} => pub'[q].env = pub[q].env
          /\ \A r \in Streams \ {s} : SameFlights(r)
      <3> DEFINE ts == pub[p].targets \ {s}
      <3>1. /\ ts \in SUBSET pub[p].targets /\ {} \in SUBSET Streams
            /\ \A r \in Streams \ {s} : r \in ts <=> r \in pub[p].targets
        OBVIOUS
      <3>2. Left(p, ts, {})
        BY <2>1
      <3> HIDE DEF ts
      <3> QED
        BY <1>0, <3>1, <3>2, LeftFlights
    <2>3. LineTypeOK'
      <3>1. conn[s].pc # "off"
        BY <2>1 DEF SubsInv, Unmade
      <3>2. \A r \in Streams \ {s} : chan'[r] = chan[r]
        BY <1>0, <2>1 DEF HubTypeOK
      <3> QED
        BY <1>0, <2>1, <3>1, <3>2 DEF LineTypeOK
    <2>4. RingInv' /\ FlightInv'
      BY <2>1, <2>2 DEF LineInv, RingInv, FlightInv
    <2>5. ASSUME NEW r \in subs', Heard(r)'
          PROVE  conn'[r].since <= Len(log') /\ Replayed(r)' /\ (~shut'[r] => Once(r)')
      <3>1. conn[r].since <= Len(log) /\ Replayed(r) /\ (~shut[r] => Once(r)) /\ r \in Streams
        BY <1>0, <2>1, <2>5 DEF LineInv, HeardInv, Heard
      <3>2. CASE r = s
        <4>1. Replayed(s)'
          BY <1>0, <2>1, <3>1, <3>2, PutReplayed
        <4>2. Once(s)'
          BY <1>2, <2>1, <3>1, <3>2, PutOnce
        <4> QED
          BY <2>1, <3>1, <3>2, <4>1, <4>2
      <3>3. CASE r # s
        <4>1. Line(r)' = Line(r)
          BY <1>0, <2>1, <3>1, <3>3, PutExtends
        <4>2. SameFlights(r)
          BY <2>2, <3>1, <3>3
        <4>3. Replayed(r)' /\ (~shut'[r] => Once(r)')
          BY <2>1, <3>1, <4>1, <4>2, HeardSame
        <4> QED
          BY <2>1, <3>1, <4>3
      <3> QED
        BY <3>2, <3>3
    <2>6. HeardInv'
      BY <2>5 DEF HeardInv
    <2> QED
      BY <2>3, <2>4, <2>6 DEF LineInv
  <1> QED
    BY <1>1, <1>2 DEF Deliver

-----------------------------------------------------------------------------
(* Publication.                                                            *)

\* Numbers less than n apart are different modulo n.
LEMMA ModDiffer ==
  ASSUME NEW n \in Nat \ {0}, NEW a \in Nat, NEW b \in Nat, a < b, b < a + n
  PROVE  a % n # b % n
  <1> DEFINE qa == a \div n
             qb == b \div n
  <1>1. qa \in Int /\ qb \in Int /\ a % n \in Int /\ b % n \in Int
    OBVIOUS
  <1>2. a = n * (a \div n) + (a % n) /\ b = n * (b \div n) + (b % n)
    BY Z3
  <1>3. a = n * qa + (a % n) /\ b = n * qb + (b % n)
    BY <1>2
  <1> HIDE DEF qa, qb
  <1> SUFFICES ASSUME a % n = b % n PROVE FALSE
    OBVIOUS
  <1> DEFINE k == qb - qa
  <1>4. b - a = n * k /\ k \in Int
    BY <1>1, <1>3
  <1> HIDE DEF k
  <1>5. CASE k <= 0
    <2>1. n * k <= 0
      BY <1>4, <1>5
    <2> QED
      BY <1>4, <2>1
  <1>6. CASE k >= 1
    <2>1. n * k >= n
      BY <1>4, <1>6
    <2> QED
      BY <1>4, <2>1
  <1> QED
    BY <1>4, <1>5, <1>6

LEMMA PublishRing ==
  ASSUME HubTypeOK, LineTypeOK, RingInv, NEW e \in Events, e.id = Len(log) + 1,
         ring' = [ring EXCEPT ![count % Cap] = e], count' = count + 1, log' = Append(log, e)
  PROVE  /\ RingInv' /\ ring' \in [0 .. Cap - 1 -> Events] /\ count' \in Nat
         /\ Len(log') = Len(log) + 1 /\ Len(log) \in Nat /\ log'[Len(log) + 1] = e
         /\ \A i \in 1 .. Len(log) : log'[i] = log[i]
  <1>0. Cap \in Nat \ {0}
    BY HubAssumption
  <1>1. /\ Len(log) \in Nat /\ count \in Nat /\ log \in Seq(Events) /\ count <= Len(log)
        /\ ring \in [0 .. Cap - 1 -> Events]
    BY DEF HubTypeOK, LineTypeOK, RingInv
  <1>2. /\ Len(log') = Len(log) + 1 /\ log'[Len(log) + 1] = e
        /\ \A i \in 1 .. Len(log) : log'[i] = log[i]
    BY <1>1, AppendProperties
  <1>3. count % Cap \in 0 .. Cap - 1
    BY <1>0, <1>1
  <1>4. ring' \in [0 .. Cap - 1 -> Events] /\ ring'[count % Cap] = e
        /\ \A i \in 0 .. Cap - 1 : i # count % Cap => ring'[i] = ring[i]
    BY <1>1, <1>3
  <1> DEFINE n == Len(log)
  <1>5. ASSUME NEW j \in 1 .. count + 1, (count + 1) - Cap < j
        PROVE  ring'[(j - 1) % Cap] = log'[(n + 1) - (count + 1) + j]
    <2>1. CASE j = count + 1
      <3>1. j - 1 = count /\ (n + 1) - (count + 1) + j = n + 1
        BY <1>1, <2>1
      <3> QED
        BY <1>2, <1>4, <3>1
    <2>2. CASE j \in 1 .. count
      <3> DEFINE a == j - 1
      <3>1. a \in Nat /\ a < count /\ count < a + Cap /\ count - Cap < j
        BY <1>0, <1>1, <1>5, <2>2
      <3>2. a % Cap # count % Cap
        BY <1>0, <1>1, <3>1, ModDiffer
      <3>3. a % Cap \in 0 .. Cap - 1
        BY <1>0, <3>1
      <3>4. ring'[a % Cap] = ring[a % Cap]
        BY <1>4, <3>2, <3>3
      <3>5. ring[(j - 1) % Cap] = log[n - count + j]
        BY <2>2, <3>1 DEF RingInv
      <3>6. n - count + j \in 1 .. n /\ (n + 1) - (count + 1) + j = n - count + j
        BY <1>1, <2>2
      <3> QED
        BY <1>2, <3>4, <3>5, <3>6
    <2> QED
      BY <1>1, <2>1, <2>2
  <1>6. \A i \in 1 .. n + 1 : log'[i].id = i
    BY <1>1, <1>2 DEF RingInv
  <1>7. count' <= Len(log') /\ count' \in Nat
    BY <1>1, <1>2
  <1>8. \A j \in 1 .. count' : count' - Cap < j => ring'[(j - 1) % Cap] = log'[Len(log') - count' + j]
    <2> SUFFICES ASSUME NEW j \in 1 .. count', count' - Cap < j
                 PROVE  ring'[(j - 1) % Cap] = log'[Len(log') - count' + j]
      OBVIOUS
    <2>0. count' = count + 1
      OBVIOUS
    <2>1. j \in 1 .. count + 1 /\ (count + 1) - Cap < j
      BY <1>0, <1>1, <2>0
    <2>2. ring'[(j - 1) % Cap] = log'[(n + 1) - (count + 1) + j]
      BY <1>5, <2>1
    <2>3. Len(log') - count' + j = (n + 1) - (count + 1) + j
      BY <1>2
    <2> QED
      BY <2>2, <2>3
  <1>9. \A i \in 1 .. Len(log') : log'[i].id = i
    BY <1>2, <1>6
  <1> QED
    BY <1>1, <1>2, <1>4, <1>7, <1>8, <1>9 DEF RingInv

\* What was missed stays what it was when the log grows.
LEMMA MissedKept ==
  ASSUME HubTypeOK, NEW s \in Streams, conn[s].since \in Nat, conn[s].since <= Len(log),
         NEW k \in 1 .. conn[s].since, NEW e \in Events, log' = Append(log, e), conn' = conn
  PROVE  Missed(s, k)' = Missed(s, k)
  <1> DEFINE n == conn[s].since
  <1>1. log \in Seq(Events) /\ <<e>> \in Seq(Events) /\ Append(log, e) = log \o <<e>>
    BY AppendIsConcat DEF HubTypeOK
  <1>2. SubSeq(Append(log, e), k + 1, n) = SubSeq(log, k + 1, n)
    <2>0. k = n \/ k < n
      OBVIOUS
    <2>1. CASE k = n
      BY <2>1, SubSeqEmpty
    <2>2. CASE k < n
      <3>1. k + 1 \in 1 .. Len(log) /\ n \in 1 .. Len(log)
        BY <1>1, <2>2, LenProperties
      <3> HIDE DEF n
      <3> QED
        BY <1>1, <3>1, SubSeqOfConcat1
    <2> QED
      BY <2>0, <2>1, <2>2
  <1>3. SubSeq(log', k + 1, conn'[s].since) = SubSeq(log, k + 1, conn[s].since)
    BY <1>2
  <1> QED
    BY <1>3 DEF Missed

LEMMA PublishReplayed ==
  ASSUME HubTypeOK, LineTypeOK, NEW s \in Streams, NEW e \in Events, Replayed(s),
         conn[s].since <= Len(log), log' = Append(log, e), conn' = conn, chan' = chan
  PROVE  Replayed(s)'
  <1>1. /\ conn[s].since \in Nat /\ Line(s)' = Line(s) /\ Len(log) \in Nat
        /\ \A i \in 1 .. Len(log) : log'[i] = log[i]
    BY LineType, AppendProperties DEF Line, HubTypeOK
  <1>2. CASE conn[s].from = NoId \/ (Line(s) # <<>> /\ Head(Line(s)) = Resync)
    BY <1>1, <1>2 DEF Replayed
  <1>3. CASE \E k \in 1 .. conn[s].since :
               log[k].id = conn[s].from /\ \E rest \in Seq(Events) : Line(s) = Missed(s, k) \o rest
    <2>1. PICK k \in 1 .. conn[s].since : /\ log[k].id = conn[s].from
                                         /\ \E rest \in Seq(Events) : Line(s) = Missed(s, k) \o rest
      BY <1>3
    <2>2. Missed(s, k)' = Missed(s, k)
      BY <1>1, MissedKept
    <2>3. log'[k] = log[k]
      BY <1>1
    <2>4. \E rest \in Seq(Events) : Line(s)' = Missed(s, k)' \o rest
      BY <1>1, <2>1, <2>2
    <2> QED
      BY <2>1, <2>3, <2>4 DEF Replayed
  <1> QED
    BY <1>2, <1>3 DEF Replayed

LEMMA PublishOnce ==
  ASSUME SubsInv, LineInv, NEW p \in Publishers, NEW t \in Topics, Publish(p, t),
         NEW s \in subs, conn[s].since <= Len(log), Once(s)
  PROVE  Once(s)'
  <1>0. HubTypeOK /\ LineTypeOK /\ s \in Streams
    BY DEF SubsInv, LineInv, HubTypeOK
  <1> DEFINE n == Len(log)
             e == [id |-> n + 1, topic |-> t]
             ts == {r \in subs : Wanted(r, e)}
             On(x) == \E q \in Publishers : s \in pub'[q].targets /\ pub'[q].env = x
  <1>1. /\ log' = Append(log, e) /\ conn' = conn /\ chan' = chan
        /\ pub[p].targets = {}
        /\ pub' = IF ts = {} THEN pub ELSE [pub EXCEPT ![p] = [env |-> e, targets |-> ts, dropped |-> {}]]
    BY DEF Publish, streams, Idle
  <1>2. log \in Seq(Events) /\ n \in Nat /\ e \in Events /\ e.id = n + 1 /\ conn[s].since \in Nat
    <2>1. log \in Seq(Events) /\ n \in Nat
      BY <1>0 DEF HubTypeOK
    <2>2. e \in Events /\ e.id = n + 1
      BY <2>1 DEF Events
    <2>3. conn[s].since \in Nat
      BY <1>0, LineType
    <2> QED
      BY <2>1, <2>2, <2>3
  <1>3. /\ Len(log') = n + 1 /\ log'[n + 1] = e
        /\ \A i \in 1 .. n : log'[i] = log[i]
    BY <1>1, <1>2, AppendProperties
  <1>4. Line(s)' = Line(s)
    BY <1>1 DEF Line
  <1>5. /\ \A q \in Publishers \ {p} : pub'[q] = pub[q]
        /\ s \in ts => s \in pub'[p].targets /\ pub'[p].env = e
        /\ s \in pub'[p].targets => pub'[p].env = e
    BY <1>0, <1>1 DEF HubTypeOK
  <1>6. s \in ts <=> Wanted(s, e)
    OBVIOUS
  <1> HIDE DEF n, e, ts
  <1>7. ASSUME NEW i \in conn'[s].since + 1 .. Len(log'), Wanted(s, log'[i])
        PROVE  InLine(s, log'[i]) \/ On(log'[i])
    <2>1. CASE i = n + 1
      BY <1>3, <1>5, <1>6, <1>7, <2>1
    <2>2. CASE i # n + 1
      <3>1. i \in conn[s].since + 1 .. n /\ i \in 1 .. n
        BY <1>1, <1>2, <1>3, <2>2
      <3>2. log'[i] = log[i]
        BY <1>3, <3>1
      <3>3. InLine(s, log[i]) \/ Flying(s, log[i])
        BY <1>7, <3>1, <3>2 DEF Once, n
      <3>4. Flying(s, log[i]) => On(log[i])
        BY <1>1, <1>5 DEF Flying
      <3> QED
        BY <3>2, <3>3, <3>4
    <2> QED
      BY <2>1, <2>2
  <1>8. ASSUME NEW i \in DOMAIN Line(s)
        PROVE  /\ Line(s)[i].id <= n /\ Line(s)[i].id \in Int
               /\ Line(s)[i].id > conn[s].since => \A j \in DOMAIN Line(s) \ {i} : Line(s)[j] # Line(s)[i]
    <2>1. Line(s)[i] \in Events
      <3>1. Line(s) \in Seq(Events) /\ i \in 1 .. Len(Line(s))
        BY <1>0, LineType, LenProperties
      <3> QED
        BY <3>1, ElementOfSeq
    <2> QED
      BY <2>1 DEF Once, n, Events
  <1>9. ASSUME NEW q \in Publishers, s \in pub'[q].targets
        PROVE  pub'[q].env.id > conn[s].since /\ ~InLine(s, pub'[q].env)
    <2>1. CASE q = p
      <3>1. pub'[q].env = e
        BY <1>5, <1>9, <2>1
      <3>2. \A i \in DOMAIN Line(s) : Line(s)[i] # e
        BY <1>2, <1>8
      <3> QED
        BY <1>2, <3>1, <3>2 DEF InLine, n
    <2>2. CASE q # p
      BY <1>5, <1>9, <2>2 DEF Once
    <2> QED
      BY <2>1, <2>2
  <1>10. \A x : InLine(s, x) <=> \E j \in DOMAIN Line(s)' : Line(s)'[j] = x
    BY <1>4 DEF InLine
  <1>11. \A i \in DOMAIN Line(s)' :
           /\ Line(s)'[i].id <= Len(log')
           /\ Line(s)'[i].id > conn'[s].since =>
                \A j \in DOMAIN Line(s)' \ {i} : Line(s)'[j] # Line(s)'[i]
    BY <1>1, <1>2, <1>3, <1>4, <1>8
  <1> QED
    BY <1>1, <1>7, <1>9, <1>10, <1>11 DEF Once, InLine, Flying

LEMMA PublishLine ==
  ASSUME SubsInv, LineInv, NEW p \in Publishers, NEW t \in Topics, Publish(p, t)
  PROVE  LineInv'
  <1>0. HubTypeOK /\ LineTypeOK /\ RingInv /\ subs \subseteq Streams
    BY DEF SubsInv, LineInv, HubTypeOK
  <1> DEFINE n == Len(log)
             e == [id |-> n + 1, topic |-> t]
             ts == {r \in subs : Wanted(r, e)}
  <1>1. /\ log' = Append(log, e) /\ conn' = conn /\ chan' = chan /\ last' = last /\ shut' = shut
        /\ ring' = [ring EXCEPT ![count % Cap] = e] /\ count' = count + 1 /\ subs' = subs
        /\ pub[p].targets = {}
        /\ pub' = IF ts = {} THEN pub ELSE [pub EXCEPT ![p] = [env |-> e, targets |-> ts, dropped |-> {}]]
    BY DEF Publish, streams, Idle
  <1>2. e \in Events /\ e.id = n + 1
    BY <1>0 DEF HubTypeOK, Events
  <1>3. /\ RingInv' /\ ring' \in [0 .. Cap - 1 -> Events] /\ count' \in Nat
        /\ Len(log') = n + 1 /\ n \in Nat
    BY <1>0, <1>1, <1>2, PublishRing
  <1>4. LineTypeOK'
    BY <1>0, <1>1, <1>3 DEF LineTypeOK
  <1>5. /\ \A q \in Publishers \ {p} : pub'[q] = pub[q]
        /\ pub'[p].targets # {} => pub'[p].env = e
    BY <1>0, <1>1 DEF HubTypeOK
  <1>6. \A q \in Publishers : pub[q].targets # {} => pub[q].env.id \in 1 .. n /\ pub[q].env # e
    BY <1>2 DEF LineInv, FlightInv
  <1> HIDE DEF e, n, ts
  <1>7. FlightInv'
    <2> SUFFICES ASSUME NEW q \in Publishers, pub'[q].targets # {}
                 PROVE  /\ pub'[q].env.id \in 1 .. Len(log')
                        /\ \A r \in Publishers \ {q} : pub'[r].targets # {} => pub'[r].env # pub'[q].env
      BY DEF FlightInv
    <2>1. CASE q = p
      BY <1>2, <1>3, <1>5, <1>6, <2>1
    <2>2. CASE q # p
      <3>1. pub'[q] = pub[q] /\ pub[q].targets # {} /\ pub[q].env.id \in 1 .. n /\ pub[q].env # e
        BY <1>5, <1>6, <2>2
      <3>2. \A r \in Publishers \ {q} : pub[r].targets # {} => pub[r].env # pub[q].env
        BY <3>1 DEF LineInv, FlightInv
      <3> QED
        BY <1>3, <1>5, <3>1, <3>2
    <2> QED
      BY <2>1, <2>2
  <1>8. ASSUME NEW r \in subs', Heard(r)'
        PROVE  conn'[r].since <= Len(log') /\ Replayed(r)' /\ (~shut'[r] => Once(r)')
    <2>1. /\ r \in subs /\ r \in Streams /\ conn[r].since <= n /\ Replayed(r)
          /\ ~shut[r] => Once(r)
      BY <1>0, <1>1, <1>8 DEF LineInv, HeardInv, Heard, n
    <2>2. conn[r].since \in Nat
      BY <1>0, <2>1, LineType
    <2>3. Replayed(r)'
      BY <1>0, <1>1, <1>2, <2>1, PublishReplayed DEF n
    <2>4. ~shut'[r] => Once(r)'
      BY <1>1, <2>1, PublishOnce DEF n
    <2> QED
      BY <1>1, <1>3, <2>1, <2>2, <2>3, <2>4
  <1>9. HeardInv'
    BY <1>8 DEF HeardInv
  <1> QED
    BY <1>3, <1>4, <1>7, <1>9 DEF LineInv

-----------------------------------------------------------------------------
(* Replay.                                                                 *)

\* What the log has so far.
Sofar == {e \in Events : e.id <= Len(log)}

\* The ring shows the end of the log.
LEMMA WindowOfLog ==
  ASSUME HubTypeOK, LineTypeOK, RingInv
  PROVE  /\ Size \in Nat /\ Size <= Len(log) /\ Window \in Seq(Sofar) /\ Len(Window) = Size
         /\ \A i \in 1 .. Size : Window[i] = log[Len(log) - Size + i] /\ Window[i] \in Sofar
  <1>0. /\ Cap \in Nat \ {0} /\ count \in Nat /\ count <= Len(log) /\ Len(log) \in Nat
        /\ \A i \in 1 .. Len(log) : log[i] \in Events
    BY HubAssumption, ElementOfSeq DEF HubTypeOK, LineTypeOK, RingInv
  <1>1. Size \in Nat /\ Size <= count /\ Size <= Cap
    BY <1>0 DEF Size
  <1>2. ASSUME NEW i \in 1 .. Size
        PROVE  Window[i] = log[Len(log) - Size + i] /\ Window[i] \in Sofar
    <2> DEFINE j == count - Size + i
    <2>1. j \in 1 .. count /\ count - Cap < j
      BY <1>0, <1>1
    <2>2. ring[(j - 1) % Cap] = log[Len(log) - count + j]
      BY <2>1 DEF RingInv
    <2>3. /\ count - Size + i - 1 = j - 1 /\ Len(log) - count + j = Len(log) - Size + i
          /\ Len(log) - Size + i \in 1 .. Len(log)
      BY <1>0, <1>1
    <2>4. Window[i] = ring[(j - 1) % Cap]
      BY <2>3 DEF Window
    <2> HIDE DEF j
    <2>5. Window[i] = log[Len(log) - Size + i]
      BY <2>2, <2>3, <2>4
    <2>6. log[Len(log) - Size + i] \in Events /\ log[Len(log) - Size + i].id <= Len(log)
      BY <1>0, <2>3 DEF RingInv
    <2> QED
      BY <2>5, <2>6 DEF Sofar
  <1>3. Window \in [1 .. Size -> Sofar]
    <2>1. DOMAIN Window = 1 .. Size /\ Window = [i \in 1 .. Size |-> Window[i]]
      BY DEF Window
    <2> QED
      BY <1>2, <2>1
  <1>4. Window \in Seq(Sofar) /\ Len(Window) = Size
    <2> HIDE DEF Window
    <2>1. Window \in Seq(Sofar)
      BY <1>1, <1>3, IsASeq
    <2> QED
      BY <1>1, <1>3, <2>1, LenProperties
  <1> QED
    BY <1>0, <1>1, <1>2, <1>4

LEMMA AfterInLog ==
  ASSUME HubTypeOK, LineTypeOK, RingInv, NEW s, NEW i \in 1 .. Size
  PROVE  /\ Len(log) - Size + i \in 1 .. Len(log)
         /\ Window[i] = log[Len(log) - Size + i]
         /\ After(s, i) = Relevant(s, SubSeq(log, (Len(log) - Size + i) + 1, Len(log)))
         /\ After(s, i) \in Seq(Sofar)
  <1> DEFINE n == Len(log)
             k == n - Size + i
             W == Window
             a == SubSeq(W, i + 1, Size)
             b == SubSeq(log, k + 1, n)
  <1>1. /\ Size \in Nat /\ Size <= n /\ n \in Nat
        /\ \A j \in 1 .. Size : W[j] = log[n - Size + j] /\ W[j] \in Sofar
    BY WindowOfLog DEF HubTypeOK
  <1> HIDE DEF n, W
  <1>2. k \in 1 .. n /\ i + 1 \in Int /\ Size \in Int /\ n \in Int /\ k + 1 \in Int
    BY <1>1
  <1>3. /\ \A j \in i + 1 .. Size : W[j] \in Sofar
        /\ \A j \in k + 1 .. n : log[j] \in Sofar
    <2>1. \A j \in i + 1 .. Size : j \in 1 .. Size
      BY <1>1
    <2>2. ASSUME NEW j \in k + 1 .. n PROVE log[j] \in Sofar
      <3>1. j - (n - Size) \in 1 .. Size /\ n - Size + (j - (n - Size)) = j
        BY <1>1
      <3> QED
        BY <1>1, <3>1
    <2> QED
      BY <1>1, <2>1, <2>2
  <1>4. a \in Seq(Sofar) /\ Len(a) = (IF i + 1 <= Size THEN Size - (i + 1) + 1 ELSE 0)
        /\ \A j \in 1 .. Size - (i + 1) + 1 : a[j] = W[(i + 1) + j - 1]
    BY <1>2, <1>3, SubSeqProperties
  <1>5. b \in Seq(Sofar) /\ Len(b) = (IF k + 1 <= n THEN n - (k + 1) + 1 ELSE 0)
        /\ \A j \in 1 .. n - (k + 1) + 1 : b[j] = log[(k + 1) + j - 1]
    BY <1>2, <1>3, SubSeqProperties
  <1> HIDE DEF a, b
  <1>6. Len(a) = Size - i /\ Len(b) = Size - i
    BY <1>1, <1>4, <1>5
  <1>7. ASSUME NEW j \in 1 .. Size - i PROVE a[j] = b[j]
    <2>1. a[j] = W[i + j]
      <3>1. j \in 1 .. Size - (i + 1) + 1 /\ (i + 1) + j - 1 = i + j
        BY <1>1
      <3> QED
        BY <1>4, <3>1
    <2>2. b[j] = log[k + j]
      <3>1. j \in 1 .. n - (k + 1) + 1 /\ (k + 1) + j - 1 = k + j
        BY <1>1
      <3> QED
        BY <1>5, <3>1
    <2>3. i + j \in 1 .. Size /\ n - Size + (i + j) = k + j
      BY <1>1
    <2>4. W[i + j] = log[n - Size + (i + j)]
      BY <1>1, <2>3
    <2> QED
      BY <2>1, <2>2, <2>3, <2>4
  <1>8. a = b
    BY <1>4, <1>5, <1>6, <1>7, SeqEqual
  <1>9. After(s, i) = Relevant(s, a)
    BY DEF After, a, W
  <1>10. After(s, i) \in Seq(Sofar)
    BY <1>4, <1>9, RelevantType
  <1> QED
    BY <1>1, <1>2, <1>8, <1>9, <1>10 DEF W, b, n

LEMMA BacklogShape ==
  ASSUME HubTypeOK, LineTypeOK, RingInv, NEW s \in Streams, NEW id \in Int
  PROVE  /\ Backlog(s, id) \in Seq(Sofar \cup {Resync})
         /\ id # NoId => \/ Backlog(s, id) = <<Resync>>
                         \/ \E k \in 1 .. Len(log) :
                              log[k].id = id /\ Backlog(s, id) = Relevant(s, SubSeq(log, k + 1, Len(log)))
         /\ \A i \in DOMAIN Backlog(s, id) : Backlog(s, id)[i].id <= Len(log)
  <1> DEFINE B == Backlog(s, id)
             E == Sofar \cup {Resync}
  <1>1. CASE id = NoId
    <2>1. B = <<>>
      BY <1>1 DEF Backlog
    <2> HIDE DEF B
    <2>2. B \in Seq(E) /\ DOMAIN B = {}
      BY <2>1, EmptySeq
    <2> QED
      BY <1>1, <2>2 DEF B
  <1>2. CASE id # NoId /\ Found(id) = {}
    <2>1. B = <<Resync>>
      BY <1>2 DEF Backlog
    <2> HIDE DEF B
    <2>2. Resync \in E /\ Resync.id <= Len(log)
      BY DEF Resync, HubTypeOK
    <2> HIDE DEF E
    <2>3. B \in Seq(E) /\ DOMAIN B = {1} /\ B[1] = Resync
      BY <2>1, <2>2
    <2> QED
      BY <2>1, <2>2, <2>3 DEF B, E
  <1>3. CASE id # NoId /\ Found(id) # {}
    <2> DEFINE i == CHOOSE i \in Found(id) : TRUE
               k == Len(log) - Size + i
    <2>1. i \in Found(id) /\ B = After(s, i)
      BY <1>3 DEF Backlog
    <2> HIDE DEF i, B
    <2>2. i \in 1 .. Size /\ Window[i].id = id
      BY <2>1 DEF Found
    <2>3. /\ k \in 1 .. Len(log) /\ Window[i] = log[k]
          /\ After(s, i) = Relevant(s, SubSeq(log, k + 1, Len(log))) /\ After(s, i) \in Seq(Sofar)
      BY <2>2, AfterInLog
    <2> HIDE DEF k
    <2>4. B \in Seq(Sofar)
      BY <2>1, <2>3
    <2>5. B \in Seq(E)
      BY <2>4, SeqMonotonic
    <2>6. \A j \in DOMAIN B : B[j] \in Sofar
      BY <2>4, ElementOfSeq, LenProperties
    <2>7. \E m \in 1 .. Len(log) :
            log[m].id = id /\ B = Relevant(s, SubSeq(log, m + 1, Len(log)))
      BY <2>1, <2>2, <2>3
    <2> QED
      BY <2>5, <2>6, <2>7 DEF B, Sofar
  <1> QED
    BY <1>1, <1>2, <1>3

LEMMA AnswerLine ==
  ASSUME HubTypeOK, LineTypeOK, NEW s \in Streams, NEW b \in Seq(Events), Answer(s, b), chan' = chan
  PROVE  /\ conn' \in [Streams -> Link] /\ conn'[s].pc = "on" /\ conn'[s].link = "open"
         /\ conn'[s].from = last[ClientOf[s]] /\ conn'[s].since = Len(log)
         /\ chan[s] = <<>> => Line(s)' = b
         /\ \A r \in Streams \ {s} : conn'[r] = conn[r] /\ Line(r)' = Line(r)
  <1> DEFINE c == [pc |-> "on", link |-> "open", out |-> b, sent |-> <<>>,
                   from |-> last[ClientOf[s]], since |-> Len(log)]
  <1>1. last[ClientOf[s]] \in Int /\ Len(log) \in Nat /\ <<>> \in Seq(Events)
    BY HubAssumption, EmptySeq DEF HubTypeOK, LineTypeOK
  <1>2. c \in Link
    BY <1>1 DEF Link
  <1>3. conn' = [conn EXCEPT ![s] = c]
    BY DEF Answer
  <1>4. /\ conn' \in [Streams -> Link] /\ conn'[s] = c /\ \A r \in Streams \ {s} : conn'[r] = conn[r]
    BY <1>2, <1>3 DEF LineTypeOK
  <1>5. ASSUME chan[s] = <<>> PROVE Line(s)' = b
    <2>1. Line(s)' = (<<>> \o b) \o <<>>
      BY <1>4, <1>5 DEF Line
    <2> QED
      BY <2>1, ConcatEmptySeq
  <1>6. \A r \in Streams \ {s} : Line(r)' = Line(r)
    BY <1>4 DEF Line
  <1> QED
    BY <1>4, <1>5, <1>6

LEMMA SubscribeLine ==
  ASSUME SubsInv, LineInv, NEW s \in Streams, Subscribe(s)
  PROVE  LineInv'
  <1>0. HubTypeOK /\ LineTypeOK /\ RingInv /\ subs \subseteq Streams
    BY DEF SubsInv, LineInv, HubTypeOK
  <1>1. /\ ring' = ring /\ count' = count /\ log' = log /\ pub' = pub /\ chan' = chan /\ last' = last
        /\ conn[s] = Unconnected
    BY DEF Subscribe, MayOpen
  <1>2. /\ chan[s] = <<>> /\ ~shut[s] /\ \A p \in Publishers : s \notin pub[p].targets
    BY <1>0, <1>1 DEF LineTypeOK, SubsInv, Unmade, Unconnected
  <1>3. \A r \in Streams : SameFlights(r)
    BY <1>1 DEF SameFlights
  <1>4. RingInv' /\ FlightInv'
    BY <1>1 DEF LineInv, RingInv, FlightInv
  <1>5. CASE down /\ shut' = [shut EXCEPT ![s] = TRUE] /\ Answer(s, <<>>) /\ UNCHANGED subs
    <2>1. subs = {} /\ subs' = {}
      BY <1>5 DEF SubsInv, Placed
    <2>2. <<>> \in Seq(Events)
      BY EmptySeq
    <2>3. /\ conn' \in [Streams -> Link] /\ conn'[s].pc = "on"
          /\ \A r \in Streams \ {s} : conn'[r] = conn[r]
      BY <1>0, <1>1, <1>5, <2>2, AnswerLine
    <2>4. LineTypeOK'
      BY <1>0, <1>1, <2>3 DEF LineTypeOK
    <2>5. HeardInv'
      BY <2>1 DEF HeardInv
    <2> QED
      BY <1>4, <2>4, <2>5 DEF LineInv
  <1>6. CASE ~down /\ subs' = subs \cup {s} /\ Answer(s, Backlog(s, last[ClientOf[s]])) /\ UNCHANGED shut
    <2> DEFINE id == last[ClientOf[s]]
               B == Backlog(s, id)
    <2>1. id \in Int
      BY <1>0, HubAssumption DEF LineTypeOK
    <2> HIDE DEF id
    <2>2. /\ B \in Seq(Sofar \cup {Resync})
          /\ id # NoId => \/ B = <<Resync>>
                          \/ \E k \in 1 .. Len(log) :
                               log[k].id = id /\ B = Relevant(s, SubSeq(log, k + 1, Len(log)))
          /\ \A i \in DOMAIN B : B[i].id <= Len(log)
      BY <1>0, <2>1, BacklogShape
    <2>3. Answer(s, B)
      BY <1>6 DEF id
    <2> HIDE DEF B
    <2>4. B \in Seq(Events)
      <3>1. Sofar \cup {Resync} \subseteq Events
        BY DEF Sofar, Resync, Events
      <3> QED
        BY <2>2, <3>1, SeqMonotonic
    <2>5. /\ conn' \in [Streams -> Link] /\ conn'[s].pc = "on" /\ conn'[s].link = "open"
          /\ conn'[s].from = id /\ conn'[s].since = Len(log) /\ Line(s)' = B
          /\ \A r \in Streams \ {s} : conn'[r] = conn[r] /\ Line(r)' = Line(r)
      BY <1>0, <1>1, <1>2, <2>3, <2>4, AnswerLine DEF id
    <2>6. LineTypeOK'
      BY <1>0, <1>1, <2>5 DEF LineTypeOK
    <2>7. Replayed(s)'
      <3>1. CASE B = <<Resync>>
        <4>1. B # <<>> /\ Head(B) = Resync
          BY <3>1
        <4> QED
          BY <2>5, <4>1 DEF Replayed
      <3>2. ASSUME NEW k \in 1 .. Len(log), log[k].id = id,
                   B = Relevant(s, SubSeq(log, k + 1, Len(log)))
            PROVE  Replayed(s)'
        <4>1. Missed(s, k)' = B
          BY <1>1, <2>5, <3>2 DEF Missed
        <4>2. <<>> \in Seq(Events) /\ B = B \o <<>>
          BY <2>4, EmptySeq, ConcatEmptySeq
        <4>3. \E rest \in Seq(Events) : Line(s)' = Missed(s, k)' \o rest
          BY <2>5, <4>1, <4>2
        <4>4. k \in 1 .. conn'[s].since /\ log'[k].id = conn'[s].from
          BY <1>1, <2>5, <3>2
        <4> QED
          BY <4>3, <4>4 DEF Replayed
      <3>3. CASE id = NoId
        BY <2>5, <3>3 DEF Replayed
      <3> QED
        BY <2>2, <3>1, <3>2, <3>3
    <2>8. Once(s)'
      <3>1. Len(log) \in Nat /\ \A i \in DOMAIN B : B[i].id \in Int
        <4>1. \A i \in DOMAIN B : B[i] \in Events
          BY <2>4, ElementOfSeq, LenProperties
        <4> QED
          BY <1>0, <4>1 DEF HubTypeOK, Events
      <3> QED
        BY <1>1, <1>2, <2>2, <2>5, <3>1 DEF Once
    <2>9. ASSUME NEW r \in subs', Heard(r)'
          PROVE  conn'[r].since <= Len(log') /\ Replayed(r)' /\ (~shut'[r] => Once(r)')
      <3>1. CASE r = s
        <4>1. Len(log) \in Nat
          BY <1>0 DEF HubTypeOK
        <4> QED
          BY <1>1, <2>5, <2>7, <2>8, <3>1, <4>1
      <3>2. CASE r # s
        <4>1. r \in subs /\ r \in Streams /\ conn'[r] = conn[r] /\ Line(r)' = Line(r)
          BY <1>0, <1>6, <2>5, <2>9, <3>2
        <4>2. conn[r].since <= Len(log) /\ Replayed(r) /\ (~shut[r] => Once(r))
          BY <2>9, <4>1 DEF LineInv, HeardInv, Heard
        <4>3. Replayed(r)' /\ (~shut'[r] => Once(r)')
          BY <1>1, <1>3, <1>6, <4>1, <4>2, HeardSame
        <4> QED
          BY <1>1, <4>1, <4>2, <4>3
      <3> QED
        BY <3>1, <3>2
    <2>10. HeardInv'
      BY <2>9 DEF HeardInv
    <2> QED
      BY <1>4, <2>6, <2>10 DEF LineInv
  <1> QED
    BY <1>5, <1>6 DEF Subscribe

LEMMA RestartLine == ASSUME SubsInv, LineInv, Restart PROVE LineInv'
  <1>0. HubTypeOK /\ LineTypeOK /\ Cap \in Nat \ {0}
    BY HubAssumption DEF SubsInv, LineInv
  <1> DEFINE c == [Unconnected EXCEPT !.pc = "gone", !.link = "lost"]
  <1>1. Unconnected \in Link /\ c \in Link
    <2>1. <<>> \in Seq(Events) /\ NoId \in Int /\ 0 \in Nat
      BY EmptySeq DEF NoId
    <2> QED
      BY <2>1 DEF Unconnected, Link
  <1>2. conn' = [s \in Streams |-> IF conn[s] = Unconnected THEN Unconnected ELSE c]
    BY DEF Restart
  <1> HIDE DEF c
  <1>3. conn' \in [Streams -> Link]
    BY <1>1, <1>2
  <1>4. /\ ring' = [i \in 0 .. Cap - 1 |-> Empty] /\ count' = 0 /\ subs' = {}
        /\ pub' = [p \in Publishers |-> Idle] /\ chan' = [s \in Streams |-> <<>>]
        /\ last' = last /\ log' = log
    BY DEF Restart
  <1>5. Empty \in Events
    BY DEF Empty, Events, NoId
  <1>6. LineTypeOK'
    BY <1>0, <1>3, <1>4, <1>5 DEF LineTypeOK
  <1>7. RingInv'
    <2>1. Len(log) \in Nat
      BY <1>0 DEF HubTypeOK
    <2> QED
      BY <1>4, <2>1 DEF LineInv, RingInv
  <1>8. FlightInv' /\ HeardInv'
    BY <1>4 DEF FlightInv, HeardInv, Idle
  <1> QED
    BY <1>6, <1>7, <1>8 DEF LineInv

LEMMA LineStart == Init => LineInv
  <1> SUFFICES ASSUME Init PROVE LineInv
    OBVIOUS
  <1>1. Unconnected \in Link
    <2>1. <<>> \in Seq(Events) /\ NoId \in Int /\ 0 \in Nat
      BY EmptySeq DEF NoId
    <2> QED
      BY <2>1 DEF Unconnected, Link
  <1>2. Empty \in Events /\ NoId \in Int /\ Len(<<>>) = 0
    BY EmptySeq DEF Empty, Events, NoId
  <1>3. LineTypeOK
    BY <1>1, <1>2 DEF Init, LineTypeOK
  <1>4. RingInv
    BY <1>2 DEF Init, RingInv
  <1>5. FlightInv /\ HeardInv
    BY DEF Init, FlightInv, HeardInv, Idle
  <1> QED
    BY <1>3, <1>4, <1>5 DEF LineInv

LEMMA LineRests == ASSUME LineInv, UNCHANGED vars PROVE LineInv'
  <1>1. /\ ring' = ring /\ count' = count /\ subs' = subs /\ pub' = pub /\ chan' = chan
        /\ shut' = shut /\ conn' = conn /\ last' = last /\ log' = log
    BY DEF vars, hub, streams
  <1>2. LineTypeOK' /\ RingInv' /\ FlightInv'
    BY <1>1 DEF LineInv, LineTypeOK, RingInv, FlightInv
  <1>3. \A s : Line(s)' = Line(s) /\ \A k : Missed(s, k)' = Missed(s, k)
    BY <1>1 DEF Line, Missed
  <1>4. \A s : Replayed(s)' <=> Replayed(s)
    BY <1>1, <1>3 DEF Replayed
  <1>5. \A s : Once(s)' <=> Once(s)
    BY <1>1, <1>3 DEF Once, InLine, Flying
  <1>6. HeardInv'
    BY <1>1, <1>4, <1>5 DEF LineInv, HeardInv, Heard
  <1> QED
    BY <1>2, <1>6 DEF LineInv

LEMMA LineStep == SubsInv /\ LineInv /\ [Next]_vars => LineInv'
  <1> SUFFICES ASSUME SubsInv, LineInv, [Next]_vars PROVE LineInv'
    OBVIOUS
  <1>1. ASSUME NEW p \in Publishers, PublisherStep(p) PROVE LineInv'
    BY <1>1, DeliverLine, RemoveDroppedLine DEF PublisherStep
  <1>2. ASSUME NEW p \in Publishers, NEW t \in Topics, Publish(p, t) PROVE LineInv'
    BY <1>2, PublishLine
  <1>3. ASSUME NEW s \in Streams, HandlerStep(s) PROVE LineInv'
    BY <1>3, WriteBacklogLine, ForwardLine, LeaveLine DEF HandlerStep
  <1>4. ASSUME NEW s \in Streams, Subscribe(s) \/ Lose(s) \/ ShutdownClose(s) PROVE LineInv'
    BY <1>4, SubscribeLine, LoseLine, ShutdownLine
  <1> QED
    BY <1>1, <1>2, <1>3, <1>4, ShutdownLine, RestartLine, LineRests DEF Next, Wait

LEMMA LineCorrect == Spec => [](SubsInv /\ LineInv)
  <1>1. Init => SubsInv /\ LineInv
    BY HubStart, LineStart
  <1>2. SubsInv /\ LineInv /\ [Next]_vars => (SubsInv /\ LineInv)'
    BY SubsStep, LineStep
  <1> QED
    BY <1>1, <1>2, PTL DEF Spec

-----------------------------------------------------------------------------
\* What is once in the line, or once on the way to it, counts once.
LEMMA OnceCounts ==
  ASSUME HubTypeOK, LineTypeOK, FlightInv, NEW s \in Streams, Once(s), NEW e,
         e.id > conn[s].since, InLine(s, e) \/ Flying(s, e)
  PROVE  Times(s, e) = 1
  <1> DEFINE A == {i \in DOMAIN Line(s) : Line(s)[i] = e}
             F == {p \in Publishers : s \in pub[p].targets /\ pub[p].env = e}
  <1>1. CASE InLine(s, e)
    <2>1. PICK i \in DOMAIN Line(s) : Line(s)[i] = e
      BY <1>1 DEF InLine
    <2>2. \A j \in DOMAIN Line(s) \ {i} : Line(s)[j] # e
      BY <2>1 DEF Once
    <2>3. A = {i}
      BY <2>1, <2>2
    <2>4. F = {}
      BY <1>1 DEF Once
    <2> HIDE DEF A, F
    <2>5. Cardinality(A) = 1 /\ Cardinality(F) = 0
      BY <2>3, <2>4, FS_Singleton, FS_EmptySet
    <2>6. Cardinality(A) + Cardinality(F) = 1
      BY <2>5
    <2> QED
      BY <2>6 DEF Times, A, F
  <1>2. CASE ~InLine(s, e) /\ Flying(s, e)
    <2>1. A = {}
      BY <1>2 DEF InLine
    <2>2. PICK p \in Publishers : s \in pub[p].targets /\ pub[p].env = e
      BY <1>2 DEF Flying
    <2>3. \A q \in Publishers \ {p} : s \in pub[q].targets => pub[q].env # e
      BY <2>2 DEF FlightInv
    <2>4. F = {p}
      BY <2>2, <2>3
    <2> HIDE DEF A, F
    <2>5. Cardinality(A) = 0 /\ Cardinality(F) = 1
      BY <2>1, <2>4, FS_Singleton, FS_EmptySet
    <2>6. Cardinality(A) + Cardinality(F) = 1
      BY <2>5
    <2> QED
      BY <2>6 DEF Times, A, F
  <1> QED
    BY <1>1, <1>2

\* A connected client misses no event and gets none twice, for any number of publishers,
\* clients, requests, and any ring and channel capacity (Publish, deliver, Subscribe).
THEOREM LiveExactlyOnceAlways == Spec => []LiveExactlyOnce
  <1>1. ASSUME SubsInv, LineInv PROVE LiveExactlyOnce
    <2>0. HubTypeOK /\ LineTypeOK /\ FlightInv /\ subs \subseteq Streams
      BY <1>1 DEF SubsInv, LineInv, HubTypeOK
    <2> SUFFICES ASSUME NEW s \in subs, Heard(s), ~shut[s],
                        NEW i \in conn[s].since + 1 .. Len(log), Wanted(s, log[i])
                 PROVE  Times(s, log[i]) = 1
      BY DEF LiveExactlyOnce
    <2>1. Once(s) /\ s \in Streams
      BY <1>1, <2>0 DEF LineInv, HeardInv
    <2>2. conn[s].since \in Nat /\ Len(log) \in Nat
      BY <2>0, <2>1, LineType DEF HubTypeOK
    <2>3. log[i].id = i /\ i > conn[s].since
      BY <1>1, <2>2 DEF LineInv, RingInv
    <2>4. InLine(s, log[i]) \/ Flying(s, log[i])
      BY <2>1 DEF Once
    <2> QED
      BY <2>0, <2>1, <2>3, <2>4, OnceCounts
  <1> QED
    BY <1>1, LineCorrect, PTL

LEMMA ConcatPrefix ==
  ASSUME NEW E, NEW a \in Seq(E), NEW b \in Seq(E)
  PROVE  IsPrefix(a, a \o b)
  <1> DEFINE n == Len(a)
             c == a \o b
  <1>1. /\ n \in Nat /\ Len(b) \in Nat /\ c \in Seq(E) /\ Len(c) = n + Len(b)
        /\ \A i \in 1 .. n : c[i] = a[i] /\ a[i] \in E
    BY ConcatProperties, LenProperties, ElementOfSeq
  <1> HIDE DEF n, c
  <1> DEFINE x == SubSeq(a, 1, n)
             y == SubSeq(c, 1, n)
  <1>2. /\ x \in Seq(E) /\ Len(x) = (IF 1 <= n THEN n - 1 + 1 ELSE 0)
        /\ \A i \in 1 .. n - 1 + 1 : x[i] = a[1 + i - 1]
    BY <1>1, SubSeqProperties
  <1>3. /\ y \in Seq(E) /\ Len(y) = (IF 1 <= n THEN n - 1 + 1 ELSE 0)
        /\ \A i \in 1 .. n - 1 + 1 : y[i] = c[1 + i - 1]
    BY <1>1, SubSeqProperties
  <1> HIDE DEF x, y
  <1>4. Len(x) = n /\ Len(y) = n
    BY <1>1, <1>2, <1>3
  <1>5. ASSUME NEW i \in 1 .. n PROVE x[i] = y[i]
    <2>1. i \in 1 .. n - 1 + 1 /\ 1 + i - 1 = i
      BY <1>1
    <2> QED
      BY <1>1, <1>2, <1>3, <2>1
  <1>6. x = y
    BY <1>2, <1>3, <1>4, <1>5, SeqEqual
  <1>7. n <= Len(c)
    BY <1>1
  <1> QED
    BY <1>6, <1>7 DEF IsPrefix, x, y, n, c

\* A reconnect is answered by all that followed the ID it gives, in order, or by a resync,
\* whatever the capacity of the ring and however often it was overwritten (Subscribe).
THEOREM ReplayExactAlways == Spec => []ReplayExact
  <1>1. ASSUME SubsInv, LineInv PROVE ReplayExact
    <2>0. HubTypeOK /\ LineTypeOK
      BY <1>1 DEF SubsInv, LineInv
    <2> SUFFICES ASSUME NEW s \in Streams, s \in subs, Heard(s), conn[s].from # NoId
                 PROVE  \/ Line(s) # <<>> /\ Head(Line(s)) = Resync
                        \/ \E k \in 1 .. conn[s].since :
                             log[k].id = conn[s].from /\ IsPrefix(Missed(s, k), Line(s))
      BY DEF ReplayExact, Missed
    <2>1. Replayed(s) /\ conn[s].since <= Len(log) /\ conn[s].since \in Nat
      BY <1>1, <2>0, LineType DEF LineInv, HeardInv
    <2>2. CASE Line(s) # <<>> /\ Head(Line(s)) = Resync
      BY <2>2
    <2>3. ASSUME NEW k \in 1 .. conn[s].since, log[k].id = conn[s].from,
                 NEW rest \in Seq(Events), Line(s) = Missed(s, k) \o rest
          PROVE  \E j \in 1 .. conn[s].since :
                   log[j].id = conn[s].from /\ IsPrefix(Missed(s, j), Line(s))
      <3>1. Missed(s, k) \in Seq(Events)
        BY <2>0, <2>1, MissedType
      <3>2. IsPrefix(Missed(s, k), Line(s))
        BY <2>3, <3>1, ConcatPrefix
      <3> QED
        BY <2>3, <3>2
    <2> QED
      BY <2>1, <2>2, <2>3 DEF Replayed
  <1> QED
    BY <1>1, LineCorrect, PTL
=============================================================================
