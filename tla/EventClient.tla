----------------------------- MODULE EventClient -----------------------------
(***************************************************************************)
(* The web client over the event hub: the browser's EventSource reconnects *)
(* by itself, and the client refetches its lists when the stream opens for *)
(* the first time and after a resync (event-stream-provider.tsx,           *)
(* use-refresh-on-reconnect.ts).                                           *)
(***************************************************************************)
EXTENDS EventHub

VARIABLES
  known,      \* known[c]: IDs of the events whose effect client c shows
  connected,  \* the provider's flag, set by onopen
  refetch     \* a refetch of the lists is due

view  == <<known, connected, refetch>>
cvars == <<vars, view>>

CInit ==
  /\ Init
  /\ known = [c \in Clients |-> {}]
  /\ connected = [c \in Clients |-> FALSE]
  /\ refetch = [c \in Clients |-> FALSE]

\* onopen sets the flag; only its change makes the client refetch, and nothing resets it
\* while EventSource retries.
Open(s) ==
  LET c == ClientOf[s] IN
  /\ Subscribe(s)
  /\ connected' = [connected EXCEPT ![c] = TRUE]
  /\ refetch' = [refetch EXCEPT ![c] = @ \/ ~connected[c]]
  /\ UNCHANGED known

Hear(s, e) ==
  LET c == ClientOf[s] IN
  /\ known' = IF Heard(s) /\ e # Resync THEN [known EXCEPT ![c] = @ \cup {e.id}] ELSE known
  /\ refetch' = IF Heard(s) /\ e = Resync THEN [refetch EXCEPT ![c] = TRUE] ELSE refetch
  /\ UNCHANGED connected

HearBacklog(s) == WriteBacklog(s) /\ Hear(s, Head(conn[s].out))
HearEvent(s)   == Forward(s) /\ Hear(s, Head(chan[s]))

\* The lists the server returns hold what every event so far was about.
Refetch(c) ==
  /\ refetch[c]
  /\ refetch' = [refetch EXCEPT ![c] = FALSE]
  /\ known' = [known EXCEPT ![c] = DOMAIN log]
  /\ UNCHANGED <<vars, connected>>

CNext ==
  \/ \E s \in Streams : Open(s) \/ HearBacklog(s) \/ HearEvent(s)
  \/ \E c \in Clients : Refetch(c)
  \/ /\ \/ \E p \in Publishers : PublisherStep(p) \/ \E t \in Topics : Publish(p, t)
        \/ \E s \in Streams : Leave(s) \/ RemoveSub(s) \/ Lose(s) \/ ShutdownClose(s)
        \/ ShutdownLock \/ Restart \/ Wait
     /\ UNCHANGED view

CSpec == CInit /\ [][CNext]_cvars

-----------------------------------------------------------------------------
CaughtUp(s) ==
  /\ s \in subs /\ ~shut[s] /\ Heard(s) /\ ~refetch[ClientOf[s]]
  /\ conn[s].out = <<>> /\ chan[s] = <<>>
  /\ \A p \in Publishers : s \notin pub[p].targets

\* A client whose stream is up to date knows of every event it asked for: what it missed
\* between two connections was replayed, or it refetched the lists.
NoSilentGap ==
  \A s \in Streams : CaughtUp(s) =>
    \A i \in DOMAIN log : Wanted(s, log[i]) => log[i].id \in known[ClientOf[s]]
=============================================================================
