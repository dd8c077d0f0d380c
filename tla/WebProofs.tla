------------------------------ MODULE WebProofs ------------------------------
(***************************************************************************)
(* The parts of the web client, each for every value of its constants and  *)
(* however many steps it takes.  The parts hold no state in common, so an  *)
(* invariant that the steps of one part keep is one of the whole client.   *)
(***************************************************************************)
EXTENDS WebProperties, FiniteSetTheorems, SequenceTheorems, WellFoundedInduction, TLAPS

-----------------------------------------------------------------------------
(* The feed of the core's jobs.                                            *)

JobKinds == {"queued", "started", "task", "ended", "deleted"}
Events   == [kind : {"open", "resync"}] \cup [kind : JobKinds, job : Jobs]
Views    == [job : Jobs, status : Statuses, task : BOOLEAN, upd : 0 .. 5]

FeedTypeOK ==
  /\ lvl \in [Jobs -> 0 .. 5] /\ feed \in Seq(Events)

FeedMoves == JobStep \/ Connect \/ Hangup \/ Resync \/ Take \/ UNCHANGED fvars

LEMMA FeedStart == FInit => FeedTypeOK
  <1> SUFFICES ASSUME FInit PROVE FeedTypeOK
    OBVIOUS
  <1>1. lvl \in [Jobs -> 0 .. 5]
    BY FeedAssumption DEF FInit
  <1>2. feed \in Seq(Events)
    BY EmptySeq DEF FInit
  <1> QED
    BY <1>1, <1>2 DEF FInit, FeedTypeOK

\* A job reaches a level and tells of it; it tells of a finished task last only when it was running.
Reaches(j, es, l) ==
  /\ lvl' = [lvl EXCEPT ![j] = l] /\ feed' = Sent(es)
  /\ Len(es) \in Nat \ {0} /\ es[Len(es)].kind \in JobKinds
  /\ es[Len(es)].kind = "task" => lvl[j] = 2 /\ l = 3

LEMMA ChangeTold ==
  ASSUME FeedTypeOK, NEW j \in Jobs, Create(j) \/ Goes(j) \/ Cancel(j)
  PROVE  \E es \in Seq(Events), l \in 1 .. 5 : Reaches(j, es, l)
  <1>1. \A k \in JobKinds : Event(k, j) \in Events /\ Event(k, j).kind = k
    BY DEF Event, Events
  <1>2. CASE Create(j) \/ Goes(j)
    <2> DEFINE l == lvl[j] + 1
               e == Event(Steps[l], j)
    <2>1. lvl[j] \in 0 .. 4 /\ Change(j, l)
      BY <1>2 DEF Create, Goes
    <2>2. l \in 1 .. 5 /\ Steps[l] \in JobKinds /\ (Steps[l] = "task" => lvl[j] = 2)
      BY <2>1 DEF Steps, JobKinds
    <2>3. e \in Events /\ e.kind = Steps[l]
      BY <1>1, <2>2
    <2>4. lvl' = [lvl EXCEPT ![j] = l] /\ feed' = Sent(<<e>>)
      BY <2>1 DEF Change
    <2> HIDE DEF e
    <2>5. <<e>> \in Seq(Events) /\ Len(<<e>>) = 1 /\ <<e>>[1] = e
      BY <2>3
    <2> DEFINE es == <<e>>
    <2>6. es \in Seq(Events) /\ Len(es) = 1 /\ es[Len(es)] = e
      BY <2>5
    <2>7. feed' = Sent(es)
      BY <2>4
    <2> HIDE DEF es
    <2>8. Steps[l] = "task" => lvl[j] = 2 /\ l = 3
      BY <2>1, <2>2
    <2> HIDE DEF l
    <2>9. Reaches(j, es, l)
      BY <2>2, <2>3, <2>4, <2>6, <2>7, <2>8 DEF Reaches
    <2> QED
      BY <2>2, <2>6, <2>9
  <1>3. CASE Cancel(j)
    <2> DEFINE e == Event("ended", j)
               t == Event("task", j)
    <2>1. lvl[j] \in 1 .. 2 /\ Change(j, 4)
      BY <1>3 DEF Cancel
    <2>2. e \in Events /\ e.kind = "ended" /\ t \in Events /\ "ended" \in JobKinds
      BY <1>1 DEF JobKinds
    <2>3. lvl' = [lvl EXCEPT ![j] = 4] /\ feed' = Sent(<<t, e>>)
      BY <2>1 DEF Change
    <2> HIDE DEF e, t
    <2>4. <<t, e>> \in Seq(Events) /\ Len(<<t, e>>) = 2 /\ <<t, e>>[2] = e
      BY <2>2
    <2> DEFINE es == <<t, e>>
    <2>5. es \in Seq(Events) /\ Len(es) = 2 /\ es[Len(es)] = e
      BY <2>4
    <2>6. feed' = Sent(es)
      BY <2>3
    <2> HIDE DEF es
    <2>7. Reaches(j, es, 4)
      BY <2>2, <2>3, <2>5, <2>6 DEF Reaches
    <2> QED
      BY <2>5, <2>7
  <1> QED
    BY <1>2, <1>3

LEMMA FeedKeeps == FeedTypeOK /\ FeedMoves => FeedTypeOK'
  <1> SUFFICES ASSUME FeedTypeOK, FeedMoves PROVE FeedTypeOK'
    OBVIOUS
  <1> USE DEF FeedTypeOK
  <1>1. ASSUME NEW j \in Jobs, Create(j) \/ Goes(j) \/ Cancel(j) PROVE FeedTypeOK'
    <2>1. PICK es \in Seq(Events), l \in 1 .. 5 : lvl' = [lvl EXCEPT ![j] = l] /\ feed' = Sent(es)
      BY <1>1, ChangeTold DEF Reaches
    <2>2. lvl' \in [Jobs -> 0 .. 5]
      BY <2>1
    <2>3. feed' \in Seq(Events)
      BY <2>1 DEF Sent
    <2> QED
      BY <2>2, <2>3
  <1>2. CASE Connect
    <2>1. [kind |-> "open"] \in Events
      BY DEF Events
    <2> QED
      BY <1>2, <2>1 DEF Connect
  <1>3. CASE Hangup
    BY <1>3, EmptySeq DEF Hangup
  <1>4. CASE Resync
    <2>1. [kind |-> "resync"] \in Events
      BY DEF Events
    <2> QED
      BY <1>4, <2>1 DEF Resync
  <1>5. CASE Take
    <2>1. Tail(feed) \in Seq(Events)
      BY <1>5 DEF Take
    <2> QED
      BY <1>5, <2>1 DEF Take
  <1>6. CASE UNCHANGED fvars
    BY <1>6 DEF fvars
  <1> QED
    BY <1>1, <1>2, <1>3, <1>4, <1>5, <1>6 DEF FeedMoves, JobStep

LEMMA ViewType == ASSUME FeedTypeOK, NEW j \in Jobs PROVE View(j) \in Views
  <1>1. lvl[j] \in 0 .. 5
    BY DEF FeedTypeOK
  <1>2. StatusAt(lvl[j]) \in Statuses
    BY <1>1 DEF StatusAt, Statuses
  <1> QED
    BY <1>1, <1>2 DEF View, Views

LEMMA HeardType == ASSUME FeedTypeOK, feed # <<>> PROVE Head(feed) \in Events
  BY DEF FeedTypeOK

-----------------------------------------------------------------------------
(* The mirror of a job.  At most one request of a session is on its way    *)
(* because each is announced: the session that waits for a list is         *)
(* refreshing, the one that submits is requests, and an older one clears   *)
(* neither of them.                                                        *)

Answers == SUBSET (Views \cup {None})
Fetches == [session : Nat, active : Answers, recent : Answers]
Posts   == [session : Nat, sent : BOOLEAN, got : Views \cup {None}]

MirrorTypeOK ==
  /\ session \in Nat \ {0} /\ effects \in {session - 1, session}
  /\ refreshing \in Nat /\ requests \in {0, session}
  /\ fetches \in Seq(Fetches) /\ posts \in Seq(Posts)

\* The requests rs, those of this session announced by the note.
Announced(rs, note) ==
  /\ \A i \in 1 .. Len(rs) : rs[i].session <= session /\ (rs[i].session = session => note = session)
  /\ \A i, j \in 1 .. Len(rs) : rs[i].session = session /\ rs[j].session = session => i = j

EntryOwned ==
  entry # None =>
    /\ entry.from \in {effects, session}
    /\ entry = [job |-> entry.job, status |-> entry.status, task |-> entry.task, from |-> entry.from]

MirrorInv ==
  MirrorTypeOK /\ Announced(fetches, refreshing) /\ Announced(posts, requests) /\ EntryOwned

LEMMA RemoveAtProperties ==
  ASSUME NEW S, NEW s \in Seq(S), NEW i \in 1 .. Len(s)
  PROVE  /\ RemoveAt(s, i) \in Seq(S) /\ Len(RemoveAt(s, i)) = Len(s) - 1
         /\ \A j \in 1 .. Len(s) - 1 : RemoveAt(s, i)[j] = s[IF j < i THEN j ELSE j + 1]
  <1> DEFINE a == SubSeq(s, 1, i - 1)
             b == SubSeq(s, i + 1, Len(s))
  <1>1. Len(s) \in Nat /\ i \in Nat /\ i >= 1 /\ i <= Len(s)
    OBVIOUS
  <1>2. a \in Seq(S) /\ Len(a) = i - 1 /\ \A j \in 1 .. i - 1 : a[j] = s[j]
    BY <1>1
  <1>3. b \in Seq(S) /\ Len(b) = Len(s) - i /\ \A j \in 1 .. Len(s) - i : b[j] = s[i + j]
    <2> DEFINE m == i + 1
               n == Len(s)
    <2>1. m \in Int /\ n \in Int /\ \A j \in m .. n : s[j] \in S
      BY <1>1
    <2>2. b = SubSeq(s, m, n)
      OBVIOUS
    <2>a. m = i + 1 /\ n = Len(s)
      OBVIOUS
    <2> HIDE DEF a, b, m, n
    <2>3. /\ SubSeq(s, m, n) \in Seq(S) /\ Len(SubSeq(s, m, n)) = IF m <= n THEN n - m + 1 ELSE 0
          /\ \A j \in 1 .. n - m + 1 : SubSeq(s, m, n)[j] = s[m + j - 1]
      BY <2>1, SubSeqProperties
    <2>4. n - m + 1 = Len(s) - i /\ \A j \in Int : m + j - 1 = i + j
      BY <1>1, <2>a
    <2>5. Len(b) = Len(s) - i
      BY <1>1, <2>a, <2>2, <2>3, <2>4
    <2> QED
      BY <2>2, <2>3, <2>4, <2>5
  <1> HIDE DEF a, b
  <1>4. RemoveAt(s, i) = a \o b
    BY DEF RemoveAt, a, b
  <1>5. /\ a \o b \in Seq(S) /\ Len(a \o b) = Len(s) - 1
        /\ \A j \in 1 .. Len(s) - 1 : (a \o b)[j] = IF j <= i - 1 THEN a[j] ELSE b[j - (i - 1)]
    <2>1. /\ a \o b \in Seq(S) /\ Len(a \o b) = Len(a) + Len(b)
          /\ \A j \in 1 .. Len(a) + Len(b) : (a \o b)[j] = IF j <= Len(a) THEN a[j] ELSE b[j - Len(a)]
      BY <1>2, <1>3, ConcatProperties
    <2>2. Len(a) + Len(b) = Len(s) - 1
      BY <1>1, <1>2, <1>3
    <2> QED
      BY <1>2, <2>1, <2>2
  <1>6. ASSUME NEW j \in 1 .. Len(s) - 1
        PROVE  (a \o b)[j] = s[IF j < i THEN j ELSE j + 1]
    <2>1. CASE j < i
      BY <1>1, <1>2, <1>5, <2>1
    <2>2. CASE ~(j < i)
      <3>1. j - (i - 1) \in 1 .. Len(s) - i /\ i + (j - (i - 1)) = j + 1
        BY <1>1, <2>2
      <3> QED
        BY <1>1, <1>3, <1>5, <2>2, <3>1
    <2> QED
      BY <2>1, <2>2
  <1> QED
    BY <1>4, <1>5, <1>6

\* A request that ends: if it was the one announced, none of its session is left.
LEMMA EndedAnnounced ==
  ASSUME NEW S, NEW rs \in Seq(S), NEW note, Announced(rs, note), NEW i \in 1 .. Len(rs)
  PROVE  Announced(RemoveAt(rs, i), IF note = rs[i].session THEN 0 ELSE note)
  <1> DEFINE ts == RemoveAt(rs, i)
             at(j) == IF j < i THEN j ELSE j + 1
  <1>1. Len(rs) \in Nat /\ i \in Nat /\ i <= Len(rs)
    OBVIOUS
  <1>2. /\ Len(ts) = Len(rs) - 1
        /\ \A j \in 1 .. Len(rs) - 1 : ts[j] = rs[at(j)]
    BY RemoveAtProperties
  <1>3. \A j \in 1 .. Len(rs) - 1 : at(j) \in 1 .. Len(rs) /\ at(j) # i
    BY <1>1
  <1>4. \A j, k \in 1 .. Len(rs) - 1 : at(j) = at(k) => j = k
    BY <1>1
  <1> HIDE DEF ts, at
  <1> QED
    BY <1>2, <1>3, <1>4 DEF Announced, ts

\* A new one where none of the session was announced.
LEMMA BegunAnnounced ==
  ASSUME NEW S, NEW rs \in Seq(S), NEW note, Announced(rs, note), note # session,
         NEW r \in S, r.session = session, session \in Nat
  PROVE  Announced(Append(rs, r), session)
  <1>1. /\ Len(Append(rs, r)) = Len(rs) + 1 /\ Append(rs, r)[Len(rs) + 1] = r /\ Len(rs) \in Nat
        /\ \A i \in 1 .. Len(rs) : Append(rs, r)[i] = rs[i]
    BY AppendProperties
  <1>2. \A i \in 1 .. Len(rs) : rs[i].session # session
    BY DEF Announced
  <1>3. session <= session
    OBVIOUS
  <1> QED
    BY <1>1, <1>2, <1>3 DEF Announced

\* One that is told something.
LEMMA ToldAnnounced ==
  ASSUME NEW rs, NEW ts, NEW note, Announced(rs, note), Len(ts) = Len(rs),
         \A i \in 1 .. Len(rs) : ts[i].session = rs[i].session
  PROVE  Announced(ts, note)
  BY DEF Announced

LEMMA FromOwned ==
  ASSUME NEW v, NEW r, r.session = session, entry' = From(v, r),
         UNCHANGED <<effects, session>>
  PROVE  EntryOwned'
  BY DEF From, EntryOwned

LEMMA MirrorStart == MInit => MirrorInv
  <1> SUFFICES ASSUME MInit PROVE MirrorInv
    OBVIOUS
  <1>1. fetches \in Seq(Fetches) /\ posts \in Seq(Posts) /\ Len(fetches) = 0 /\ Len(posts) = 0
    BY EmptySeq DEF MInit
  <1> QED
    BY <1>1 DEF MInit, MirrorInv, MirrorTypeOK, Announced, EntryOwned

\* refresh()
LEMMA RefreshKeeps ==
  ASSUME MirrorInv, RefreshJobs, UNCHANGED session
  PROVE  /\ fetches' \in Seq(Fetches) /\ refreshing' \in Nat
         /\ Announced(fetches', refreshing')
  <1> USE DEF MirrorInv, MirrorTypeOK
  <1>1. CASE SignedIn(user) /\ refreshing # session
    <2> DEFINE r == [session |-> session, active |-> Pending, recent |-> Pending]
    <2>1. r \in Fetches /\ r.session = session
      BY DEF Fetches, Answers, Pending
    <2>2. fetches' = Append(fetches, r) /\ refreshing' = session
      BY <1>1 DEF RefreshJobs
    <2> HIDE DEF r
    <2>3. fetches' \in Seq(Fetches)
      BY <2>1, <2>2
    <2> QED
      BY <1>1, <2>1, <2>2, <2>3, BegunAnnounced
  <1>2. CASE ~(SignedIn(user) /\ refreshing # session)
    BY <1>2 DEF RefreshJobs
  <1> QED
    BY <1>1, <1>2

LEMMA BecomeKeeps == ASSUME MirrorInv, NEW u \in Users, Become(u) PROVE MirrorInv'
  <1> USE DEF MirrorInv
  <1>1. /\ session' = session + 1 /\ effects = session /\ requests' = 0
        /\ entry' = entry /\ effects' = effects
        /\ fetches' = fetches /\ posts' = posts /\ refreshing' = refreshing
    BY DEF Become
  <1>2. MirrorTypeOK'
    BY <1>1 DEF MirrorTypeOK
  <1>3. \A n \in Nat : n <= session => n # session' /\ n <= session'
    BY <1>1 DEF MirrorTypeOK
  <1>4. /\ \A i \in 1 .. Len(fetches) : fetches[i].session \in Nat
        /\ \A i \in 1 .. Len(posts) : posts[i].session \in Nat
    <2>1. /\ \A i \in 1 .. Len(fetches) : fetches[i] \in Fetches
          /\ \A i \in 1 .. Len(posts) : posts[i] \in Posts
      BY ElementOfSeq DEF MirrorTypeOK
    <2> QED
      BY <2>1 DEF Fetches, Posts
  <1>a. /\ \A i \in 1 .. Len(fetches) : fetches[i].session # session' /\ fetches[i].session <= session'
        /\ \A i \in 1 .. Len(posts) : posts[i].session # session' /\ posts[i].session <= session'
    BY <1>3, <1>4 DEF Announced
  <1>5. Announced(fetches, refreshing)'
    BY <1>1, <1>a DEF Announced
  <1>6. Announced(posts, requests)'
    BY <1>1, <1>a DEF Announced
  <1>7. EntryOwned'
    BY <1>1 DEF EntryOwned
  <1> QED
    BY <1>2, <1>5, <1>6, <1>7

LEMMA EffectsKeeps == ASSUME MirrorInv, Effects PROVE MirrorInv'
  <1>1. /\ effects' = session /\ entry' = None /\ RefreshJobs
        /\ UNCHANGED <<session, posts, requests>>
    BY DEF Effects
  <1>2. MirrorTypeOK'
    BY <1>1, RefreshKeeps DEF MirrorInv, MirrorTypeOK
  <1>3. Announced(fetches, refreshing)'
    BY <1>1, RefreshKeeps DEF Announced
  <1>4. Announced(posts, requests)'
    BY <1>1 DEF MirrorInv, Announced
  <1> QED
    BY <1>1, <1>2, <1>3, <1>4 DEF MirrorInv, EntryOwned

LEMMA AnswerType == ASSUME FeedTypeOK PROVE ActiveList \in Answers /\ RecentList \in Answers
  <1>1. \A j \in Jobs : View(j) \in Views
    BY ViewType
  <1> QED
    BY <1>1 DEF ActiveList, RecentList, Listed, Answers

LEMMA ServeListKeeps ==
  ASSUME FeedTypeOK, MirrorInv, NEW i \in DOMAIN fetches, ServeList(i)
  PROVE  MirrorInv'
  <1>1. fetches \in Seq(Fetches) /\ i \in 1 .. Len(fetches) /\ fetches[i] \in Fetches
    BY ElementOfSeq DEF MirrorInv, MirrorTypeOK
  <1>2. PICK a \in Answers :
          \/ fetches' = [fetches EXCEPT ![i].active = a]
          \/ fetches' = [fetches EXCEPT ![i].recent = a]
    <2>1. {} \in Answers
      BY DEF Answers
    <2>2. ActiveList \in Answers /\ RecentList \in Answers
      BY AnswerType
    <2>3. PICK fails \in BOOLEAN :
            \/ fetches' = [fetches EXCEPT ![i].active = IF fails THEN {} ELSE ActiveList]
            \/ fetches' = [fetches EXCEPT ![i].recent = IF fails THEN {} ELSE RecentList]
      BY DEF ServeList
    <2> QED
      BY <2>1, <2>2, <2>3
  <1>3. PICK f \in Fetches : f.session = fetches[i].session /\ fetches' = [fetches EXCEPT ![i] = f]
    <2>1. CASE fetches' = [fetches EXCEPT ![i].active = a]
      <3> DEFINE f == [fetches[i] EXCEPT !.active = a]
      <3>1. f \in Fetches /\ f.session = fetches[i].session
        BY <1>1 DEF Fetches
      <3>2. fetches' = [fetches EXCEPT ![i] = f]
        BY <2>1
      <3> QED
        BY <3>1, <3>2
    <2>2. CASE fetches' = [fetches EXCEPT ![i].recent = a]
      <3> DEFINE f == [fetches[i] EXCEPT !.recent = a]
      <3>1. f \in Fetches /\ f.session = fetches[i].session
        BY <1>1 DEF Fetches
      <3>2. fetches' = [fetches EXCEPT ![i] = f]
        BY <2>2
      <3> QED
        BY <3>1, <3>2
    <2> QED
      BY <1>2, <2>1, <2>2
  <1>4. /\ fetches' \in Seq(Fetches) /\ Len(fetches') = Len(fetches)
        /\ \A k \in 1 .. Len(fetches) : fetches'[k].session = fetches[k].session
    BY <1>1, <1>3, ExceptSeq
  <1>5. UNCHANGED <<session, effects, entry, refreshing, posts, requests>>
    BY DEF ServeList
  <1>6. Announced(fetches', refreshing)
    BY <1>4, ToldAnnounced DEF MirrorInv
  <1>7. Announced(fetches, refreshing)' /\ Announced(posts, requests)' /\ EntryOwned'
    BY <1>5, <1>6 DEF MirrorInv, Announced, EntryOwned
  <1> QED
    BY <1>4, <1>5, <1>7 DEF MirrorInv, MirrorTypeOK

LEMMA AdoptKeeps ==
  ASSUME MirrorInv, NEW i \in DOMAIN fetches, Adopt(i)
  PROVE  MirrorInv'
  <1> DEFINE f == fetches[i]
  <1>1. fetches \in Seq(Fetches) /\ i \in 1 .. Len(fetches)
    BY DEF MirrorInv, MirrorTypeOK
  <1>2. /\ fetches' = RemoveAt(fetches, i)
        /\ refreshing' = IF refreshing = f.session THEN 0 ELSE refreshing
        /\ entry' = IF f.session # session THEN entry ELSE From(Newest(f.active \cup f.recent), f)
        /\ UNCHANGED <<session, effects, posts, requests>>
    BY DEF Adopt, Frees, Foreign
  <1> HIDE DEF f
  <1>3. fetches' \in Seq(Fetches)
    BY <1>1, <1>2, RemoveAtProperties
  <1>4. Announced(fetches', refreshing')
    BY <1>1, <1>2, EndedAnnounced DEF MirrorInv, f
  <1>5. Announced(fetches, refreshing)' /\ Announced(posts, requests)'
    BY <1>2, <1>4 DEF MirrorInv, Announced
  <1>6. EntryOwned'
    <2>1. CASE f.session = session
      BY <1>2, <2>1, FromOwned
    <2>2. CASE f.session # session
      BY <1>2, <2>2 DEF MirrorInv, EntryOwned
    <2> QED
      BY <2>1, <2>2
  <1>7. MirrorTypeOK'
    BY <1>2, <1>3 DEF MirrorInv, MirrorTypeOK
  <1> QED
    BY <1>5, <1>6, <1>7 DEF MirrorInv

\* applyDownloadEvent() keeps whose job it is.
LEMMA PatchedOwned ==
  ASSUME FeedTypeOK, EntryOwned, NEW e \in Events, e.kind \notin {"open", "resync"},
         entry' = Patched(e), UNCHANGED <<session, effects>>
  PROVE  EntryOwned'
  <1>1. e.job \in Jobs /\ e.job # 0
    BY DEF Events, Jobs
  <1>2. CASE entry.job # e.job \/ entry = None
    BY <1>1, <1>2 DEF Patched, None, EntryOwned
  <1>3. CASE entry.job = e.job /\ entry # None
    <2>1. /\ entry.from \in {effects, session}
          /\ entry = [job |-> entry.job, status |-> entry.status, task |-> entry.task, from |-> entry.from]
      BY <1>3 DEF EntryOwned
    <2>2. \/ entry' = [job |-> entry.job, status |-> "running", task |-> entry.task, from |-> entry.from]
          \/ entry' = [job |-> entry.job, status |-> entry.status, task |-> TRUE, from |-> entry.from]
          \/ entry' = [job |-> entry.job, status |-> "ended", task |-> entry.task, from |-> entry.from]
          \/ entry' = None \/ entry' = entry
      BY <1>3, <2>1 DEF Patched
    <2> QED
      BY <2>1, <2>2 DEF EntryOwned
  <1> QED
    BY <1>2, <1>3

LEMMA HearKeeps == ASSUME FeedTypeOK, MirrorInv, Hear PROVE MirrorInv'
  <1> DEFINE e == Head(feed)
  <1>1. e \in Events
    BY HeardType DEF Hear, Take
  <1>2. /\ UNCHANGED <<session, effects, posts, requests>>
        /\ IF e.kind \in {"open", "resync"} THEN HearAgain(e) ELSE HearJob(e)
    BY DEF Hear
  <1> HIDE DEF e
  <1>3. CASE e.kind \in {"open", "resync"}
    <2>1. entry' = entry /\ (RefreshJobs \/ UNCHANGED <<fetches, refreshing>>)
      BY <1>2, <1>3 DEF HearAgain
    <2>2. fetches' \in Seq(Fetches) /\ refreshing' \in Nat /\ Announced(fetches', refreshing')
      BY <1>2, <2>1, RefreshKeeps DEF MirrorInv, MirrorTypeOK
    <2> QED
      BY <1>2, <2>1, <2>2 DEF MirrorInv, MirrorTypeOK, Announced, EntryOwned
  <1>4. CASE e.kind \notin {"open", "resync"}
    <2>1. entry' = Patched(e) /\ UNCHANGED <<fetches, refreshing>>
      BY <1>2, <1>4 DEF HearJob
    <2>2. EntryOwned'
      BY <1>1, <1>2, <1>4, <2>1, PatchedOwned DEF MirrorInv
    <2> QED
      BY <1>2, <2>1, <2>2 DEF MirrorInv, MirrorTypeOK, Announced
  <1> QED
    BY <1>3, <1>4

LEMMA LookupKeeps == ASSUME MirrorInv, NEW g, FinishLookup(g) PROVE MirrorInv'
  <1>1. UNCHANGED <<session, effects, fetches, refreshing, posts, requests>>
    BY DEF FinishLookup
  <1>2. EntryOwned'
    <2>1. CASE g.got # None /\ g.session = session
      BY <1>1, <2>1, FromOwned DEF FinishLookup, Adoptable, Foreign
    <2>2. CASE ~(g.got # None /\ g.session = session)
      BY <1>1, <2>2 DEF FinishLookup, Adoptable, Foreign, MirrorInv, EntryOwned
    <2> QED
      BY <2>1, <2>2
  <1> QED
    BY <1>1, <1>2 DEF MirrorInv, MirrorTypeOK, Announced

LEMMA ClickKeeps == ASSUME MirrorInv, Click PROVE MirrorInv'
  <1> DEFINE p == [session |-> session, sent |-> FALSE, got |-> None]
  <1>1. posts \in Seq(Posts) /\ session \in Nat /\ session # 0
    BY DEF MirrorInv, MirrorTypeOK
  <1>2. p \in Posts /\ p.session = session
    BY <1>1 DEF Posts
  <1>3. /\ posts' = Append(posts, p) /\ requests' = session /\ requests = 0
        /\ UNCHANGED <<session, effects, entry, fetches, refreshing>>
    BY DEF Click
  <1> HIDE DEF p
  <1>4. posts' \in Seq(Posts)
    BY <1>1, <1>2, <1>3
  <1>5. Announced(posts', requests')
    BY <1>1, <1>2, <1>3, BegunAnnounced DEF MirrorInv
  <1> QED
    BY <1>3, <1>4, <1>5 DEF MirrorInv, MirrorTypeOK, Announced, EntryOwned

\* A submission that ends.
LEMMA PostEnds ==
  ASSUME MirrorInv, NEW i \in DOMAIN posts, posts' = RemoveAt(posts, i),
         requests' = Forgets(posts[i]), UNCHANGED <<session, effects, fetches, refreshing>>,
         EntryOwned'
  PROVE  MirrorInv'
  <1>1. posts \in Seq(Posts) /\ i \in 1 .. Len(posts)
    BY DEF MirrorInv, MirrorTypeOK
  <1>2. posts' \in Seq(Posts)
    BY <1>1, RemoveAtProperties
  <1>3. requests' = IF requests = posts[i].session THEN 0 ELSE requests
    BY DEF Forgets
  <1>4. Announced(posts', requests')
    BY <1>1, <1>3, EndedAnnounced DEF MirrorInv
  <1>5. requests' \in {0, session}
    BY <1>3 DEF MirrorInv, MirrorTypeOK
  <1> QED
    BY <1>2, <1>4, <1>5 DEF MirrorInv, MirrorTypeOK, Announced

\* A submission that goes out, or is answered.
LEMMA PostTold ==
  ASSUME MirrorInv, NEW i \in DOMAIN posts, NEW p \in Posts, p.session = posts[i].session,
         posts' = [posts EXCEPT ![i] = p],
         UNCHANGED <<session, effects, entry, fetches, refreshing, requests>>
  PROVE  MirrorInv'
  <1>1. posts \in Seq(Posts) /\ i \in 1 .. Len(posts)
    BY DEF MirrorInv, MirrorTypeOK
  <1>2. /\ posts' \in Seq(Posts) /\ Len(posts') = Len(posts)
        /\ \A k \in 1 .. Len(posts) : posts'[k].session = posts[k].session
    BY <1>1, ExceptSeq
  <1>3. Announced(posts', requests)
    BY <1>2, ToldAnnounced DEF MirrorInv
  <1> QED
    BY <1>2, <1>3 DEF MirrorInv, MirrorTypeOK, Announced, EntryOwned

LEMMA PostKeeps ==
  ASSUME FeedTypeOK, FeedTypeOK', MirrorInv, NEW i \in DOMAIN posts,
         Send(i) \/ ServePost(i) \/ FinishPost(i)
  PROVE  MirrorInv'
  <1>1. posts[i] \in Posts
    BY ElementOfSeq DEF MirrorInv, MirrorTypeOK
  <1>2. CASE Send(i)
    <2>1. UNCHANGED <<session, effects, entry, fetches, refreshing>>
      BY <1>2 DEF Send
    <2>2. CASE Foreign(posts[i])
      <3>1. posts' = RemoveAt(posts, i) /\ requests' = Forgets(posts[i])
        BY <1>2, <2>2 DEF Send
      <3> QED
        BY <2>1, <3>1, PostEnds DEF MirrorInv, EntryOwned
    <2>3. CASE ~Foreign(posts[i])
      <3> DEFINE p == [posts[i] EXCEPT !.sent = TRUE]
      <3>1. p \in Posts /\ p.session = posts[i].session
        BY <1>1 DEF Posts
      <3>2. posts' = [posts EXCEPT ![i] = p] /\ UNCHANGED requests
        BY <1>2, <2>3 DEF Send
      <3> HIDE DEF p
      <3> QED
        BY <2>1, <3>1, <3>2, PostTold
    <2> QED
      BY <2>2, <2>3
  <1>3. CASE ServePost(i)
    <2>1. PICK j \in Jobs : posts' = [posts EXCEPT ![i].got = View(j)']
      BY <1>3 DEF ServePost
    <2>2. View(j)' \in Views
      <3>1. lvl'[j] \in 0 .. 5
        BY DEF FeedTypeOK
      <3>2. StatusAt(lvl'[j]) \in Statuses
        BY <3>1 DEF StatusAt, Statuses
      <3> QED
        BY <3>1, <3>2 DEF View, Views
    <2> DEFINE v == View(j)'
               p == [posts[i] EXCEPT !.got = v]
    <2>3. p \in Posts /\ p.session = posts[i].session
      BY <1>1, <2>2 DEF Posts
    <2>4. posts' = [posts EXCEPT ![i] = p]
      BY <2>1
    <2>5. UNCHANGED <<session, effects, entry, fetches, refreshing, requests>>
      BY <1>3 DEF ServePost
    <2> HIDE DEF p, v
    <2> QED
      BY <2>3, <2>4, <2>5, PostTold
  <1>4. CASE FinishPost(i)
    <2>1. /\ posts' = RemoveAt(posts, i) /\ requests' = Forgets(posts[i])
          /\ UNCHANGED <<session, effects, fetches, refreshing>>
      BY <1>4 DEF FinishPost
    <2>2. EntryOwned'
      <3>1. CASE posts[i].got # None /\ posts[i].session = session
        BY <1>4, <2>1, <3>1, FromOwned DEF FinishPost, Foreign
      <3>2. CASE ~(posts[i].got # None /\ posts[i].session = session)
        BY <1>4, <2>1, <3>2 DEF FinishPost, Foreign, MirrorInv, EntryOwned
      <3> QED
        BY <3>1, <3>2
    <2> QED
      BY <2>1, <2>2, PostEnds
  <1> QED
    BY <1>2, <1>3, <1>4

\* The steps of the mirror move the feed as they may.
LEMMA MirrorFeeds == ASSUME FeedTypeOK, MNext PROVE FeedMoves
  <1>1. CASE CoreSide
    BY <1>1 DEF CoreSide, FeedMoves
  <1>2. ASSUME NEW i \in DOMAIN posts, ServePost(i) PROVE FeedMoves
    <2>1. CASE UNCHANGED fvars
      BY <2>1 DEF FeedMoves
    <2>2. CASE ~UNCHANGED fvars
      <3>1. PICK j \in Jobs : Create(j)
        BY <1>2, <2>2 DEF ServePost
      <3> QED
        BY <3>1 DEF JobStep, FeedMoves
    <2> QED
      BY <2>1, <2>2
  <1>3. ASSUME NEW u \in Users, Become(u) PROVE FeedMoves
    BY <1>3 DEF Become, FeedMoves, fvars
  <1>4. CASE Effects
    BY <1>4 DEF Effects, FeedMoves, fvars
  <1>5. CASE Accepted
    BY <1>5 DEF Accepted, FeedMoves
  <1>6. CASE Hear
    BY <1>6 DEF Hear, FeedMoves
  <1>7. CASE Sweep \/ Click
    BY <1>7 DEF Sweep, Click, FeedMoves, fvars
  <1>8. ASSUME NEW i \in DOMAIN fetches, ServeList(i) \/ Adopt(i) PROVE FeedMoves
    BY <1>8 DEF ServeList, Adopt, FeedMoves, fvars
  <1>9. ASSUME NEW g \in lookups, ServeLookup(g) \/ FinishLookup(g) PROVE FeedMoves
    BY <1>9 DEF ServeLookup, FinishLookup, FeedMoves, fvars
  <1>10. ASSUME NEW i \in DOMAIN posts, Send(i) \/ FinishPost(i) PROVE FeedMoves
    BY <1>10 DEF Send, FinishPost, FeedMoves, fvars
  <1> QED
    BY <1>1, <1>2, <1>3, <1>4, <1>5, <1>6, <1>7, <1>8, <1>9, <1>10 DEF MNext

LEMMA MirrorStep ==
  ASSUME FeedTypeOK, MirrorInv, MNext \/ UNCHANGED mirror
  PROVE  MirrorInv'
  <1>1. CASE Accepted \/ CoreSide \/ UNCHANGED mirror \/ Sweep \/ \E g \in lookups : ServeLookup(g)
    <2>1. /\ UNCHANGED <<session, effects, fetches, refreshing, posts, requests>>
          /\ entry' = entry \/ entry' = None
      BY <1>1 DEF Accepted, CoreSide, Sweep, ServeLookup, mirror
    <2> QED
      BY <2>1 DEF MirrorInv, MirrorTypeOK, Announced, EntryOwned
  <1>2. ASSUME NEW i \in DOMAIN posts, Send(i) \/ ServePost(i) \/ FinishPost(i) PROVE MirrorInv'
    <2>1. MNext
      BY <1>2 DEF MNext
    <2>2. FeedTypeOK'
      BY <2>1, MirrorFeeds, FeedKeeps
    <2> QED
      BY <1>2, <2>2, PostKeeps
  <1> QED
    BY <1>1, <1>2, BecomeKeeps, EffectsKeeps, HearKeeps, ClickKeeps, ServeListKeeps, AdoptKeeps,
       LookupKeeps DEF MNext

\* So do those of the downloads page.
LEMMA PageFeeds == ASSUME FeedTypeOK, PNext PROVE FeedMoves
  <1>1. CASE (JobStep \/ Resync) /\ UNCHANGED jobsPage
    BY <1>1 DEF FeedMoves, fvars
  <1>2. CASE StreamOpens \/ Listen \/ Fire
    BY <1>2 DEF StreamOpens, Listen, Fire, FeedMoves, fvars
  <1>3. ASSUME NEW f \in Filters, Choose(f) PROVE FeedMoves
    BY <1>3 DEF Choose, FeedMoves, fvars
  <1>4. ASSUME NEW r \in asked, ServeRows(r) \/ ShowRows(r) PROVE FeedMoves
    BY <1>4 DEF ServeRows, ShowRows, FeedMoves, fvars
  <1> QED
    BY <1>1, <1>2, <1>3, <1>4 DEF PNext

-----------------------------------------------------------------------------
(* Each part in the whole client: it takes its own steps, or rests.        *)

LEMMA MirrorPart == [WNext]_wvars => MNext \/ (UNCHANGED mirror /\ (PNext \/ UNCHANGED fvars))
  BY DEF WNext, wvars, Mirror, Downloads, Selection, Bookmark, Numbered, Panel, Viewer, Kept

LEMMA SelectionPart == [WNext]_wvars => [SNext]_selvars
  BY DEF WNext, wvars, Mirror, Downloads, Selection, Bookmark, Numbered, Panel, Viewer, Kept

LEMMA BookmarkPart == [WNext]_wvars => [BNext]_bvars
  BY DEF WNext, wvars, Mirror, Downloads, Selection, Bookmark, Numbered, Panel, Viewer, Kept

LEMMA PagerPart == [WNext]_wvars => [GNext]_gvars
  BY DEF WNext, wvars, Mirror, Downloads, Selection, Bookmark, Numbered, Panel, Viewer, Kept

LEMMA PanelPart == [WNext]_wvars => [NNext]_nvars
  BY DEF WNext, wvars, Mirror, Downloads, Selection, Bookmark, Numbered, Panel, Viewer, Kept

LEMMA ViewerPart == [WNext]_wvars => [XNext]_xvars
  BY DEF WNext, wvars, Mirror, Downloads, Selection, Bookmark, Numbered, Panel, Viewer, Kept

LEMMA KeptPart == [WNext]_wvars => [KNext]_kvars
  BY DEF WNext, wvars, Mirror, Downloads, Selection, Bookmark, Numbered, Panel, Viewer, Kept

LEMMA PartStarts == WInit => MInit /\ PInit /\ SInit /\ BInit /\ GInit /\ NInit /\ XInit /\ KInit
  BY DEF WInit

-----------------------------------------------------------------------------
LEMMA FeedCorrect == WSpec => []FeedTypeOK
  <1>1. WInit => FeedTypeOK
    BY PartStarts, FeedStart DEF MInit
  <1>2. FeedTypeOK /\ [WNext]_wvars => FeedTypeOK'
    <2> SUFFICES ASSUME FeedTypeOK, [WNext]_wvars PROVE FeedTypeOK'
      OBVIOUS
    <2>1. FeedMoves
      BY MirrorPart, MirrorFeeds, PageFeeds DEF FeedMoves
    <2> QED
      BY <2>1, FeedKeeps
  <1> QED
    BY <1>1, <1>2, PTL DEF WSpec

LEMMA MirrorCorrect == WSpec => []MirrorInv
  <1>1. WInit => MirrorInv
    BY PartStarts, MirrorStart
  <1>2. FeedTypeOK /\ MirrorInv /\ [WNext]_wvars => MirrorInv'
    BY MirrorPart, MirrorStep
  <1> QED
    BY <1>1, <1>2, FeedCorrect, PTL DEF WSpec

LEMMA AtMostOne ==
  ASSUME NEW T, \A x, y \in T : x = y
  PROVE  Cardinality(T) <= 1
  <1>1. CASE T = {}
    BY <1>1, FS_EmptySet
  <1>2. ASSUME NEW x \in T PROVE Cardinality(T) <= 1
    <2>1. T = {x}
      OBVIOUS
    <2>2. Cardinality({x}) = 1
      BY FS_Singleton
    <2> QED
      BY <2>1, <2>2
  <1> QED
    BY <1>1, <1>2

\* Whatever the answers and the sessions, a page shows no job that an earlier user asked for,
\* and a session never has two submissions or two refreshes under way, for any number of
\* sessions, requests and events (download-state-provider.tsx, scoped-submissions.ts).
THEOREM SessionScopedAlways == WSpec => []SessionScoped
  <1>1. MirrorInv => SessionScoped
    <2> SUFFICES ASSUME MirrorInv PROVE SessionScoped
      OBVIOUS
    <2>1. DOMAIN fetches = 1 .. Len(fetches) /\ DOMAIN posts = 1 .. Len(posts)
      BY DEF MirrorInv, MirrorTypeOK
    <2>2. \A i, j \in OfThisSession(fetches) : i = j
      BY <2>1 DEF OfThisSession, MirrorInv, Announced
    <2>3. \A i, j \in {k \in OfThisSession(posts) : posts[k].sent} : i = j
      BY <2>1 DEF OfThisSession, MirrorInv, Announced
    <2>4. OneRefresh
      BY <2>2, AtMostOne DEF OneRefresh
    <2>5. OnePost
      BY <2>3, AtMostOne DEF OnePost
    <2> QED
      BY <2>4, <2>5 DEF SessionScoped, NoForeignEntries, MirrorInv, EntryOwned
  <1> QED
    BY <1>1, MirrorCorrect, PTL

-----------------------------------------------------------------------------
(* The update panel.  Snapshots are numbered as they are published: none   *)
(* that is held or on its way lies about the newest number, and the newest *)
(* is held or on its way, or the page has heard nothing and was sent       *)
(* nothing, and waits for the answer to its read or will not get it.       *)

Notes == [n : Int, state : SnapStates, ready : BOOLEAN]
Overlaid == {"preparing-install", "installing"}

\* An installation under way has the controller to itself, and is what it shows.
Installs == instOp \in {"verify", "rehydrate", "quit"}
ControllerTypeOK ==
  /\ snap \in SnapStates /\ uready \in BOOLEAN
  /\ downOp \in {"idle", "wait", "fetch", "verify"}
Alone ==
  /\ ~closing
  /\ checkOp # "idle" => downOp \in {"idle", "wait"}
  /\ downOp \in {"fetch", "verify"} => ~uready
  /\ Installs => checkOp = "idle" /\ downOp = "idle" /\ ~prepared
  /\ prepared => ops = <<"idle", "idle", "idle">>
  /\ Installs <=> snap = "preparing-install"
  /\ prepared <=> snap = "installing"
ControllerInv == ControllerTypeOK /\ Alone

NewsTypeOK == news \in Nat /\ sent \in Seq(Notes) /\ reading \in Notes /\ shown \in Notes
Faithful(s) == s.n <= news /\ (s.n = news => s = Snapshot)
NewsInv ==
  /\ NewsTypeOK /\ Faithful(shown) /\ Faithful(reading)
  /\ \A i \in 1 .. Len(sent) : Faithful(sent[i])
  /\ \/ reading.n = news \/ shown.n = news \/ \E i \in 1 .. Len(sent) : sent[i].n = news
     \/ reading \in {Asked, Failed} /\ shown = NoNews /\ sent = <<>>

Spinners ==
  /\ checking => checks \/ shown.state = "checking"
  /\ applying => shown.state \in Overlaid
  /\ shown.n = news /\ shown.state \in Overlaid => applying

PanelInv == ControllerInv /\ NewsInv /\ Spinners

ControllerMoves ==
  \/ \E ok \in BOOLEAN : CheckVerifies(ok) \/ InstallVerifies(ok)
  \/ Check \/ CheckFails \/ CheckFindsNone \/ CheckOffers
  \/ Download \/ DownloadStarts \/ DownloadFails \/ Downloaded \/ DownloadVerified
  \/ Install \/ InstallStarts \/ Rehydrated \/ InstallFails \/ HandOver \/ InstallerFails
  \/ UNCHANGED uvars

LEMMA ControllerTyped == ASSUME ControllerTypeOK, ControllerMoves PROVE ControllerTypeOK'
  <1> USE DEF ControllerTypeOK, SnapStates, Publish, ops, quit
  <1>1. ASSUME NEW ok \in BOOLEAN, CheckVerifies(ok) PROVE ControllerTypeOK'
    BY <1>1 DEF CheckVerifies
  <1>2. ASSUME NEW ok \in BOOLEAN, InstallVerifies(ok) PROVE ControllerTypeOK'
    BY <1>2 DEF InstallVerifies
  <1>3. CASE Check
    BY <1>3 DEF Check
  <1>4. CASE CheckFails
    BY <1>4 DEF CheckFails
  <1>5. CASE CheckFindsNone
    BY <1>5 DEF CheckFindsNone
  <1>6. CASE CheckOffers
    BY <1>6 DEF CheckOffers
  <1>7. CASE Download
    BY <1>7 DEF Download
  <1>8. CASE DownloadStarts
    BY <1>8 DEF DownloadStarts
  <1>9. CASE DownloadFails
    BY <1>9 DEF DownloadFails
  <1>10. CASE Downloaded
    BY <1>10 DEF Downloaded
  <1>11. CASE DownloadVerified
    BY <1>11 DEF DownloadVerified
  <1>12. CASE Install
    BY <1>12 DEF Install
  <1>13. CASE InstallStarts
    BY <1>13 DEF InstallStarts
  <1>14. CASE Rehydrated
    BY <1>14 DEF Rehydrated
  <1>15. CASE InstallFails
    BY <1>15 DEF InstallFails
  <1>16. CASE HandOver
    BY <1>16 DEF HandOver
  <1>17. CASE InstallerFails
    BY <1>17 DEF InstallerFails
  <1>18. CASE UNCHANGED uvars
    BY <1>18 DEF uvars
  <1> QED
    BY <1>1, <1>2, <1>3, <1>4, <1>5, <1>6, <1>7, <1>8, <1>9,
       <1>10, <1>11, <1>12, <1>13, <1>14, <1>15, <1>16, <1>17, <1>18 DEF ControllerMoves

LEMMA AloneKept == ASSUME ControllerTypeOK, Alone, ControllerMoves PROVE Alone'
  <1> USE DEF Alone, Installs, Publish, ops, quit
  <1>1. ASSUME NEW ok \in BOOLEAN, CheckVerifies(ok) PROVE Alone'
    BY <1>1 DEF CheckVerifies
  <1>2. ASSUME NEW ok \in BOOLEAN, InstallVerifies(ok) PROVE Alone'
    BY <1>2 DEF InstallVerifies
  <1>3. CASE Check
    BY <1>3 DEF Check
  <1>4. CASE CheckFails
    BY <1>4 DEF CheckFails
  <1>5. CASE CheckFindsNone
    BY <1>5 DEF CheckFindsNone
  <1>6. CASE CheckOffers
    BY <1>6 DEF CheckOffers
  <1>7. CASE Download
    BY <1>7 DEF Download
  <1>8. CASE DownloadStarts
    BY <1>8 DEF DownloadStarts
  <1>9. CASE DownloadFails
    BY <1>9 DEF DownloadFails
  <1>10. CASE Downloaded
    BY <1>10 DEF Downloaded
  <1>11. CASE DownloadVerified
    BY <1>11 DEF DownloadVerified
  <1>12. CASE Install
    BY <1>12 DEF Install
  <1>13. CASE InstallStarts
    BY <1>13 DEF InstallStarts, ControllerTypeOK
  <1>14. CASE Rehydrated
    BY <1>14 DEF Rehydrated
  <1>15. CASE InstallFails
    BY <1>15 DEF InstallFails
  <1>16. CASE HandOver
    BY <1>16 DEF HandOver
  <1>17. CASE InstallerFails
    BY <1>17 DEF InstallerFails
  <1>18. CASE UNCHANGED uvars
    BY <1>18 DEF uvars
  <1> QED
    BY <1>1, <1>2, <1>3, <1>4, <1>5, <1>6, <1>7, <1>8, <1>9,
       <1>10, <1>11, <1>12, <1>13, <1>14, <1>15, <1>16, <1>17, <1>18 DEF ControllerMoves

\* publish() keeps the numbers in step.
LEMMA ToldKeeps ==
  ASSUME ControllerTypeOK', NewsInv, Told, UNCHANGED <<reading, shown>>
  PROVE  NewsInv' /\ (news' = news \/ news' = news + 1)
                  /\ (news' = news => UNCHANGED <<snap, uready>>)
  <1> USE DEF NewsInv, NewsTypeOK
  <1>1. CASE UNCHANGED <<snap, uready, news, sent>>
    BY <1>1 DEF Faithful, Snapshot
  <1>2. CASE ~UNCHANGED <<snap, uready, news, sent>>
    <2>1. news' = news + 1 /\ sent' = Append(sent, Snapshot')
      BY <1>2 DEF Told, Published
    <2>2. Snapshot' = [n |-> news', state |-> snap', ready |-> uready']
      BY DEF Snapshot
    <2>3. news' \in Nat /\ news' \in Int
      BY <2>1
    <2>4. Snapshot' \in Notes /\ Snapshot'.n = news'
      BY <2>2, <2>3 DEF Notes, ControllerTypeOK
    <2>5. /\ sent' \in Seq(Notes) /\ Len(sent') = Len(sent) + 1 /\ sent'[Len(sent) + 1] = Snapshot'
          /\ \A i \in 1 .. Len(sent) : sent'[i] = sent[i]
      BY <2>1, <2>4, AppendProperties
    <2>6. ASSUME NEW s \in Notes, Faithful(s) PROVE s.n <= news' /\ s.n # news'
      BY <2>1, <2>6 DEF Faithful, Notes
    <2>7. \A i \in 1 .. Len(sent) : sent[i] \in Notes
      BY ElementOfSeq
    <2>8. \A i \in 1 .. Len(sent) : sent'[i].n <= news' /\ sent'[i].n # news'
      BY <2>5, <2>6, <2>7
    <2>9. shown.n <= news' /\ shown.n # news' /\ reading.n <= news' /\ reading.n # news'
      BY <2>6
    <2>10. Len(sent) + 1 \in 1 .. Len(sent') /\ \A i \in 1 .. Len(sent') : i \in 1 .. Len(sent) \/ i = Len(sent) + 1
      BY <2>5
    <2>11. \A i \in 1 .. Len(sent') : sent'[i].n <= news' /\ (sent'[i].n = news' => sent'[i] = Snapshot')
      <3>1. news' <= news'
        BY <2>3
      <3> QED
        BY <3>1, <2>4, <2>5, <2>8, <2>10
    <2>12. \E i \in 1 .. Len(sent') : sent'[i].n = news'
      BY <2>4, <2>5, <2>10
    <2>13. NewsTypeOK'
      BY <2>3, <2>5
    <2>14. Faithful(shown)' /\ Faithful(reading)'
      BY <2>9 DEF Faithful
    <2>15. (\A i \in 1 .. Len(sent) : Faithful(sent[i]))'
      BY <2>11 DEF Faithful
    <2>16. NewsInv'
      BY <2>12, <2>13, <2>14, <2>15
    <2> QED
      BY <2>1, <2>16
  <1> QED
    BY <1>1, <1>2 DEF Told

\* What reaches the page is taken if it is newer.
LEMMA DeliverKeeps ==
  ASSUME NewsInv, Spinners, NEW s \in Notes, Faithful(s), Deliver(s),
         UNCHANGED <<snap, uready, news, checks>>
  PROVE  /\ shown' \in Notes /\ Faithful(shown)' /\ Spinners'
         /\ s.n = news \/ shown.n = news => shown'.n = news
  <1>1. CASE ~Newer(s)
    <2>1. UNCHANGED <<shown, checking, applying>>
      BY <1>1 DEF Deliver
    <2>2. s.n = news => shown.n = news
      BY <1>1 DEF Newer, NewsInv, NewsTypeOK, Notes, Faithful
    <2> QED
      BY <2>1, <2>2 DEF NewsInv, NewsTypeOK, Faithful, Spinners, Snapshot
  <1>2. CASE Newer(s)
    <2>1. shown' = s /\ checking' = (s.state = "checking") /\ applying' = (s.state \in Overlaid)
      BY <1>2 DEF Deliver, Overlaid
    <2>2. shown.n # news
      BY <1>2 DEF Newer, NewsInv, NewsTypeOK, Notes, Faithful
    <2>3. Spinners'
      BY <2>1 DEF Spinners
    <2> QED
      BY <2>1, <2>2, <2>3 DEF NewsInv, Faithful, Snapshot
  <1> QED
    BY <1>1, <1>2

\* What is no answer is numbered below all that are.
LEMMA ReadNumbers ==
  /\ NoNews \in Notes /\ NoNews.n = -1 /\ Asked \in Notes /\ Asked.n = -2
  /\ Arrived \in Notes /\ Arrived.n = -3 /\ Failed \in Notes /\ Failed.n = -4
  <1>1. NoNews \in Notes /\ NoNews.n = -1
    BY DEF NoNews, Notes, SnapStates
  <1>2. -2 \in Int /\ -3 \in Int /\ -4 \in Int
    OBVIOUS
  <1> QED
    BY ONLY <1>1, <1>2 DEF Asked, Arrived, Failed, Notes

LEMMA PanelStart == NInit => PanelInv
  <1> SUFFICES ASSUME NInit PROVE PanelInv
    OBVIOUS
  <1>1. ControllerInv
    BY DEF NInit, UpdInit, ControllerInv, ControllerTypeOK, Alone, Installs, SnapStates, ops
  <1>2. sent \in Seq(Notes) /\ Len(sent) = 0
    BY EmptySeq DEF NInit
  <1>3. NoNews \in Notes /\ NoNews.n = -1 /\ NoNews.state = "rest"
    BY DEF NoNews, Notes, SnapStates
  <1>4. Asked \in Notes /\ Asked.n = -2
    BY <1>3 DEF Asked, Notes
  <1>5. NewsInv
    BY <1>2, <1>3, <1>4 DEF NInit, NewsInv, NewsTypeOK, Faithful
  <1>6. Spinners
    BY <1>3 DEF NInit, Spinners, Overlaid
  <1> QED
    BY <1>1, <1>5, <1>6 DEF PanelInv

\* A step of the controller that is published.
LEMMA PublishKeeps ==
  ASSUME PanelInv, ControllerMoves, Told, UNCHANGED <<reading, shown>>,
         UNCHANGED <<checking, checks>> \/ checks', applying' = applying
  PROVE  PanelInv'
  <1>1. ControllerTypeOK' /\ Alone'
    BY ControllerTyped, AloneKept DEF PanelInv, ControllerInv
  <1>2. NewsInv' /\ (news' = news \/ news' = news + 1)
    BY <1>1, ToldKeeps DEF PanelInv
  <1>3. shown.n = news' => shown.n = news
    BY <1>2 DEF PanelInv, NewsInv, NewsTypeOK, Faithful, Notes
  <1>4. checking' => checks' \/ shown'.state = "checking"
    BY DEF PanelInv, Spinners
  <1>5. Spinners'
    BY <1>3, <1>4 DEF PanelInv, Spinners
  <1> QED
    BY <1>1, <1>2, <1>5 DEF PanelInv, ControllerInv

\* A step that the controller takes without a word, or does not take.
LEMMA QuietKeeps ==
  ASSUME PanelInv, ControllerMoves, UNCHANGED <<snap, uready, news, sent, reading, shown>>,
         Spinners'
  PROVE  PanelInv'
  <1>1. ControllerTypeOK' /\ Alone'
    BY ControllerTyped, AloneKept DEF PanelInv, ControllerInv
  <1>2. NewsInv'
    BY DEF PanelInv, NewsInv, NewsTypeOK, Faithful, Snapshot
  <1> QED
    BY <1>1, <1>2 DEF PanelInv, ControllerInv

LEMMA HeardKeeps == ASSUME PanelInv, Heard PROVE PanelInv'
  <1> DEFINE s == Head(sent)
  <1>1. sent \in Seq(Notes) /\ Len(sent) \in Nat /\ Len(sent) > 0
    BY DEF PanelInv, NewsInv, NewsTypeOK, Heard
  <1>2. s = sent[1] /\ 1 \in 1 .. Len(sent) /\ s \in Notes
    BY <1>1, ElementOfSeq
  <1>3. sent' = Tail(sent) /\ Deliver(s) /\ UNCHANGED <<uvars, news, reading, call, checks, prompt>>
    BY DEF Heard
  <1>4. /\ sent' \in Seq(Notes) /\ Len(sent') = Len(sent) - 1
        /\ \A i \in 1 .. Len(sent) - 1 : sent'[i] = sent[i + 1]
    BY <1>1, <1>3, HeadTailProperties
  <1> HIDE DEF s
  <1>5. Faithful(s)
    BY <1>2 DEF PanelInv, NewsInv
  <1>6. UNCHANGED <<snap, uready>>
    BY <1>3 DEF uvars
  <1>7. /\ shown' \in Notes /\ Faithful(shown)' /\ Spinners'
        /\ s.n = news \/ shown.n = news => shown'.n = news
    BY <1>2, <1>3, <1>5, <1>6, DeliverKeeps DEF PanelInv
  <1>8. \A i \in 1 .. Len(sent') : i + 1 \in 1 .. Len(sent) /\ sent'[i] = sent[i + 1]
    BY <1>1, <1>4
  <1>9. (\A i \in 1 .. Len(sent) : Faithful(sent[i]))'
    BY <1>3, <1>6, <1>8 DEF PanelInv, NewsInv, Faithful, Snapshot
  <1>10. reading.n = news \/ shown'.n = news \/ \E i \in 1 .. Len(sent') : sent'[i].n = news
    <2>1. ASSUME NEW i \in 1 .. Len(sent), sent[i].n = news, i # 1
          PROVE  \E k \in 1 .. Len(sent') : sent'[k].n = news
      <3>1. i - 1 \in 1 .. Len(sent') /\ sent'[i - 1] = sent[i]
        BY <1>1, <1>4, <2>1
      <3> QED
        BY <2>1, <3>1
    <2> QED
      BY <1>1, <1>2, <1>7, <2>1 DEF PanelInv, NewsInv
  <1>11. NewsTypeOK' /\ Faithful(reading)'
    BY <1>3, <1>4, <1>6, <1>7 DEF PanelInv, NewsInv, NewsTypeOK, Faithful, Snapshot
  <1>12. NewsInv'
    BY <1>3, <1>7, <1>9, <1>10, <1>11 DEF NewsInv
  <1>13. ControllerInv'
    BY <1>3 DEF uvars, PanelInv, ControllerInv, ControllerTypeOK, Alone, Installs, ops
  <1> QED
    BY <1>7, <1>12, <1>13 DEF PanelInv

\* The answer to read(), as it is given and as it arrives, and its failure.
LEMMA ReadKeeps == ASSUME PanelInv, ReadServed \/ ReadArrives \/ ReadFails PROVE PanelInv'
  <1> USE DEF PanelInv, NewsInv, NewsTypeOK
  <1>u. UNCHANGED <<uvars, news, sent, checks>>
    BY DEF ReadServed, ReadArrives, ReadFails
  <1>s. UNCHANGED <<snap, uready>> /\ Snapshot' = Snapshot
    BY <1>u DEF uvars, Snapshot
  <1>c. ControllerInv'
    BY <1>u DEF uvars, ControllerInv, ControllerTypeOK, Alone, Installs, ops
  <1>1. CASE ReadServed
    <2>1. reading' = Snapshot /\ UNCHANGED <<shown, checking, applying>>
      BY <1>1 DEF ReadServed
    <2>2. Snapshot \in Notes /\ Snapshot.n = news /\ news <= news
      BY DEF Snapshot, Notes, ControllerInv, ControllerTypeOK
    <2>3. NewsInv'
      BY <1>u, <1>s, <2>1, <2>2 DEF Faithful
    <2>4. Spinners'
      BY <1>u, <2>1 DEF Spinners
    <2> QED
      BY <1>c, <2>3, <2>4
  <1>2. CASE ReadArrives
    <2>1. reading.n >= 0 /\ reading' = Arrived /\ Deliver(reading)
      BY <1>2 DEF ReadArrives
    <2>2. Arrived \in Notes /\ Arrived.n = -3 /\ Asked.n = -2 /\ Failed.n = -4
      BY ReadNumbers
    <2>3. /\ shown' \in Notes /\ Faithful(shown)' /\ Spinners'
          /\ reading.n = news \/ shown.n = news => shown'.n = news
      BY <1>u, <1>s, <2>1, DeliverKeeps
    <2>4. Faithful(reading)'
      BY <1>u, <2>1, <2>2 DEF Faithful
    <2>5. (\A i \in 1 .. Len(sent) : Faithful(sent[i]))'
      BY <1>u, <1>s DEF Faithful
    <2>6. NewsTypeOK'
      BY <1>u, <2>1, <2>2, <2>3
    <2>7. reading \notin {Asked, Failed}
      BY <2>1, <2>2
    <2>8. shown'.n = news' \/ \E i \in 1 .. Len(sent') : sent'[i].n = news'
      BY <1>u, <2>3, <2>7
    <2> QED
      BY <1>c, <2>3, <2>4, <2>5, <2>6, <2>8
  <1>3. CASE ReadFails
    <2>1. reading = Asked /\ reading' = Failed /\ UNCHANGED <<shown, applying>> /\ (checking' => checking)
      BY <1>3 DEF ReadFails
    <2>2. Failed \in Notes /\ Failed.n = -4 /\ Asked.n = -2 /\ news \in Nat
      BY ReadNumbers
    <2>3. NewsInv'
      BY <1>u, <1>s, <2>1, <2>2 DEF Faithful
    <2>4. Spinners'
      BY <1>u, <2>1 DEF Spinners
    <2> QED
      BY <1>c, <2>3, <2>4
  <1> QED
    BY <1>1, <1>2, <1>3

LEMMA ReloadKeeps == ASSUME PanelInv, Reload PROVE PanelInv'
  <1>1. /\ news' = news + 1 /\ sent' = <<>> /\ reading' = Asked /\ shown' = NoNews
        /\ ~checking' /\ ~applying' /\ UNCHANGED uvars
    BY DEF Reload
  <1>2. sent' \in Seq(Notes) /\ Len(sent') = 0
    BY <1>1, EmptySeq
  <1>3. NoNews \in Notes /\ NoNews.n = -1 /\ NoNews.state = "rest"
    BY DEF NoNews, Notes, SnapStates
  <1>4. Asked \in Notes /\ Asked.n = -2
    BY <1>3 DEF Asked, Notes
  <1>5. news' \in Nat
    BY <1>1 DEF PanelInv, NewsInv, NewsTypeOK
  <1>6. NewsInv'
    BY <1>1, <1>2, <1>3, <1>4, <1>5 DEF NewsInv, NewsTypeOK, Faithful
  <1>7. Spinners'
    BY <1>1, <1>3 DEF Spinners, Overlaid
  <1>8. ControllerInv'
    BY <1>1 DEF uvars, PanelInv, ControllerInv, ControllerTypeOK, Alone, Installs, ops
  <1> QED
    BY <1>6, <1>7, <1>8 DEF PanelInv

\* The calls of the page.
LEMMA CallKeeps ==
  ASSUME PanelInv,
         CheckAnswered \/ DownloadAnswered \/ Counted \/ Confirm \/ CancelRestart \/ RestartAnswered
  PROVE  PanelInv'
  <1>1. ControllerMoves /\ UNCHANGED <<snap, uready>>
    BY DEF CheckAnswered, DownloadAnswered, Counted, Confirm, CancelRestart, RestartAnswered, Restart,
           Install, ControllerMoves, uvars
  <1>2. UNCHANGED <<news, sent, reading, shown>>
    BY DEF CheckAnswered, DownloadAnswered, Counted, Confirm, CancelRestart, RestartAnswered
  <1>3. Spinners'
    <2>1. CASE CheckAnswered
      BY <2>1 DEF CheckAnswered, PanelInv, Spinners
    <2>2. CASE DownloadAnswered \/ Counted \/ Confirm \/ CancelRestart
      BY <2>2 DEF DownloadAnswered, Counted, Confirm, CancelRestart, PanelInv, Spinners
    <2>3. CASE RestartAnswered
      <3>1. instOp = "idle" /\ (applying' <=> applying /\ prepared) /\ UNCHANGED <<checking, checks>>
        BY ONLY <2>3, Zenon DEF RestartAnswered
      <3>2. ASSUME shown.n = news, shown.state \in Overlaid PROVE prepared
        <4>1. snap = shown.state
          BY <3>2 DEF PanelInv, NewsInv, Faithful, Snapshot
        <4> QED
          BY <3>1, <3>2, <4>1 DEF Overlaid, PanelInv, ControllerInv, Alone, Installs
      <3> QED
        BY <1>2, <3>1, <3>2 DEF PanelInv, Spinners
    <2> QED
      BY <2>1, <2>2, <2>3
  <1> QED
    BY <1>1, <1>2, <1>3, QuietKeeps

LEMMA PanelStep == PanelInv /\ [NNext]_nvars => PanelInv'
  <1> SUFFICES ASSUME PanelInv, [NNext]_nvars PROVE PanelInv'
    OBVIOUS
  <1>1. CASE ControllerStep
    BY <1>1, PublishKeeps DEF ControllerStep, ControllerMoves
  <1>2. CASE CheckNow
    BY <1>2, PublishKeeps DEF CheckNow, ControllerMoves
  <1>3. CASE Apply
    <2>1. ControllerMoves
      BY <1>3 DEF Apply, ControllerMoves
    <2>2. Told /\ UNCHANGED <<reading, shown, checking, applying, checks>>
      BY <1>3 DEF Apply
    <2> QED
      BY <2>1, <2>2, PublishKeeps
  <1>4. CASE UNCHANGED nvars
    BY <1>4, QuietKeeps DEF nvars, panel, uvars, ControllerMoves, PanelInv, Spinners
  <1> QED
    BY <1>1, <1>2, <1>3, <1>4, HeardKeeps, ReadKeeps, ReloadKeeps, CallKeeps DEF NNext

\* Whatever is published, delivered, read or reloaded in between, the page ends up with the
\* update as the shell has it, and no spinner or overlay stays behind (update-provider.tsx,
\* desktop-update-state.ts).
THEOREM PanelFollowsAlways == WSpec => []PanelFollows
  <1>1. WInit => PanelInv
    BY PartStarts, PanelStart
  <1>2. PanelInv /\ [WNext]_wvars => PanelInv'
    BY PanelPart, PanelStep
  <1>3. PanelInv => PanelFollows
    <2> SUFFICES ASSUME PanelInv, sent = <<>>, reading = Arrived \/ (reading = Failed /\ shown # NoNews)
                 PROVE  /\ shown.state = snap /\ shown.ready = uready
                        /\ checks \/ (checking => snap = "checking")
                        /\ applying <=> snap \in Overlaid
      BY DEF PanelFollows, Overlaid
    <2>1. Len(sent) = 0 /\ reading.n \in {-3, -4} /\ (shown = NoNews => reading \notin {Asked, Failed})
      BY ReadNumbers
    <2>2. shown.n = news
      BY <2>1 DEF PanelInv, NewsInv, NewsTypeOK
    <2>3. shown.state = snap /\ shown.ready = uready
      BY <2>2 DEF PanelInv, NewsInv, Faithful, Snapshot
    <2> QED
      BY <2>2, <2>3 DEF PanelInv, Spinners
  <1> QED
    BY <1>1, <1>2, <1>3, PTL DEF WSpec

-----------------------------------------------------------------------------
(* The bookmark's editor.  While a mutation of the session has written     *)
(* into the cache nothing in it counts; otherwise an answer is what Pixiv  *)
(* has.  The last choice waits in the writer's queue, is being saved, or   *)
(* is what Pixiv has; that the writer may skip a selection it holds for    *)
(* confirmed needs Confirmed.                                              *)

Muts == [stage : {"cancel", "sent", "done"}, mark : Marks, of : {"user", "writer"},
         before : Marks \cup {"unknown"}, ok : BOOLEAN]
TagWriters == [run : {"idle", "loop", "saving", "after"}, ready : BOOLEAN, confirmed : TagSets,
               queued : TagSets \cup {"none"}]

BookTypeOK ==
  /\ saved \in Marks /\ detail \in Marks \cup {"unknown"} /\ stale \in BOOLEAN
  /\ fetch \in Marks \cup {"none", "asked"} /\ mut \in Muts \cup {NoMut}
  /\ writer \in TagWriters /\ chosen \in TagSets \cup {"none"}

Overwrites == mut # NoMut /\ mut.stage \in {"sent", "done"}
Truthful ==
  ~Overwrites =>
    /\ fetch \in Marks => fetch = saved
    /\ fetch = "none" /\ ~stale /\ detail # "unknown" => detail = saved

MutOfWriter ==
  /\ writer.run = "saving" <=> mut # NoMut /\ mut.of = "writer"
  /\ mut # NoMut /\ mut.of = "writer" => mut.mark \in TagSets
  /\ mut # NoMut /\ mut.of = "user" => chosen = "none"
  /\ Overwrites /\ mut.stage = "done" /\ mut.ok => saved = mut.mark

Confirmed ==
  chosen # "none" /\ writer.run \in {"loop", "after"} => writer.confirmed = TagsOf(saved)
ChoiceKept ==
  chosen # "none" =>
    \/ writer.queued = chosen /\ writer.run # "idle"
    \/ writer.queued = "none" /\ IF writer.run = "saving" THEN mut.mark = chosen ELSE TagsOf(saved) = chosen

BookInv ==
  BookTypeOK /\ Truthful /\ MutOfWriter /\ Confirmed /\ ChoiceKept

LEMMA BookConstants ==
  /\ NoTags \in TagSets /\ TagSets \subseteq Marks /\ NoTags \in Marks /\ "off" \in Marks
  /\ \A d \in Marks : TagsOf(d) \in TagSets /\ (d \in TagSets => TagsOf(d) = d)
  /\ \A d \in Marks : d \notin {"unknown", "none", "asked"}
  /\ \A c \in TagSets : c # "none"
  /\ NoMut \notin Muts /\ NoMut.stage = "none"
  /\ NoWriter \in TagWriters /\ NoWriter.run = "idle" /\ NoWriter.queued = "none" /\ ~NoWriter.ready
  <1>1. \A c \in TagSets : c \notin {"off", "unknown", "none", "asked"}
    BY TagsAssumption
  <1>2. NoTags \in TagSets
    BY TagsAssumption
  <1>3. NoMut.stage = "none" /\ NoMut \notin Muts
    BY DEF NoMut, Muts
  <1>4. NoWriter \in TagWriters /\ NoWriter.run = "idle" /\ NoWriter.queued = "none" /\ ~NoWriter.ready
    BY <1>2 DEF NoWriter, TagWriters
  <1>5. \A d \in Marks : TagsOf(d) \in TagSets /\ (d \in TagSets => TagsOf(d) = d)
    BY <1>2 DEF TagsOf
  <1>6. \A d \in Marks : d \notin {"unknown", "none", "asked"}
    BY <1>1 DEF Marks
  <1>7. TagSets \subseteq Marks /\ "off" \in Marks
    BY DEF Marks
  <1> QED
    BY <1>1, <1>2, <1>3, <1>4, <1>5, <1>6, <1>7

LEMMA BookStart == BInit => BookInv
  <1> SUFFICES ASSUME BInit PROVE BookInv
    OBVIOUS
  <1>1. BookTypeOK
    BY BookConstants DEF BInit, BookTypeOK
  <1>2. Truthful /\ MutOfWriter /\ Confirmed /\ ChoiceKept
    BY BookConstants DEF BInit, Truthful, MutOfWriter, Overwrites, Confirmed, ChoiceKept
  <1> QED
    BY <1>1, <1>2 DEF BookInv

\* The query: an answer is what Pixiv has.
LEMMA QueryKeeps == ASSUME BookInv, RefetchDetail \/ ServeDetail \/ DetailFetched PROVE BookInv'
  <1> USE DEF BookInv
  <1>1. UNCHANGED <<saved, mut, writer, chosen>>
    BY DEF RefetchDetail, ServeDetail, DetailFetched
  <1>2. \/ fetch = "none" /\ fetch' = "asked" /\ UNCHANGED <<detail, stale>>
        \/ fetch = "asked" /\ fetch' = saved /\ UNCHANGED <<detail, stale>>
        \/ fetch' = "none" /\ fetch \in Marks /\ detail' = fetch /\ ~stale'
        \/ fetch' = "none" /\ fetch # "none" /\ stale' /\ UNCHANGED detail
    BY DEF RefetchDetail, ServeDetail, DetailFetched
  <1>3. stale' \in BOOLEAN
    BY DEF RefetchDetail, ServeDetail, DetailFetched, BookTypeOK
  <1>4. BookTypeOK'
    BY <1>1, <1>2, <1>3 DEF BookTypeOK
  <1>5. Truthful'
    BY <1>1, <1>2, BookConstants DEF BookTypeOK, Truthful, Overwrites
  <1>6. MutOfWriter' /\ Confirmed' /\ ChoiceKept'
    BY <1>1 DEF MutOfWriter, Overwrites, Confirmed, ChoiceKept
  <1> QED
    BY <1>4, <1>5, <1>6

\* A mutation that is submitted has written nothing yet.
LEMMA SubmitType ==
  ASSUME NEW m \in Marks, NEW w \in {"user", "writer"}, Submits(m, w)
  PROVE  /\ mut' \in Muts /\ mut'.stage = "cancel" /\ mut'.mark = m /\ mut'.of = w
         /\ ~mut'.ok /\ mut' # NoMut
  <1>1. mut' \in Muts /\ mut'.stage = "cancel" /\ mut'.mark = m /\ mut'.of = w
    BY DEF Submits, Muts
  <1>2. ~mut'.ok
    BY DEF Submits
  <1> QED
    BY <1>1, <1>2, BookConstants

LEMMA ToggleKeeps == ASSUME BookInv, ToggleBookmark PROVE BookInv'
  <1> USE DEF BookInv
  <1>1. /\ UNCHANGED <<saved, detail, stale, fetch, writer>>
        /\ chosen' = "none" /\ mut = NoMut
    BY DEF ToggleBookmark
  <1>2. /\ mut' \in Muts /\ mut'.stage = "cancel" /\ mut'.of = "user" /\ mut' # NoMut
    BY SubmitType, BookConstants DEF ToggleBookmark
  <1>3. BookTypeOK'
    BY <1>1, <1>2 DEF BookTypeOK
  <1>4. Truthful' /\ MutOfWriter'
    BY <1>1, <1>2 DEF Truthful, MutOfWriter, Overwrites
  <1>5. Confirmed' /\ ChoiceKept'
    BY <1>1 DEF Confirmed, ChoiceKept
  <1> QED
    BY <1>3, <1>4, <1>5

LEMMA OptimisticKeeps == ASSUME BookInv, Optimistic PROVE BookInv'
  <1> USE DEF BookInv
  <1>1. /\ UNCHANGED <<saved, stale, writer, chosen>>
        /\ fetch' = "none" /\ mut.stage = "cancel"
    BY DEF Optimistic
  <1>2. mut \in Muts /\ mut # NoMut
    BY <1>1, BookConstants DEF BookTypeOK
  <1>3. mut' = [mut EXCEPT !.stage = "sent", !.before = detail] /\ detail' = mut.mark
    BY DEF Optimistic
  <1>4. /\ mut' \in Muts /\ mut'.stage = "sent" /\ mut'.mark = mut.mark /\ mut'.of = mut.of
        /\ mut' # NoMut
    BY <1>2, <1>3, BookConstants DEF Muts, BookTypeOK
  <1>5. BookTypeOK'
    BY <1>1, <1>2, <1>3, <1>4 DEF BookTypeOK, Muts
  <1>6. Truthful' /\ MutOfWriter'
    BY <1>1, <1>2, <1>4 DEF Truthful, MutOfWriter, Overwrites
  <1>7. Confirmed' /\ ChoiceKept'
    BY <1>1, <1>4 DEF Confirmed, ChoiceKept
  <1> QED
    BY <1>5, <1>6, <1>7

\* Only a mutation changes what Pixiv has, and while it does the last choice is in its
\* hands or in the queue behind it.
LEMMA ServeKeeps == ASSUME BookInv, ServeMutation PROVE BookInv'
  <1> USE DEF BookInv
  <1>1. /\ UNCHANGED <<detail, stale, fetch, writer, chosen>>
        /\ mut.stage = "sent"
    BY DEF ServeMutation
  <1>2. mut \in Muts /\ mut # NoMut
    BY <1>1, BookConstants DEF BookTypeOK
  <1>3. PICK does, tells \in BOOLEAN :
          /\ saved' = IF does THEN mut.mark ELSE saved
          /\ mut' = [mut EXCEPT !.stage = "done", !.ok = does /\ tells]
    BY Zenon DEF ServeMutation
  <1> DEFINE ok == does /\ tells
  <1>o. ok \in BOOLEAN
    OBVIOUS
  <1>p. ok => does
    OBVIOUS
  <1>q. mut' = [mut EXCEPT !.stage = "done", !.ok = ok]
    BY <1>3
  <1> HIDE DEF ok
  <1>4. /\ mut' \in Muts /\ mut'.stage = "done" /\ mut'.mark = mut.mark /\ mut'.of = mut.of
        /\ mut'.ok = ok /\ mut' # NoMut
    BY <1>2, <1>o, <1>q, BookConstants DEF Muts
  <1>5. mut'.ok => saved' = mut.mark
    BY <1>3, <1>4, <1>p
  <1>6. saved' = saved \/ saved' = mut.mark
    BY <1>3
  <1>7. BookTypeOK'
    BY <1>1, <1>2, <1>4, <1>6 DEF BookTypeOK, Muts
  <1>8. Truthful' /\ MutOfWriter'
    BY <1>1, <1>2, <1>4, <1>5, <1>6 DEF Truthful, MutOfWriter, Overwrites
  <1>9. Confirmed' /\ ChoiceKept'
    <2>1. CASE saved' = saved
      BY <1>1, <1>4, <2>1 DEF Confirmed, ChoiceKept
    <2>2. CASE mut.of = "writer"
      <3>1. writer.run = "saving"
        BY <1>2, <2>2 DEF MutOfWriter
      <3> QED
        BY <1>1, <1>4, <3>1 DEF Confirmed, ChoiceKept
    <2>3. CASE mut.of = "user"
      BY <1>1, <1>2, <2>3 DEF MutOfWriter, Confirmed, ChoiceKept
    <2> QED
      BY <1>2, <1>6, <2>1, <2>2, <2>3 DEF Muts
  <1> QED
    BY <1>7, <1>8, <1>9

LEMMA SettleBookKeeps == ASSUME BookInv, Settle PROVE BookInv'
  <1> USE DEF BookInv
  <1>1. /\ UNCHANGED <<saved, stale>> /\ mut' = NoMut /\ mut.stage = "done"
        /\ chosen' = IF mut.ok THEN chosen ELSE "none"
        /\ detail' = IF mut.ok THEN IF mut.mark = "off" THEN "off" ELSE detail
                     ELSE IF mut.before = "unknown" THEN detail ELSE mut.before
        /\ fetch' = "asked"
    BY DEF Settle, AsksAgain
  <1>2. mut \in Muts /\ mut # NoMut
    BY <1>1, BookConstants DEF BookTypeOK
  <1>3. detail' \in Marks \cup {"unknown"} /\ fetch' \in Marks \cup {"none", "asked"}
        /\ chosen' \in TagSets \cup {"none"} /\ stale' \in BOOLEAN
    BY <1>1, <1>2 DEF BookTypeOK, Muts
  <1>4. Truthful'
    BY <1>1, BookConstants DEF Truthful
  <1>5. CASE mut.of = "user"
    <2>1. writer' = writer /\ chosen = "none"
      BY <1>2, <1>5 DEF Settle, MutOfWriter
    <2>2. writer.run # "saving"
      BY <1>2, <1>5 DEF MutOfWriter
    <2>3. BookTypeOK'
      BY <1>1, <1>3, <2>1 DEF BookTypeOK
    <2>4. MutOfWriter' /\ Confirmed' /\ ChoiceKept'
      BY <1>1, <2>1, <2>2 DEF MutOfWriter, Overwrites, Confirmed, ChoiceKept
    <2> QED
      BY <1>4, <2>3, <2>4
  <1>6. CASE mut.of = "writer"
    <2>1. writer' = Ended(writer, mut.ok)
      BY <1>6 DEF Settle
    <2>2. writer.run = "saving" /\ mut.mark \in TagSets /\ writer \in TagWriters
      BY <1>2, <1>6 DEF MutOfWriter, BookTypeOK
    <2>3. CASE mut.ok
      <3>1. writer' = [writer EXCEPT !.run = "loop", !.confirmed = mut.mark]
        BY <2>1, <2>3 DEF Ended
      <3>2. /\ writer' \in TagWriters /\ writer'.run = "loop" /\ writer'.confirmed = mut.mark
            /\ writer'.queued = writer.queued
        BY <2>2, <3>1 DEF TagWriters
      <3>3. saved = mut.mark /\ TagsOf(saved) = mut.mark
        BY <1>1, <1>2, <2>2, <2>3, BookConstants DEF MutOfWriter, Overwrites
      <3>4. BookTypeOK'
        BY <1>1, <1>3, <3>2 DEF BookTypeOK
      <3>5. MutOfWriter' /\ Confirmed' /\ ChoiceKept'
        BY <1>1, <2>2, <2>3, <3>2, <3>3 DEF MutOfWriter, Overwrites, Confirmed, ChoiceKept
      <3> QED
        BY <1>4, <3>4, <3>5
    <2>4. CASE ~mut.ok
      <3>1. writer' = [writer EXCEPT !.run = "after", !.queued = "none"]
        BY <2>1, <2>4 DEF Ended
      <3>2. writer' \in TagWriters /\ writer'.run = "after"
        BY <2>2, <3>1 DEF TagWriters
      <3>3. BookTypeOK'
        BY <1>1, <1>3, <3>2 DEF BookTypeOK
      <3>4. MutOfWriter' /\ Confirmed' /\ ChoiceKept'
        BY <1>1, <2>4, <3>2 DEF MutOfWriter, Overwrites, Confirmed, ChoiceKept
      <3> QED
        BY <1>4, <3>3, <3>4
    <2> QED
      BY <2>3, <2>4
  <1> QED
    BY <1>2, <1>5, <1>6 DEF Muts

LEMMA SwitchKeeps == ASSUME BookInv, Switch PROVE BookInv'
  <1>1. /\ saved' \in Marks /\ detail' = "unknown" /\ fetch' = "asked" /\ writer' = NoWriter
        /\ chosen' = "none" /\ mut' = NoMut /\ stale' = FALSE
    BY DEF Switch
  <1>2. BookTypeOK'
    BY <1>1, BookConstants DEF BookTypeOK
  <1>3. Truthful' /\ MutOfWriter' /\ Confirmed' /\ ChoiceKept'
    BY <1>1, BookConstants DEF Truthful, MutOfWriter, Overwrites, Confirmed, ChoiceKept
  <1> QED
    BY <1>2, <1>3 DEF BookInv

\* A step of the writer that starts no mutation.
LEMMA WriterKeeps ==
  ASSUME BookInv, UNCHANGED <<saved, detail, stale, fetch, mut>>, writer' \in TagWriters,
         writer'.run = "saving" <=> writer.run = "saving", chosen' \in TagSets \cup {"none"},
         mut # NoMut /\ mut.of # "writer" => chosen' = "none",
         Confirmed', ChoiceKept'
  PROVE  BookInv'
  <1> USE DEF BookInv
  <1>1. BookTypeOK'
    BY DEF BookTypeOK
  <1>2. Truthful'
    BY DEF Truthful, Overwrites
  <1>3. MutOfWriter'
    BY DEF MutOfWriter, Overwrites
  <1> QED
    BY <1>1, <1>2, <1>3

LEMMA SynchronizeKeeps == ASSUME BookInv, Synchronize PROVE BookInv'
  <1>1. /\ UNCHANGED <<saved, detail, stale, fetch, mut, chosen>> /\ mut = NoMut
        /\ writer' = [writer EXCEPT !.ready = TRUE, !.confirmed = TagsOf(detail)]
        /\ writer.run = "idle" /\ writer.queued = "none" /\ detail # "unknown"
    BY DEF Synchronize, WPending
  <1>2. writer \in TagWriters /\ TagsOf(detail) \in TagSets
    BY <1>1, BookConstants DEF BookInv, BookTypeOK
  <1>3. writer' \in TagWriters /\ writer'.run = "idle" /\ writer'.queued = "none"
    BY <1>1, <1>2 DEF TagWriters
  <1>4. Confirmed' /\ ChoiceKept'
    BY <1>1, <1>3 DEF BookInv, Confirmed, ChoiceKept
  <1>5. chosen' \in TagSets \cup {"none"}
    BY <1>1 DEF BookInv, BookTypeOK
  <1> QED
    BY <1>1, <1>3, <1>4, <1>5, WriterKeeps

LEMMA ChangeKeeps == ASSUME BookInv, NEW tags \in TagSets, ChangeTags(tags) PROVE BookInv'
  <1>1. UNCHANGED <<saved, detail, stale, fetch, mut>> /\ writer.ready
    BY DEF ChangeTags
  <1>2. writer \in TagWriters /\ detail \in Marks \cup {"unknown"}
    BY DEF BookInv, BookTypeOK
  <1>3. TagsOf(detail) \in TagSets
    BY BookConstants DEF TagsOf
  <1>5. CASE WPending(writer)
    <2>1. /\ writer' = [writer EXCEPT !.queued = tags, !.run = IF @ = "idle" THEN "loop" ELSE @]
          /\ chosen' = IF chosen # "none" THEN tags ELSE "none"
      BY <1>5 DEF ChangeTags
    <2>2. /\ writer' \in TagWriters /\ writer'.queued = tags /\ writer'.confirmed = writer.confirmed
          /\ writer'.run = IF writer.run = "idle" THEN "loop" ELSE writer.run
      BY <1>2, <2>1 DEF TagWriters
    <2>3. writer.run = "idle" => chosen = "none"
      BY <1>5, BookConstants DEF WPending, BookInv, ChoiceKept, BookTypeOK
    <2>4. Confirmed' /\ ChoiceKept'
      BY <1>1, <1>2, <2>1, <2>2, <2>3 DEF BookInv, Confirmed, ChoiceKept, TagWriters
    <2>5. mut # NoMut /\ mut.of # "writer" => chosen' = "none"
      BY <2>1 DEF BookInv, MutOfWriter, BookTypeOK, Muts
    <2> QED
      BY <1>1, <2>1, <2>2, <2>4, <2>5, WriterKeeps
  <1>6. CASE ~WPending(writer)
    <2>1. /\ mut = NoMut /\ writer.run = "idle"
          /\ chosen' = IF detail = saved THEN tags ELSE "none"
      BY <1>6 DEF ChangeTags, WPending
    <2> DEFINE w == [writer EXCEPT !.confirmed = TagsOf(detail)]
    <2>2. w \in TagWriters /\ w.run = "idle" /\ w.confirmed = TagsOf(detail)
      BY <1>2, <1>3, <2>1 DEF TagWriters
    <2>3. writer' = [w EXCEPT !.queued = tags, !.run = IF @ = "idle" THEN "loop" ELSE @]
      BY <1>6 DEF ChangeTags
    <2> HIDE DEF w
    <2>4. /\ writer' \in TagWriters /\ writer'.queued = tags /\ writer'.confirmed = TagsOf(detail)
          /\ writer'.run = "loop"
      BY <2>2, <2>3 DEF TagWriters
    <2>5. Confirmed' /\ ChoiceKept'
      BY <1>1, <2>1, <2>4 DEF Confirmed, ChoiceKept
    <2> QED
      BY <1>1, <2>1, <2>4, <2>5, WriterKeeps
  <1> QED
    BY <1>5, <1>6

LEMMA FlushKeeps == ASSUME BookInv, Flush PROVE BookInv'
  <1> DEFINE next == writer.queued
  <1>1. writer.run = "loop" /\ UNCHANGED <<saved, detail, stale, fetch>>
    BY DEF Flush
  <1>2. writer \in TagWriters /\ next \in TagSets \cup {"none"}
    BY DEF BookInv, BookTypeOK, TagWriters
  <1>3. mut # NoMut => mut.of = "user" /\ chosen = "none"
    BY <1>1, BookConstants DEF BookInv, MutOfWriter, BookTypeOK, Muts
  <1>4. CASE next = "none"
    <2>1. writer' = [writer EXCEPT !.run = "after"] /\ UNCHANGED <<mut, chosen>>
      BY <1>4 DEF Flush
    <2>2. /\ writer' \in TagWriters /\ writer'.run = "after" /\ writer'.queued = writer.queued
          /\ writer'.confirmed = writer.confirmed
      BY <1>2, <2>1 DEF TagWriters
    <2>3. Confirmed' /\ ChoiceKept'
      BY <1>1, <2>1, <2>2 DEF BookInv, Confirmed, ChoiceKept
    <2>4. chosen' \in TagSets \cup {"none"}
      BY <2>1 DEF BookInv, BookTypeOK
    <2> QED
      BY <1>1, <1>3, <2>1, <2>2, <2>3, <2>4, WriterKeeps
  <1>5. CASE next # "none" /\ next = writer.confirmed
    <2>1. writer' = [writer EXCEPT !.queued = "none"] /\ UNCHANGED <<mut, chosen>>
      BY <1>5 DEF Flush
    <2>2. /\ writer' \in TagWriters /\ writer'.run = "loop" /\ writer'.queued = "none"
          /\ writer'.confirmed = writer.confirmed
      BY <1>1, <1>2, <2>1 DEF TagWriters
    <2>3. chosen # "none" => chosen = TagsOf(saved)
      BY <1>1, <1>5 DEF BookInv, Confirmed, ChoiceKept
    <2>4. Confirmed' /\ ChoiceKept'
      BY <1>1, <2>1, <2>2, <2>3 DEF BookInv, Confirmed, ChoiceKept
    <2>5. chosen' \in TagSets \cup {"none"}
      BY <2>1 DEF BookInv, BookTypeOK
    <2> QED
      BY <1>1, <1>3, <2>1, <2>2, <2>4, <2>5, WriterKeeps
  <1>6. CASE next # "none" /\ next # writer.confirmed /\ mut # NoMut
    <2>1. /\ writer' = [writer EXCEPT !.queued = "none", !.run = "after"]
          /\ chosen' = "none" /\ mut' = mut
      BY <1>6 DEF Flush
    <2>2. writer' \in TagWriters /\ writer'.run = "after"
      BY <1>2, <2>1 DEF TagWriters
    <2>3. Confirmed' /\ ChoiceKept'
      BY <2>1 DEF Confirmed, ChoiceKept
    <2> QED
      BY <1>1, <1>3, <2>1, <2>2, <2>3, WriterKeeps
  <1>7. CASE next # "none" /\ next # writer.confirmed /\ mut = NoMut
    <2>1. /\ writer' = [writer EXCEPT !.queued = "none", !.run = "saving"]
          /\ Submits(next, "writer") /\ chosen' = chosen
      BY <1>7 DEF Flush
    <2>2. writer' \in TagWriters /\ writer'.run = "saving" /\ writer'.queued = "none"
      BY <1>2, <2>1 DEF TagWriters
    <2>3. next \in TagSets /\ next \in Marks
      BY <1>2, <1>7, BookConstants
    <2>4. /\ mut' \in Muts /\ mut'.stage = "cancel" /\ mut'.mark = next /\ mut'.of = "writer"
          /\ mut' # NoMut
      BY <2>1, <2>3, SubmitType
    <2>5. BookTypeOK'
      BY <1>1, <2>1, <2>2, <2>4 DEF BookInv, BookTypeOK
    <2>6. Truthful'
      BY <1>1, <1>7, <2>4 DEF BookInv, Truthful, Overwrites
    <2>7. MutOfWriter'
      BY <2>2, <2>3, <2>4 DEF MutOfWriter, Overwrites
    <2>8. Confirmed' /\ ChoiceKept'
      BY <1>7, <2>1, <2>2, <2>4 DEF BookInv, Confirmed, ChoiceKept
    <2> QED
      BY <2>5, <2>6, <2>7, <2>8 DEF BookInv
  <1> QED
    BY <1>4, <1>5, <1>6, <1>7

LEMMA AfterKeeps == ASSUME BookInv, After PROVE BookInv'
  <1>1. /\ UNCHANGED <<saved, detail, stale, fetch, mut, chosen>> /\ writer.run = "after"
        /\ writer' = [writer EXCEPT !.run = IF writer.queued # "none" THEN "loop" ELSE "idle"]
    BY DEF After, Stops
  <1>2. writer \in TagWriters /\ chosen' \in TagSets \cup {"none"}
    BY <1>1 DEF BookInv, BookTypeOK
  <1>3. /\ writer' \in TagWriters /\ writer'.queued = writer.queued
        /\ writer'.confirmed = writer.confirmed
        /\ writer'.run = IF writer.queued # "none" THEN "loop" ELSE "idle"
    BY <1>1, <1>2 DEF TagWriters
  <1>4. mut # NoMut => mut.of = "user" /\ chosen = "none"
    BY <1>1, BookConstants DEF BookInv, MutOfWriter, BookTypeOK, Muts
  <1>5. Confirmed' /\ ChoiceKept'
    BY <1>1, <1>2, <1>3 DEF BookInv, Confirmed, ChoiceKept
  <1> QED
    BY <1>1, <1>2, <1>3, <1>4, <1>5, WriterKeeps

LEMMA BookStep == BookInv /\ [BNext]_bvars => BookInv'
  <1> SUFFICES ASSUME BookInv, [BNext]_bvars PROVE BookInv'
    OBVIOUS
  <1>1. CASE UNCHANGED bvars
    BY <1>1 DEF bvars, BookInv, BookTypeOK, Truthful, MutOfWriter, Overwrites, Confirmed,
                ChoiceKept
  <1> QED
    BY <1>1, QueryKeeps, ToggleKeeps, OptimisticKeeps, ServeKeeps, SettleBookKeeps, SwitchKeeps,
       SynchronizeKeeps, ChangeKeeps, FlushKeeps, AfterKeeps DEF BNext

LEMMA BookCorrect == WSpec => []BookInv
  <1>1. WInit => BookInv
    BY PartStarts, BookStart
  <1>2. BookInv /\ [WNext]_wvars => BookInv'
    BY BookmarkPart, BookStep
  <1> QED
    BY <1>1, <1>2, PTL DEF WSpec

\* When nothing is on its way and the last refetch succeeded, the cached detail is what Pixiv
\* has, also after a mutation whose answer was lost
\* (use-illust-bookmark.ts).
THEOREM CacheConvergesAlways == WSpec => []CacheConverges
  <1>1. BookInv => CacheConverges
    BY DEF BookInv, Truthful, Overwrites, CacheConverges, Quiet
  <1> QED
    BY BookCorrect, <1>1, PTL

\* However fast the selections follow each other, the last one is what Pixiv has in the end
\* (bookmark-tag-writer.ts).
THEOREM LastChoiceWinsAlways == WSpec => []LastChoiceWins
  <1>1. BookInv => LastChoiceWins
    BY DEF BookInv, ChoiceKept, LastChoiceWins, Quiet
  <1> QED
    BY BookCorrect, <1>1, PTL

-----------------------------------------------------------------------------
(* The downloads page.  Once it has heard the stream open, and unless an   *)
(* event or its timer will still make it ask, the newest of its requests   *)
(* gets a list as the core has it, or what it shows is one.  A finished    *)
(* task changes no status, so that event need not make it ask.             *)

AskedLists == [filter : Filters, current : BOOLEAN, got : {Pending} \cup SUBSET Views]

PageTypeOK ==
  /\ filter \in Filters /\ asked \in SUBSET AskedLists /\ items \in SUBSET Views
  /\ feed # <<>> \/ heardOpen => live
OneNewest ==
  \A r \in asked : r.current => r.filter = filter /\ \A s \in asked : s.current => s = r

Stirring == timer \/ \E i \in 1 .. Len(feed) : feed[i].kind \notin {"open", "task"}
AsTheCore(rows) == StatusOf(rows) = StatusOf(Rows(filter))
UpToDate ==
  heardOpen /\ ~Stirring =>
    IF \E r \in asked : r.current
    THEN \A r \in asked : r.current => r.got = Pending \/ AsTheCore(r.got)
    ELSE missed \/ AsTheCore(items)

PageInv == PageTypeOK /\ OneNewest /\ UpToDate

\* Only the part that moves hears the stream.
PagePart == part = "downloads" \/ ~heardOpen
DownloadsInv == PagePart /\ (part = "downloads" => PageInv)

\* The statuses of a list, job by job.
Rung(f) == IF f = "all" THEN 1 .. 4 ELSE 1 .. 3

ByJob ==
  \A f \in Filters :
    StatusOf(Rows(f)) = {<<j, StatusAt(lvl[j])>> : j \in {i \in Jobs : lvl[i] \in Rung(f)}}

LEMMA StatusByJob == ByJob
  <1> SUFFICES ASSUME NEW f \in Filters
               PROVE  StatusOf(Rows(f)) =
                        {<<j, StatusAt(lvl[j])>> : j \in {i \in Jobs : lvl[i] \in Rung(f)}}
    BY DEF ByJob
  <1> DEFINE T(levels) == {<<j, StatusAt(lvl[j])>> : j \in {i \in Jobs : lvl[i] \in levels}}
  <1>1. \A j \in Jobs : View(j).job = j /\ View(j).status = StatusAt(lvl[j])
    BY DEF View
  <1>2. ASSUME NEW levels PROVE StatusOf(Listed(levels)) = T(levels)
    BY <1>1 DEF StatusOf, Listed
  <1>3. \A A, B : StatusOf(A \cup B) = StatusOf(A) \cup StatusOf(B)
    BY DEF StatusOf
  <1>4. StatusOf(ActiveList) = T(1 .. 3) /\ StatusOf(RecentList) = T({4})
    BY <1>2 DEF ActiveList, RecentList
  <1>5. T(1 .. 3) \cup T({4}) = T(1 .. 4)
    <2>1. \A l : l \in 1 .. 4 <=> l \in 1 .. 3 \/ l \in {4}
      OBVIOUS
    <2> QED
      BY <2>1
  <1> HIDE DEF T
  <1>6. CASE f = "all"
    BY <1>3, <1>4, <1>5, <1>6 DEF Rows, Rung, T
  <1>7. CASE f # "all"
    BY <1>4, <1>7 DEF Rows, Rung, T
  <1> QED
    BY <1>6, <1>7

\* A finished task changes no status.
LEMMA TaskQuiet ==
  ASSUME FeedTypeOK, NEW j \in Jobs, lvl[j] = 2, lvl' = [lvl EXCEPT ![j] = 3],
         NEW f \in Filters
  PROVE  StatusOf(Rows(f))' = StatusOf(Rows(f))
  <1>1. lvl'[j] = 3 /\ \A i \in Jobs : i # j => lvl'[i] = lvl[i]
    BY DEF FeedTypeOK
  <1>2. \A i \in Jobs : lvl'[i] \in Rung(f) <=> lvl[i] \in Rung(f)
    BY <1>1 DEF Rung
  <1>3. \A i \in Jobs : StatusAt(lvl'[i]) = StatusAt(lvl[i])
    BY <1>1 DEF StatusAt
  <1>4. {<<i, StatusAt(lvl'[i])>> : i \in {k \in Jobs : lvl'[k] \in Rung(f)}}
          = {<<i, StatusAt(lvl[i])>> : i \in {k \in Jobs : lvl[k] \in Rung(f)}}
    BY <1>2, <1>3
  <1>5. StatusOf(Rows(f))' = {<<i, StatusAt(lvl'[i])>> : i \in {k \in Jobs : lvl'[k] \in Rung(f)}}
    <2>1. ByJob'
      BY StatusByJob, PTL
    <2> QED
      BY <2>1 DEF ByJob
  <1> QED
    BY <1>4, <1>5, StatusByJob DEF ByJob

\* Nor does the patch of a row.
LEMMA PatchQuiet ==
  ASSUME items \in SUBSET Views, NEW e
  PROVE  PatchRows(e) \in SUBSET Views /\ StatusOf(PatchRows(e)) = StatusOf(items)
  <1> DEFINE p(r) == IF r.job = e.job /\ e.kind = "task" THEN [r EXCEPT !.task = TRUE] ELSE r
  <1>1. \A r \in items : p(r) \in Views /\ p(r).job = r.job /\ p(r).status = r.status
    BY DEF Views
  <1>2. PatchRows(e) = {p(r) : r \in items}
    BY DEF PatchRows
  <1> HIDE DEF p
  <1> QED
    BY <1>1, <1>2 DEF StatusOf

LEMMA PageStart == PInit => PageInv
  <1> SUFFICES ASSUME PInit PROVE PageInv
    OBVIOUS
  <1>1. asked \in SUBSET AskedLists /\ filter \in Filters
    BY DEF PInit, AskedLists, Filters
  <1> QED
    BY <1>1 DEF PInit, FInit, PageInv, PageTypeOK, OneNewest, UpToDate

\* refetch(): one newest request, not yet answered.
LEMMA RefetchedNewest ==
  ASSUME PageTypeOK, NEW f \in Filters, asked' = Refetched(f), filter' = f
  PROVE  /\ asked' \in SUBSET AskedLists /\ OneNewest'
         /\ \E r \in asked' : r.current
         /\ \A r \in asked' : r.current => r.got = Pending
  <1> DEFINE n == [filter |-> f, current |-> TRUE, got |-> Pending]
  <1>1. n \in AskedLists /\ n.current /\ n.got = Pending /\ n.filter = f
    BY DEF AskedLists
  <1>2. \A r \in asked : [r EXCEPT !.current = FALSE] \in AskedLists /\ ~[r EXCEPT !.current = FALSE].current
    BY DEF PageTypeOK, AskedLists
  <1>3. asked' = {[r EXCEPT !.current = FALSE] : r \in asked} \cup {n}
    BY DEF Refetched
  <1> HIDE DEF n
  <1>4. \A r \in asked' : r \in AskedLists /\ (r.current => r = n)
    BY <1>1, <1>2, <1>3
  <1> QED
    BY <1>1, <1>3, <1>4 DEF OneNewest

LEMMA ChooseKeeps == ASSUME PageInv, NEW f \in Filters, Choose(f) PROVE PageInv'
  <1>1. /\ asked' = Refetched(f) /\ filter' = f /\ UNCHANGED <<fvars, heardOpen, items, missed>>
    BY DEF Choose
  <1>2. /\ asked' \in SUBSET AskedLists /\ OneNewest' /\ \E r \in asked' : r.current
        /\ \A r \in asked' : r.current => r.got = Pending
    BY <1>1, RefetchedNewest DEF PageInv
  <1> QED
    BY <1>1, <1>2 DEF fvars, PageInv, PageTypeOK, UpToDate

LEMMA FireKeeps == ASSUME PageInv, Fire PROVE PageInv'
  <1>1. /\ asked' = Refetched(filter) /\ filter' = filter /\ filter \in Filters
        /\ UNCHANGED <<fvars, heardOpen, items, missed>>
    BY DEF Fire, PageInv, PageTypeOK
  <1>2. /\ asked' \in SUBSET AskedLists /\ OneNewest' /\ \E r \in asked' : r.current
        /\ \A r \in asked' : r.current => r.got = Pending
    BY <1>1, RefetchedNewest DEF PageInv
  <1> QED
    BY <1>1, <1>2 DEF fvars, PageInv, PageTypeOK, UpToDate

LEMMA ListenKeeps == ASSUME FeedTypeOK, PageInv, Listen PROVE PageInv'
  <1> DEFINE e == Head(feed)
             asks == e.kind = "resync" \/ (e.kind = "open" /\ ~heardOpen)
  <1>1. /\ feed \in Seq(Events) /\ feed # <<>> /\ feed' = Tail(feed) /\ UNCHANGED <<lvl, live, filter, missed>>
    BY DEF FeedTypeOK, Listen, Take
  <1>2. /\ heardOpen' = (heardOpen \/ e.kind = "open")
        /\ asked' = IF asks THEN Refetched(filter) ELSE asked
        /\ timer' = (timer \/ e.kind \notin {"open", "resync", "task"})
        /\ items' = IF e.kind = "task" THEN PatchRows(e) ELSE items
    BY DEF Listen
  <1>3. /\ e = feed[1] /\ Len(feed') = Len(feed) - 1 /\ Len(feed) \in Nat /\ 1 \in 1 .. Len(feed)
        /\ \A i \in 1 .. Len(feed) - 1 : feed'[i] = feed[i + 1]
    BY <1>1, HeadTailProperties
  <1> HIDE DEF e, asks
  <1>4. items' \in SUBSET Views /\ StatusOf(items') = StatusOf(items)
    BY <1>2, PatchQuiet DEF PageInv, PageTypeOK
  <1>5. StatusOf(Rows(filter))' = StatusOf(Rows(filter))
    BY <1>1 DEF StatusOf, Rows, ActiveList, RecentList, Listed, View
  <1>6. live
    BY <1>1 DEF PageInv, PageTypeOK
  <1>7. CASE asks
    <2>1. asked' = Refetched(filter) /\ filter' = filter /\ filter \in Filters
      BY <1>1, <1>2, <1>7 DEF PageInv, PageTypeOK
    <2>2. /\ asked' \in SUBSET AskedLists /\ OneNewest' /\ \E r \in asked' : r.current
          /\ \A r \in asked' : r.current => r.got = Pending
      BY <2>1, RefetchedNewest DEF PageInv
    <2> QED
      BY <1>1, <1>4, <1>6, <2>1, <2>2 DEF PageInv, PageTypeOK, UpToDate
  <1>8. CASE ~asks
    <2>1. asked' = asked /\ filter' = filter
      BY <1>1, <1>2, <1>8
    <2>2. PageTypeOK' /\ OneNewest'
      BY <1>1, <1>4, <1>6, <2>1 DEF PageInv, PageTypeOK, OneNewest
    <2>3. ASSUME heardOpen', ~Stirring' PROVE heardOpen /\ ~Stirring
      <3>1. heardOpen /\ e.kind \in {"open", "task"} /\ ~timer
        BY <1>2, <1>8, <2>3 DEF asks, Stirring
      <3>2. ASSUME NEW i \in 1 .. Len(feed) PROVE feed[i].kind \in {"open", "task"}
        <4>1. CASE i = 1
          BY <1>3, <3>1, <4>1
        <4>2. CASE i # 1
          <5>1. i - 1 \in 1 .. Len(feed') /\ feed'[i - 1] = feed[i]
            BY <1>3, <4>2
          <5> QED
            BY <2>3, <5>1 DEF Stirring
        <4> QED
          BY <4>1, <4>2
      <3> QED
        BY <3>1, <3>2 DEF Stirring
    <2>4. \A rows : AsTheCore(rows) => StatusOf(rows) = StatusOf(Rows(filter))'
      BY <1>5 DEF AsTheCore
    <2>5. UpToDate'
      BY <1>1, <1>4, <1>5, <2>1, <2>3 DEF PageInv, UpToDate, AsTheCore
    <2> QED
      BY <2>2, <2>5 DEF PageInv
  <1> QED
    BY <1>7, <1>8

LEMMA ServeRowsKeeps == ASSUME FeedTypeOK, PageInv, NEW r \in asked, ServeRows(r) PROVE PageInv'
  <1> DEFINE s == [r EXCEPT !.got = Rows(r.filter)]
  <1>1. /\ asked' = (asked \ {r}) \cup {s}
        /\ UNCHANGED <<fvars, filter, heardOpen, timer, items, missed>>
    BY DEF ServeRows
  <1>2. r \in AskedLists
    BY DEF PageInv, PageTypeOK
  <1>3. Rows(r.filter) \in SUBSET Views
    <2>1. \A j \in Jobs : View(j) \in Views
      BY ViewType
    <2> QED
      BY <2>1 DEF Rows, ActiveList, RecentList, Listed
  <1>4. s \in AskedLists /\ s.filter = r.filter /\ s.current = r.current /\ s.got = Rows(r.filter)
    BY <1>2, <1>3 DEF AskedLists
  <1> HIDE DEF s
  <1>5. PageTypeOK'
    BY <1>1, <1>4 DEF fvars, PageInv, PageTypeOK
  <1>6. OneNewest'
    BY <1>1, <1>4 DEF PageInv, OneNewest
  <1>7. s.current => AsTheCore(s.got)
    BY <1>4 DEF AsTheCore, PageInv, OneNewest
  <1>8. \A rows : AsTheCore(rows)' <=> AsTheCore(rows)
    BY <1>1 DEF fvars, AsTheCore, StatusOf, Rows, ActiveList, RecentList, Listed, View
  <1>9. (\E t \in asked' : t.current) <=> \E t \in asked : t.current
    BY <1>1, <1>4
  <1>10. (Stirring' <=> Stirring) /\ (heardOpen' <=> heardOpen)
    BY <1>1 DEF fvars, Stirring
  <1>11. UpToDate'
    BY <1>1, <1>4, <1>7, <1>8, <1>9, <1>10 DEF PageInv, UpToDate
  <1> QED
    BY <1>5, <1>6, <1>11 DEF PageInv

LEMMA ShowRowsKeeps == ASSUME PageInv, NEW r \in asked, ShowRows(r) PROVE PageInv'
  <1>1. asked' = asked \ {r} /\ UNCHANGED <<fvars, filter, heardOpen, timer>>
    BY DEF ShowRows
  <1>2. \/ UNCHANGED <<items, missed>> /\ ~r.current
        \/ r.current /\ r.got # Pending /\ items' = r.got
        \/ r.current /\ missed' /\ UNCHANGED items
    BY DEF ShowRows, NewestEpoch
  <1>3. r \in AskedLists /\ (r.got # Pending => r.got \in SUBSET Views)
    BY DEF PageInv, PageTypeOK, AskedLists
  <1>4. PageTypeOK' /\ OneNewest'
    BY <1>1, <1>2, <1>3 DEF fvars, PageInv, PageTypeOK, OneNewest
  <1>5. \A rows : AsTheCore(rows)' <=> AsTheCore(rows)
    BY <1>1 DEF fvars, AsTheCore, StatusOf, Rows, ActiveList, RecentList, Listed, View
  <1>6. (Stirring' <=> Stirring) /\ (heardOpen' <=> heardOpen)
    BY <1>1 DEF fvars, Stirring
  <1>7. CASE ~r.current
    <2>1. (\E t \in asked' : t.current) <=> \E t \in asked : t.current
      BY <1>1, <1>7
    <2> QED
      BY <1>1, <1>2, <1>4, <1>5, <1>6, <1>7, <2>1 DEF PageInv, UpToDate
  <1>8. CASE r.current
    <2>1. ~\E t \in asked' : t.current
      BY <1>1, <1>8 DEF PageInv, OneNewest
    <2>2. heardOpen /\ ~Stirring => r.got = Pending \/ AsTheCore(r.got)
      BY <1>8 DEF PageInv, UpToDate
    <2>3. heardOpen /\ ~Stirring => missed' \/ AsTheCore(items')
      BY <1>2, <1>8, <2>2
    <2>4. AsTheCore(items)' <=> AsTheCore(items')
      BY <1>1 DEF fvars, AsTheCore, StatusOf, Rows, ActiveList, RecentList, Listed, View
    <2> QED
      BY <1>4, <1>6, <2>1, <2>3, <2>4 DEF PageInv, UpToDate
  <1> QED
    BY <1>7, <1>8

\* A change of a job is told, unless the stream is not open yet.
LEMMA CoreKeeps ==
  ASSUME FeedTypeOK, PageInv, (JobStep \/ Resync) /\ UNCHANGED jobsPage
  PROVE  PageInv'
  <1>0. UNCHANGED <<filter, heardOpen, asked, timer, items, missed>> /\ UNCHANGED live
    BY DEF jobsPage, JobStep, Create, Goes, Cancel, Resync, Change
  <1>1. OneNewest'
    BY <1>0 DEF PageInv, OneNewest
  <1>2. CASE Resync
    <2>1. live /\ feed' = <<[kind |-> "resync"]>>
      BY <1>2 DEF Resync
    <2>2. PageTypeOK'
      BY <1>0, <2>1 DEF PageInv, PageTypeOK
    <2>3. Stirring'
      BY <2>1 DEF Stirring
    <2> QED
      BY <1>1, <2>2, <2>3 DEF PageInv, UpToDate
  <1>3. ASSUME NEW j \in Jobs, Create(j) \/ Goes(j) \/ Cancel(j) PROVE PageInv'
    <2>1. PICK es \in Seq(Events), l \in 1 .. 5 :
            /\ lvl' = [lvl EXCEPT ![j] = l] /\ feed' = Sent(es)
            /\ Len(es) \in Nat \ {0} /\ es[Len(es)].kind \in JobKinds
            /\ es[Len(es)].kind = "task" => lvl[j] = 2 /\ l = 3
      BY <1>3, ChangeTold DEF Reaches
    <2> DEFINE e == es[Len(es)]
    <2>2. e.kind \in JobKinds /\ (e.kind = "task" => lvl[j] = 2 /\ lvl' = [lvl EXCEPT ![j] = 3])
      BY <2>1
    <2>3. (feed' = IF live THEN feed \o es ELSE feed) /\ e = es[Len(es)]
      BY <2>1 DEF Sent
    <2> HIDE DEF e
    <2>4. PageTypeOK'
      BY <1>0, <2>3 DEF PageInv, PageTypeOK
    <2>5. CASE ~heardOpen
      BY <1>0, <1>1, <2>4, <2>5 DEF PageInv, UpToDate
    <2>6. CASE heardOpen
      <3>1. feed \in Seq(Events) /\ feed' = feed \o es
        BY <2>3, <2>6 DEF FeedTypeOK, PageInv, PageTypeOK
      <3>2. Len(feed) \in Nat /\ Len(es) \in Nat \ {0}
        BY <2>1, <3>1, LenProperties
      <3>3. /\ Len(feed') = Len(feed) + Len(es)
            /\ \A i \in 1 .. Len(feed) + Len(es) :
                 feed'[i] = IF i <= Len(feed) THEN feed[i] ELSE es[i - Len(feed)]
        BY <3>1, ConcatProperties
      <3>4. /\ Len(feed') = Len(feed) + Len(es) /\ feed'[Len(feed) + Len(es)] = e /\ Len(feed) \in Nat
            /\ \A i \in 1 .. Len(feed) : feed'[i] = feed[i]
        BY <2>3, <3>2, <3>3
      <3>5. CASE e.kind # "task"
        <4>1. Len(feed) + Len(es) \in 1 .. Len(feed') /\ e.kind \notin {"open", "task"}
          BY <2>1, <2>2, <3>4, <3>5 DEF JobKinds
        <4>2. Stirring'
          BY <3>4, <4>1 DEF Stirring
        <4> QED
          BY <1>1, <2>4, <4>2 DEF PageInv, UpToDate
      <3>6. CASE e.kind = "task"
        <4>1. StatusOf(Rows(filter))' = StatusOf(Rows(filter))
          <5>1. \A f \in Filters : StatusOf(Rows(f))' = StatusOf(Rows(f))
            BY <2>2, <3>6, TaskQuiet
          <5> QED
            BY <1>0, <5>1 DEF PageInv, PageTypeOK, StatusOf, Rows, ActiveList, RecentList, Listed, View
        <4>2. Stirring => Stirring'
          <5>1. \A i \in 1 .. Len(feed) : i \in 1 .. Len(feed')
            BY <2>1, <3>4
          <5> QED
            BY <1>0, <3>4, <5>1 DEF Stirring
        <4>3. UpToDate'
          BY <1>0, <4>1, <4>2 DEF PageInv, UpToDate, AsTheCore, StatusOf
        <4> QED
          BY <1>1, <2>4, <4>3 DEF PageInv
      <3> QED
        BY <3>5, <3>6
    <2> QED
      BY <2>5, <2>6
  <1> QED
    BY <1>2, <1>3 DEF JobStep

LEMMA PageStep == ASSUME FeedTypeOK, PageInv, PNext PROVE PageInv'
  <1>1. CASE StreamOpens
    <2>1. ~heardOpen /\ live' /\ UNCHANGED jobsPage
      BY <1>1 DEF StreamOpens, Connect, PageInv, PageTypeOK
    <2> QED
      BY <2>1 DEF jobsPage, PageInv, PageTypeOK, OneNewest, UpToDate
  <1> QED
    BY <1>1, ChooseKeeps, FireKeeps, ListenKeeps, ServeRowsKeeps, ShowRowsKeeps, CoreKeeps DEF PNext

LEMMA DownloadsStep == FeedTypeOK /\ DownloadsInv /\ [WNext]_wvars => DownloadsInv'
  <1> SUFFICES ASSUME FeedTypeOK, DownloadsInv, [WNext]_wvars PROVE DownloadsInv'
    OBVIOUS
  <1>1. part' = part
    BY DEF WNext, wvars, Mirror, Downloads, Selection, Bookmark, Numbered, Panel, Viewer, Kept
  <1>2. CASE Downloads
    BY <1>1, <1>2, PageStep DEF Downloads, DownloadsInv, PagePart
  <1>3. CASE ~Downloads
    <2>1. UNCHANGED jobsPage /\ (part = "downloads" => UNCHANGED fvars)
      BY <1>3 DEF WNext, wvars, Mirror, Selection, Bookmark, Numbered, Panel, Viewer, Kept
    <2>2. CASE part # "downloads"
      BY <1>1, <2>1, <2>2 DEF DownloadsInv, PagePart, jobsPage
    <2>3. CASE part = "downloads"
      <3>1. PageTypeOK' /\ OneNewest' /\ UpToDate'
        BY <2>1, <2>3 DEF jobsPage, fvars, DownloadsInv, PageInv, PageTypeOK, OneNewest, UpToDate, Stirring,
               AsTheCore, StatusOf, Rows, ActiveList, RecentList, Listed, View
      <3> QED
        BY <1>1, <2>3, <3>1 DEF DownloadsInv, PageInv, PagePart
    <2> QED
      BY <2>2, <2>3
  <1> QED
    BY <1>2, <1>3

\* When every event is handled and every answer that counts is there, the page shows the jobs
\* of its filter with the statuses the core has, whatever the filters chosen, the answers
\* overtaken and the gaps in the stream (use-downloads-page.ts).
THEOREM PageFollowsAlways == WSpec => []PageFollows
  <1>1. WInit => DownloadsInv
    BY PartStarts, PageStart DEF DownloadsInv, PagePart, PInit
  <1>2. DownloadsInv => PageFollows
    <2> SUFFICES ASSUME DownloadsInv, heardOpen, feed = <<>>, ~timer, asked = {}, ~missed
                 PROVE  StatusOf(items) = StatusOf(Rows(filter))
      BY DEF PageFollows
    <2>1. PageInv
      BY DEF DownloadsInv, PagePart
    <2>2. Len(feed) = 0 /\ ~Stirring
      BY DEF Stirring
    <2> QED
      BY <2>1, <2>2 DEF PageInv, UpToDate, AsTheCore
  <1> QED
    BY <1>1, <1>2, DownloadsStep, FeedCorrect, PTL DEF WSpec

-----------------------------------------------------------------------------
(* The numbered lists.  A ceiling is Backed by a page that shows it; when  *)
(* what that page shows changes under the pager, the effect that will take *)
(* it back is still to run, and the page's own answer covers it until then.*)

Outcomes  == {"none", "more", "last", "empty"}
Frontiers == [knownMax : PageNos, ceiling : 0 .. NPages + 1, cursors : SUBSET PageNos]

PagerTypeOK ==
  /\ real \in 0 .. NPages /\ dangles \in BOOLEAN /\ cursor \in BOOLEAN /\ hint \in 0 .. NPages + 1
  /\ page \in PageNos /\ frontier \in Frontiers /\ hovered \subseteq PageNos /\ changes \in Nat
  /\ cache \in [PageNos -> Outcomes] /\ cache[NPages + 1] # "more"

\* What is known of a list lies below its ceiling.
Tidy(f) ==
  /\ \A p \in f.cursors : p <= f.knownMax
  /\ f.ceiling # NoEnd => f.knownMax <= f.ceiling

\* Of a list that has not changed, nothing untrue has been learned.
Within(f) ==
  /\ f.knownMax <= AtLeast(real, 1)
  /\ f.ceiling # NoEnd => AtLeast(real, 1) <= f.ceiling
Steady ==
  changes = 0 =>
    /\ \A p \in PageNos : cache[p] \in {"none", Outcome(p)}
    /\ ~dangles => Within(frontier)

ShowsEnd(p, outcome, end) ==
  (outcome = "last" /\ end = p) \/ (outcome = "empty" /\ end = EndBefore(p))
Due == Observed # "none" /\ noted # <<FetchPage, Observed>>
Backed ==
  frontier.ceiling # NoEnd =>
    \/ \E p \in PageNos : ShowsEnd(p, cache[p], frontier.ceiling)
    \/ Due /\ frontier.ceiling \in {FetchPage, EndBefore(FetchPage)}

PagerInv == PagerTypeOK /\ Tidy(frontier) /\ Steady /\ Backed

LEMMA Least ==
  ASSUME NEW T \in SUBSET Nat, T # {}
  PROVE  \E x \in T : \A y \in T : x <= y
  <1> DEFINE R == OpToRel(<, Nat)
  <1>1. IsWellFoundedOn(R, Nat)
    BY NatLessThanWellFounded
  <1>2. \A x, y \in Nat : y < x => <<y, x>> \in R
    BY DEF OpToRel
  <1> HIDE DEF R
  <1>3. PICK x \in T : \A y \in T : ~ (<<y, x>> \in R)
    BY <1>1, WFMin
  <1>4. ASSUME NEW y \in T PROVE x <= y
    <2>1. ~ (<<y, x>> \in R)
      BY <1>3
    <2>2. ~ (y < x)
      BY <2>1, <1>2
    <2> QED
      BY <2>2
  <1> QED
    BY <1>4

LEMMA MaxProperties ==
  ASSUME NEW n \in Nat, NEW S \in SUBSET (0 .. n), S # {}
  PROVE  Max(S) \in S /\ \A y \in S : y <= Max(S)
  <1> DEFINE U == {m \in Nat : \A y \in S : y <= m}
  <1>1. n \in U
    OBVIOUS
  <1>2. PICK m \in U : \A k \in U : m <= k
    BY <1>1, Least
  <1>3. m \in S
    <2> SUFFICES ASSUME m \notin S PROVE FALSE
      OBVIOUS
    <2>1. \A y \in S : y \in Nat /\ y < m
      OBVIOUS
    <2>2. PICK z \in S : TRUE
      OBVIOUS
    <2>3. m - 1 \in Nat
      BY <2>1, <2>2
    <2>4. m - 1 \in U
      BY <2>1, <2>3
    <2> QED
      BY <2>4, <1>2
  <1> QED
    BY <1>2, <1>3 DEF Max

LEMMA CursorFrontierType ==
  ASSUME PagerTypeOK
  PROVE  /\ CursorFrontier \in {1} \cup frontier.cursors
         /\ \A p \in {1} \cup frontier.cursors : p <= CursorFrontier
  <1>1. {1} \cup frontier.cursors \in SUBSET (0 .. NPages + 1)
    BY PagerAssumption DEF PagerTypeOK, Frontiers, PageNos
  <1>2. NPages + 1 \in Nat
    BY PagerAssumption
  <1> QED
    BY <1>1, <1>2, MaxProperties DEF CursorFrontier

LEMMA FetchPageType == ASSUME PagerTypeOK PROVE FetchPage \in PageNos
  <1>1. page \in PageNos /\ frontier.cursors \in SUBSET PageNos /\ 1 \in PageNos
    BY PagerAssumption DEF PagerTypeOK, Frontiers, PageNos
  <1>2. CursorFrontier \in PageNos
    BY <1>1, CursorFrontierType
  <1> QED
    BY <1>1, <1>2 DEF FetchPage, AtMost

LEMMA OutcomeType ==
  ASSUME PagerTypeOK, NEW p \in PageNos
  PROVE  Outcome(p) \in {"more", "last", "empty"} /\ (Outcome(p) = "more" => p # NPages + 1)
  BY PagerAssumption DEF PagerTypeOK, Outcome, PageNos

LEMMA AdvanceType ==
  ASSUME PagerTypeOK, Tidy(frontier), NEW p \in PageNos, NEW o \in {"more", "last", "empty"},
         o = "more" => p # NPages + 1
  PROVE  Advance(frontier, p, o) \in Frontiers /\ Tidy(Advance(frontier, p, o))
  <1>1. /\ frontier.knownMax \in PageNos /\ frontier.ceiling \in 0 .. NPages + 1
        /\ frontier.cursors \in SUBSET PageNos
    BY DEF PagerTypeOK, Frontiers
  <1>2. PageNos \subseteq Nat /\ PageNos \subseteq 0 .. NPages + 1 /\ \A x \in PageNos : 1 <= x
    BY PagerAssumption DEF PageNos
  <1>3. ASSUME NEW k \in PageNos, NEW c \in 0 .. NPages + 1, NEW S \in SUBSET PageNos,
               \A x \in S : x <= k, c # NoEnd => k <= c,
               Advance(frontier, p, o) = [knownMax |-> k, ceiling |-> c, cursors |-> S]
        PROVE  Advance(frontier, p, o) \in Frontiers /\ Tidy(Advance(frontier, p, o))
    BY <1>3 DEF Frontiers, Tidy
  <1>4. CASE o = "more"
    <2> DEFINE k == AtLeast(frontier.knownMax, p + 1)
               S == IF cursor THEN frontier.cursors \cup {p + 1} ELSE {}
    <2>1. Advance(frontier, p, o) = [knownMax |-> k, ceiling |-> Raised(frontier, p), cursors |-> S]
      BY <1>4 DEF Advance
    <2>2. p + 1 \in PageNos
      BY <1>4, PagerAssumption DEF PageNos
    <2>3. k \in PageNos /\ frontier.knownMax <= k /\ p + 1 <= k
      BY <1>1, <1>2, <2>2 DEF AtLeast
    <2>4. S \in SUBSET PageNos /\ \A x \in S : x \in frontier.cursors \/ x = p + 1
      BY <1>1, <2>2
    <2>5. \A x \in S : x <= k
      BY <1>1, <1>2, <2>2, <2>3, <2>4 DEF Tidy
    <2>6. Raised(frontier, p) \in 0 .. NPages + 1
      BY <1>1, PagerAssumption DEF Raised, NoEnd
    <2>7. Raised(frontier, p) # NoEnd => k <= Raised(frontier, p)
      BY <1>1, <1>2, PagerAssumption DEF Raised, NoEnd, Tidy, AtLeast, PageNos
    <2> HIDE DEF k, S
    <2> QED
      BY <2>1, <2>3, <2>4, <2>5, <2>6, <2>7, <1>3
  <1>5. ASSUME NEW k \in PageNos, NEW c \in PageNos, k <= c,
               Advance(frontier, p, o) = Truncate(frontier, k, c)
        PROVE  Advance(frontier, p, o) \in Frontiers /\ Tidy(Advance(frontier, p, o))
    <2> DEFINE S == {x \in frontier.cursors : x <= k}
    <2>1. S \in SUBSET PageNos /\ \A x \in S : x <= k
      BY <1>1
    <2>2. Advance(frontier, p, o) = [knownMax |-> k, ceiling |-> c, cursors |-> S]
      BY <1>5 DEF Truncate
    <2> QED
      BY <1>2, <1>3, <1>5, <2>1, <2>2
  <1>6. CASE o = "last"
    BY <1>2, <1>5, <1>6 DEF Advance
  <1>7. CASE o = "empty"
    <2> DEFINE e == EndBefore(p)
               k == AtMost(frontier.knownMax, e)
               c == IF frontier.ceiling = NoEnd THEN e ELSE AtMost(frontier.ceiling, e)
    <2>1. e \in PageNos
      BY PagerAssumption DEF EndBefore, AtLeast, PageNos
    <2> HIDE DEF e
    <2>5. e \in Nat /\ frontier.knownMax \in Nat
      BY <1>1, <1>2, <2>1
    <2>2. k \in PageNos /\ k <= e /\ k <= frontier.knownMax
      BY <1>1, <2>1, <2>5 DEF AtMost
    <2>3. c \in PageNos /\ k <= c
      BY <1>1, <2>1, <2>2, PagerAssumption DEF AtMost, NoEnd, PageNos, Tidy
    <2>4. Advance(frontier, p, o) = Truncate(frontier, k, c)
      BY <1>7 DEF Advance, e
    <2> HIDE DEF k, c
    <2> QED
      BY <2>2, <2>3, <2>4, <1>5
  <1> QED
    BY <1>4, <1>6, <1>7

\* Of a list as it is, nothing untrue is learned.
LEMMA AdvanceWithin ==
  ASSUME PagerTypeOK, ~dangles, Within(frontier), NEW p \in PageNos
  PROVE  Within(Advance(frontier, p, Outcome(p)))
  <1>1. /\ frontier.knownMax \in Nat /\ frontier.ceiling \in Nat /\ p \in Nat \ {0} /\ real \in Nat
    BY PagerAssumption DEF PagerTypeOK, Frontiers, PageNos
  <1>2. CASE p < real
    <2>1. /\ Advance(frontier, p, Outcome(p)).knownMax = AtLeast(frontier.knownMax, p + 1)
          /\ Advance(frontier, p, Outcome(p)).ceiling = Raised(frontier, p)
      BY <1>2 DEF Advance, Outcome
    <2> QED
      BY <1>1, <1>2, <2>1 DEF Within, AtLeast, Raised, NoEnd
  <1>3. CASE p = real
    <2>1. /\ Advance(frontier, p, Outcome(p)).knownMax = p
          /\ Advance(frontier, p, Outcome(p)).ceiling = p
      BY <1>1, <1>3 DEF Advance, Outcome, Truncate
    <2> QED
      BY <1>1, <1>3, <2>1 DEF Within, AtLeast
  <1>4. CASE p > real
    <2>1. Outcome(p) = "empty"
      BY <1>1, <1>4 DEF Outcome
    <2>2. /\ Advance(frontier, p, Outcome(p)).knownMax = AtMost(frontier.knownMax, EndBefore(p))
          /\ Advance(frontier, p, Outcome(p)).ceiling
               = IF frontier.ceiling = NoEnd THEN EndBefore(p) ELSE AtMost(frontier.ceiling, EndBefore(p))
      BY <2>1 DEF Advance, Truncate
    <2> QED
      BY <1>1, <1>4, <2>2 DEF Within, AtLeast, AtMost, EndBefore, NoEnd
  <1> QED
    BY <1>1, <1>2, <1>3, <1>4

\* A ceiling that outlives an observation is shown by that page, or lies clear of it; then the
\* walk goes on where it was.
LEMMA AdvanceEnd ==
  ASSUME PagerTypeOK, Tidy(frontier), NEW p \in PageNos, NEW o \in {"more", "last", "empty"},
         NEW f, f = Advance(frontier, p, o), f.ceiling # NoEnd
  PROVE  \/ ShowsEnd(p, o, f.ceiling)
         \/ /\ f.ceiling = frontier.ceiling /\ f.ceiling \notin {p, EndBefore(p)}
            /\ f.cursors = frontier.cursors
               \/ (p < f.ceiling /\ (cursor => f.cursors = frontier.cursors \cup {p + 1}))
  <1>1. /\ frontier.knownMax \in Nat /\ frontier.ceiling \in Nat /\ p \in Nat \ {0}
        /\ frontier.cursors \in SUBSET Nat
    BY PagerAssumption DEF PagerTypeOK, Frontiers, PageNos
  <1>2. CASE o = "more"
    <2>1. f = [knownMax |-> AtLeast(frontier.knownMax, p + 1), ceiling |-> Raised(frontier, p),
               cursors |-> IF cursor THEN frontier.cursors \cup {p + 1} ELSE {}]
      BY <1>2 DEF Advance
    <2>2. f.ceiling = Raised(frontier, p) /\ (cursor => f.cursors = frontier.cursors \cup {p + 1})
      BY <2>1
    <2> QED
      BY <1>1, <2>2 DEF Raised, EndBefore, AtLeast
  <1>3. CASE o = "last"
    BY <1>3 DEF Advance, Truncate, ShowsEnd
  <1>4. CASE o = "empty"
    <2> DEFINE e == EndBefore(p)
               k == AtMost(frontier.knownMax, e)
               c == IF frontier.ceiling = NoEnd THEN e ELSE AtMost(frontier.ceiling, e)
    <2>1. f.ceiling = c /\ f.cursors = {x \in frontier.cursors : x <= k}
      BY <1>4 DEF Advance, Truncate
    <2>2. e \in Nat /\ (p = 1 => e = 1) /\ (p # 1 => e = p - 1)
      BY <1>1 DEF EndBefore, AtLeast
    <2>3. CASE c = e
      BY <1>4, <2>1, <2>3 DEF ShowsEnd
    <2>4. CASE c # e
      <3>1. c = frontier.ceiling /\ c < e /\ c # NoEnd
        BY <1>1, <2>1, <2>2, <2>4 DEF AtMost
      <3>2. k = frontier.knownMax
        BY <1>1, <2>2, <3>1 DEF AtMost, Tidy
      <3>3. f.cursors = frontier.cursors
        BY <2>1, <3>2 DEF Tidy
      <3>4. c \notin {p, EndBefore(p)}
        BY <1>1, <2>2, <3>1, <2>4
      <3> QED
        BY <2>1, <3>1, <3>3, <3>4
    <2> QED
      BY <2>3, <2>4
  <1> QED
    BY <1>2, <1>3, <1>4

LEMMA CeilingInReach ==
  ASSUME PagerTypeOK, frontier.ceiling \in {FetchPage, EndBefore(FetchPage)}
  PROVE  frontier.ceiling <= FetchPage /\ (cursor => frontier.ceiling <= CursorFrontier)
  <1>1. FetchPage \in Nat \ {0} /\ page \in Nat /\ CursorFrontier \in Nat
    <2>1. FetchPage \in PageNos /\ page \in PageNos /\ CursorFrontier \in {1} \cup PageNos
      BY FetchPageType, CursorFrontierType DEF PagerTypeOK, Frontiers
    <2> QED
      BY <2>1, PagerAssumption DEF PageNos
  <1>2. frontier.ceiling <= FetchPage
    BY <1>1 DEF EndBefore, AtLeast
  <1>3. cursor => FetchPage <= CursorFrontier
    BY <1>1 DEF FetchPage, AtMost
  <1>4. frontier.ceiling \in Nat
    BY PagerAssumption DEF PagerTypeOK, Frontiers
  <1> QED
    BY <1>1, <1>2, <1>3, <1>4

\* Hearing of another page leaves the one that is fetched alone, if it is the one whose answer
\* is to take the ceiling back.
LEMMA FetchPageStays ==
  ASSUME PagerInv, NEW p \in PageNos, NEW o \in {"more", "last", "empty"},
         o = "more" => p # NPages + 1, frontier' = Advance(frontier, p, o),
         frontier'.ceiling # NoEnd, ~ShowsEnd(p, o, frontier'.ceiling),
         frontier.ceiling \in {FetchPage, EndBefore(FetchPage)}, UNCHANGED <<page, cursor>>
  PROVE  FetchPage' = FetchPage
  <1> SUFFICES ASSUME cursor PROVE CursorFrontier' = CursorFrontier
    BY DEF FetchPage
  <1> USE DEF PagerInv
  <1>1. \/ frontier'.cursors = frontier.cursors
        \/ p < frontier.ceiling /\ frontier'.cursors = frontier.cursors \cup {p + 1}
    BY AdvanceEnd
  <1>2. CASE frontier'.cursors = frontier.cursors
    BY <1>2 DEF CursorFrontier
  <1>3. CASE p < frontier.ceiling /\ frontier'.cursors = frontier.cursors \cup {p + 1}
    <2> DEFINE S == {1} \cup frontier.cursors
               T == S \cup {p + 1}
    <2>1. S \in SUBSET (0 .. NPages + 1) /\ T \in SUBSET (0 .. NPages + 2) /\ p \in Nat
      BY PagerAssumption DEF PagerTypeOK, Frontiers, PageNos
    <2>2. CursorFrontier \in S /\ \A x \in S : x <= CursorFrontier
      BY CursorFrontierType
    <2>3. p + 1 <= CursorFrontier
      BY CeilingInReach, PagerAssumption, <1>3, <2>1, <2>2 DEF PagerTypeOK, Frontiers
    <2>4. \A x \in T : x <= CursorFrontier
      BY <2>2, <2>3
    <2>5. Max(T) \in T /\ \A x \in T : x <= Max(T)
      <3>1. NPages + 2 \in Nat
        BY PagerAssumption
      <3> QED
        BY <2>1, <3>1, MaxProperties
    <2>6. CursorFrontier' = Max(T)
      <3>1. {1} \cup frontier'.cursors = T
        BY <1>3
      <3> QED
        BY <3>1 DEF CursorFrontier
    <2>7. CursorFrontier <= Max(T) /\ Max(T) <= CursorFrontier
      BY <2>2, <2>4, <2>5
    <2>8. Max(T) \in Nat /\ CursorFrontier \in Nat
      BY <2>1, <2>2, <2>5
    <2> QED
      BY <2>6, <2>7, <2>8
  <1> QED
    BY <1>1, <1>2, <1>3

LEMMA LearnKeeps ==
  ASSUME PagerInv, NEW p \in PageNos, NEW o \in {"more", "last", "empty"},
         o = "more" => p # NPages + 1, changes = 0 => o = Outcome(p),
         frontier' = Advance(frontier, p, o), cache' = [cache EXCEPT ![p] = o],
         page' \in PageNos, hovered' \subseteq PageNos, UNCHANGED <<list, changes>>,
         (page' = page /\ noted' = Remembered(noted)) \/ ~Due \/ p = FetchPage
  PROVE  PagerInv'
  <1> USE DEF PagerInv, list
  <1>1. frontier' \in Frontiers /\ Tidy(frontier)'
    BY AdvanceType DEF Tidy
  <1>2. PagerTypeOK'
    BY <1>1 DEF PagerTypeOK, Outcomes
  <1>3. Steady'
    <2> SUFFICES ASSUME changes = 0
                 PROVE  /\ \A q \in PageNos : cache'[q] \in {"none", Outcome(q)'}
                        /\ ~dangles => Within(frontier)'
      BY DEF Steady
    <2>1. \A q \in PageNos : Outcome(q)' = Outcome(q)
      BY DEF Outcome
    <2>2. \A q \in PageNos : cache'[q] \in {"none", Outcome(q)}
      BY DEF Steady, PagerTypeOK
    <2>3. ASSUME ~dangles PROVE Within(frontier)'
      <3>1. Within(frontier')
        BY <2>3, AdvanceWithin DEF Steady
      <3> QED
        BY <3>1 DEF Within
    <2> QED
      BY <2>1, <2>2, <2>3
  <1>4. Backed'
    <2> SUFFICES ASSUME frontier'.ceiling # NoEnd
                 PROVE  \/ \E q \in PageNos : ShowsEnd(q, cache'[q], frontier'.ceiling)
                        \/ Due' /\ frontier'.ceiling \in {FetchPage', EndBefore(FetchPage')}
      BY DEF Backed, ShowsEnd, EndBefore
    <2>1. CASE ShowsEnd(p, o, frontier'.ceiling)
      <3>1. cache'[p] = o
        BY DEF PagerTypeOK
      <3> QED
        BY <2>1, <3>1
    <2>2. CASE ~ShowsEnd(p, o, frontier'.ceiling)
      <3>1. frontier'.ceiling = frontier.ceiling /\ frontier.ceiling \notin {p, EndBefore(p)}
        BY <2>2, AdvanceEnd
      <3>2. ASSUME NEW q \in PageNos, ShowsEnd(q, cache[q], frontier.ceiling)
            PROVE  ShowsEnd(q, cache'[q], frontier'.ceiling)
        <4>1. q # p
          BY <3>1, <3>2 DEF ShowsEnd
        <4>2. cache'[q] = cache[q]
          BY <4>1 DEF PagerTypeOK
        <4> QED
          BY <3>1, <3>2, <4>2
      <3>3. ASSUME Due, frontier.ceiling \in {FetchPage, EndBefore(FetchPage)}
            PROVE  Due' /\ frontier'.ceiling \in {FetchPage', EndBefore(FetchPage')}
        <4>1. p # FetchPage /\ page' = page /\ noted' = Remembered(noted)
          BY <3>1, <3>3
        <4>2. FetchPage' = FetchPage
          BY <2>2, <3>3, <4>1, FetchPageStays
        <4>3. cache'[FetchPage] = cache[FetchPage]
          BY <4>1, FetchPageType DEF PagerTypeOK
        <4>4. Observed' = Observed
          BY <4>2, <4>3 DEF Observed
        <4>5. noted' = noted
          BY <4>1, <4>2, <4>4 DEF Remembered
        <4> QED
          BY <3>1, <3>3, <4>2, <4>4, <4>5 DEF Due
      <3> QED
        BY <3>1, <3>2, <3>3 DEF Backed
    <2> QED
      BY <2>1, <2>2
  <1> QED
    BY <1>1, <1>2, <1>3, <1>4

LEMMA PagerStart == GInit => PagerInv
  <1> SUFFICES ASSUME GInit PROVE PagerInv
    OBVIOUS
  <1> USE PagerAssumption DEF GInit, PageNos, NoEnd
  <1>1. InitialFrontier \in Frontiers /\ Tidy(InitialFrontier)
    BY DEF InitialFrontier, Frontiers, Tidy
  <1>2. PagerTypeOK
    <2>1. hint \in 0 .. NPages + 1
      <3>1. CASE cursor
        BY <3>1
      <3>2. CASE ~cursor
        BY <3>2
      <3> QED
        BY <3>1, <3>2
    <2>2. cache \in [PageNos -> Outcomes] /\ cache[NPages + 1] # "more"
      BY DEF Outcomes
    <2>3. dangles \in BOOLEAN /\ cursor \in BOOLEAN
      OBVIOUS
    <2> QED
      BY <1>1, <2>1, <2>2, <2>3 DEF PagerTypeOK
  <1>3. Within(frontier)
    BY DEF Within, InitialFrontier, AtLeast
  <1>4. Backed
    BY DEF Backed, InitialFrontier
  <1> QED
    BY <1>1, <1>2, <1>3, <1>4 DEF PagerInv, Steady

\* A step that learns nothing: the list, what was learned and the page fetched may only differ
\* in what is fetched ahead, once the effect has run.
LEMMA MovedKeeps ==
  ASSUME PagerInv, ~Due, page' \in PageNos, hovered' \subseteq PageNos,
         UNCHANGED <<list, frontier, cache, changes>>
  PROVE  PagerInv'
  <1> USE DEF PagerInv, list
  <1>1. PagerTypeOK'
    BY DEF PagerTypeOK
  <1>2. Steady'
    BY DEF Steady, Within, Outcome
  <1>3. Backed'
    BY DEF Backed, ShowsEnd, EndBefore
  <1> QED
    BY <1>1, <1>2, <1>3 DEF Tidy

LEMMA GoKeeps == ASSUME PagerInv, NEW p \in PageNos, Go(p) PROVE PagerInv'
  BY MovedKeeps DEF Go, EffectsRan, Due, PagerInv, PagerTypeOK

LEMMA PointKeeps == ASSUME PagerInv, NEW p \in PageNos, Point(p) PROVE PagerInv'
  <1>1. ~Due /\ UNCHANGED <<list, page, cache, changes>>
    BY DEF Point, EffectsRan, Due
  <1>2. CASE hovered' = hovered \cup {p} /\ UNCHANGED frontier
    BY <1>1, <1>2, MovedKeeps DEF PagerInv, PagerTypeOK
  <1>3. CASE cache[p] # "none" /\ frontier' = Advance(frontier, p, cache[p]) /\ UNCHANGED hovered
    <2>1. cache[p] \in {"more", "last", "empty"} /\ (cache[p] = "more" => p # NPages + 1)
      BY <1>3 DEF PagerInv, PagerTypeOK, Outcomes
    <2>2. changes = 0 => cache[p] = Outcome(p)
      BY <1>3 DEF PagerInv, Steady
    <2>3. cache' = [cache EXCEPT ![p] = cache[p]]
      BY <1>1 DEF PagerInv, PagerTypeOK
    <2> QED
      BY <1>1, <1>3, <2>1, <2>2, <2>3, LearnKeeps DEF PagerInv, PagerTypeOK
  <1> QED
    BY <1>2, <1>3 DEF Point

LEMMA PointedKeeps == ASSUME PagerInv, NEW p \in hovered, Pointed(p) PROVE PagerInv'
  <1>1. p \in PageNos /\ hovered' \subseteq PageNos /\ page \in PageNos
    BY DEF PagerInv, PagerTypeOK, Pointed
  <1>2. UNCHANGED <<list, page, changes>> /\ noted' = Remembered(noted)
    BY DEF Pointed
  <1>3. CASE cache' = [cache EXCEPT ![p] = Outcome(p)] /\ frontier' = Advance(frontier, p, Outcome(p))
    BY <1>1, <1>2, <1>3, OutcomeType, LearnKeeps DEF PagerInv
  <1>4. CASE UNCHANGED <<cache, frontier>>
    <2> USE <1>2, <1>4 DEF PagerInv, list
    <2>1. PagerTypeOK'
      BY <1>1 DEF PagerTypeOK
    <2>2. Steady'
      BY DEF Steady, Within, Outcome
    <2>3. FetchPage' = FetchPage /\ Observed' = Observed
      BY DEF FetchPage, CursorFrontier, Observed
    <2>4. noted' = noted
      BY <2>3 DEF Remembered
    <2>5. Backed'
      BY <2>3, <2>4 DEF Backed, Due, ShowsEnd, EndBefore
    <2> QED
      BY <2>1, <2>2, <2>5 DEF Tidy
  <1> QED
    BY <1>3, <1>4 DEF Pointed

LEMMA StartOverKeeps == ASSUME PagerInv, StartOver PROVE PagerInv'
  <1> USE PagerAssumption DEF StartOver, PagerInv, PageNos, NoEnd, list
  <1>1. InitialFrontier \in Frontiers /\ Tidy(InitialFrontier)
    BY DEF InitialFrontier, Frontiers, Tidy
  <1>2. PagerTypeOK'
    BY <1>1 DEF PagerTypeOK, Outcomes
  <1>3. Within(frontier)'
    BY DEF Within, InitialFrontier, AtLeast, PagerTypeOK
  <1>4. Backed'
    BY DEF Backed, InitialFrontier
  <1>5. Steady'
    BY <1>3 DEF Steady
  <1>6. Tidy(frontier)'
    BY <1>1 DEF Tidy
  <1> QED
    BY <1>2, <1>4, <1>5, <1>6

LEMMA FetchPageFixed == ASSUME UNCHANGED <<page, cursor, frontier>> PROVE FetchPage' = FetchPage
  BY DEF FetchPage, CursorFrontier

\* What the page fetched now says takes the place of what it said.
LEMMA FetchedKeeps == ASSUME PagerInv, PageFetched \/ Revalidated PROVE PagerInv'
  <1> USE DEF PageFetched, Revalidated, PagerInv, list
  <1>1. FetchPage \in PageNos
    BY FetchPageType
  <1>2. PagerTypeOK'
    <2> DEFINE o == Outcome(FetchPage)
    <2>1. o \in Outcomes /\ (o = "more" => FetchPage # NPages + 1)
      BY <1>1, OutcomeType DEF Outcomes
    <2>2. cache' = [cache EXCEPT ![FetchPage] = o] /\ cache \in [PageNos -> Outcomes]
      BY DEF PagerTypeOK
    <2> HIDE DEF o
    <2>3. cache' \in [PageNos -> Outcomes]
      BY <2>1, <2>2
    <2>4. NPages + 1 \in PageNos
      BY PagerAssumption DEF PageNos
    <2>5. cache'[NPages + 1] # "more"
      BY <2>1, <2>2, <2>4 DEF PagerTypeOK
    <2> QED
      BY <2>3, <2>5 DEF PagerTypeOK
  <1>3. Steady'
    <2>1. \A q \in PageNos : Outcome(q)' = Outcome(q)
      BY DEF Outcome
    <2>2. changes = 0 => \A q \in PageNos : cache'[q] \in {"none", Outcome(q)}
      BY DEF Steady, PagerTypeOK
    <2>3. changes = 0 /\ ~dangles => Within(frontier)'
      BY DEF Steady, Within
    <2> QED
      BY <2>1, <2>2, <2>3 DEF Steady
  <1>4. FetchPage' = FetchPage
    BY FetchPageFixed
  <1>5. Observed' = Outcome(FetchPage) /\ Observed' # "none"
    <2>1. cache'[FetchPage] = Outcome(FetchPage)
      BY <1>1 DEF PagerTypeOK
    <2> QED
      BY <1>1, <1>4, <2>1, OutcomeType DEF Observed
  <1>6. Due'
    BY <1>5 DEF Due
  <1>7. Backed'
    <2> SUFFICES ASSUME frontier.ceiling # NoEnd
                 PROVE  \/ \E q \in PageNos : ShowsEnd(q, cache'[q], frontier.ceiling)
                        \/ frontier.ceiling \in {FetchPage, EndBefore(FetchPage)}
      BY <1>4, <1>6 DEF Backed, ShowsEnd, EndBefore
    <2>1. ASSUME NEW q \in PageNos, ShowsEnd(q, cache[q], frontier.ceiling)
          PROVE  \/ ShowsEnd(q, cache'[q], frontier.ceiling)
                 \/ frontier.ceiling \in {FetchPage, EndBefore(FetchPage)}
      <3>1. CASE q = FetchPage
        BY <2>1, <3>1 DEF ShowsEnd
      <3>2. CASE q # FetchPage
        BY <2>1, <3>2 DEF PagerTypeOK
      <3> QED
        BY <3>1, <3>2
    <2> QED
      BY <2>1 DEF Backed
  <1> QED
    BY <1>2, <1>3, <1>7 DEF Tidy

LEMMA RecordedKeeps == ASSUME PagerInv, Recorded PROVE PagerInv'
  <1>1. FetchPage \in PageNos /\ page \in PageNos
    BY FetchPageType DEF PagerInv, PagerTypeOK
  <1>2. Observed \in {"more", "last", "empty"} /\ (Observed = "more" => FetchPage # NPages + 1)
    BY <1>1 DEF PagerInv, PagerTypeOK, Outcomes, Observed, Recorded
  <1>3. changes = 0 => Observed = Outcome(FetchPage)
    BY <1>1, <1>2 DEF PagerInv, Steady, Observed
  <1>4. cache' = [cache EXCEPT ![FetchPage] = Observed]
    BY <1>1 DEF PagerInv, PagerTypeOK, Observed, Recorded
  <1>5. page' \in PageNos
    BY <1>1 DEF Recorded, Clamped
  <1> QED
    BY <1>1, <1>2, <1>3, <1>4, <1>5, LearnKeeps DEF Recorded, PagerInv, PagerTypeOK

LEMMA ListChangesKeeps == ASSUME PagerInv, ListChanges PROVE PagerInv'
  <1> USE DEF PagerInv, ListChanges
  <1>1. PagerTypeOK'
    BY DEF PagerTypeOK
  <1>2. Steady'
    BY DEF Steady, PagerTypeOK
  <1>3. FetchPage' = FetchPage /\ Observed' = Observed
    BY DEF FetchPage, CursorFrontier, Observed
  <1>4. Backed'
    BY <1>3 DEF Backed, Due, ShowsEnd, EndBefore
  <1> QED
    BY <1>1, <1>2, <1>4 DEF Tidy

LEMMA PagerStep == PagerInv /\ [GNext]_gvars => PagerInv'
  <1> SUFFICES ASSUME PagerInv, [GNext]_gvars PROVE PagerInv'
    OBVIOUS
  <1>1. CASE UNCHANGED gvars
    <2> USE <1>1 DEF gvars, list, PagerInv
    <2>1. PagerTypeOK'
      BY DEF PagerTypeOK
    <2>2. Steady'
      BY DEF Steady, Within, Outcome
    <2>3. FetchPage' = FetchPage /\ Observed' = Observed
      BY DEF FetchPage, CursorFrontier, Observed
    <2>4. Backed'
      BY <2>3 DEF Backed, Due, ShowsEnd, EndBefore
    <2> QED
      BY <2>1, <2>2, <2>4 DEF Tidy
  <1>2. CASE GNext
    BY <1>2, GoKeeps, PointKeeps, PointedKeeps, StartOverKeeps, FetchedKeeps, RecordedKeeps,
       ListChangesKeeps DEF GNext
  <1> QED
    BY <1>1, <1>2

LEMMA PagerCorrect == WSpec => []PagerInv
  <1>1. WInit => PagerInv
    BY PartStarts, PagerStart
  <1>2. PagerInv /\ [WNext]_wvars => PagerInv'
    BY PagerPart, PagerStep
  <1> QED
    BY <1>1, <1>2, PTL DEF WSpec

\* What the pager is drawn from, when the page shown is the one asked for and has been read.
LEMMA MergedShown ==
  ASSUME PagerInv, ~Walking, Observed # "none"
  PROVE  /\ page \in PageNos /\ Observed \in {"more", "last", "empty"}
         /\ Observed = cache[page] /\ Merged = Advance(frontier, page, Observed)
         /\ Merged \in Frontiers /\ Tidy(Merged)
  <1>1. FetchPage = page /\ page \in PageNos
    BY DEF Walking, PagerInv, PagerTypeOK
  <1>2. Observed = cache[page] /\ Observed \in {"more", "last", "empty"}
    BY <1>1 DEF Observed, PagerInv, PagerTypeOK, Outcomes
  <1>3. Observed = "more" => page # NPages + 1
    BY <1>2 DEF PagerInv, PagerTypeOK
  <1>4. Merged = Advance(frontier, page, Observed)
    BY DEF Merged
  <1> QED
    BY <1>1, <1>2, <1>3, <1>4, AdvanceType DEF PagerInv

LEMMA MergedTidy == ASSUME PagerInv PROVE Merged \in Frontiers /\ Tidy(Merged)
  BY MergedShown DEF Merged, PagerInv, PagerTypeOK

LEMMA NeverPastHolds == ASSUME PagerInv PROVE NeverPast
  <1> SUFFICES ASSUME changes = 0, ~dangles
               PROVE  Merged.knownMax <= AtLeast(real, 1) /\ LastPage \in {NoEnd, AtLeast(real, 1)}
    BY DEF NeverPast
  <1>1. Within(Merged)
    <2>1. CASE Walking \/ Observed = "none"
      BY <2>1 DEF Merged, PagerInv, Steady
    <2>2. CASE ~(Walking \/ Observed = "none")
      <3>1. Observed = Outcome(page)
        BY <2>2, MergedShown DEF PagerInv, Steady
      <3> QED
        BY <2>2, <3>1, MergedShown, AdvanceWithin DEF PagerInv, Steady
    <2> QED
      BY <2>1, <2>2
  <1>2. Merged.knownMax \in Nat /\ Merged.ceiling \in Nat /\ AtLeast(real, 1) \in Nat
    BY MergedTidy, PagerAssumption DEF Frontiers, PageNos, PagerInv, PagerTypeOK, AtLeast
  <1> QED
    BY <1>1, <1>2 DEF Within, LastPage

LEMMA AgreesHolds == ASSUME PagerInv PROVE Agrees
  <1> SUFFICES ASSUME ~Walking, Observed # "none"
               PROVE  /\ Observed = "more"  => Upper > page /\ LastPage # page
                      /\ Observed = "last"  => Upper = page /\ LastPage = page
                      /\ Observed = "empty" => Upper <= AtLeast(1, page - 1)
    BY DEF Agrees
  <1>1. /\ page \in Nat \ {0} /\ hint \in Nat
        /\ frontier.knownMax \in Nat \ {0} /\ frontier.ceiling \in Nat
    BY PagerAssumption DEF PagerInv, PagerTypeOK, Frontiers, PageNos
  <1>2. Merged = Advance(frontier, page, Observed)
    BY MergedShown
  <1>3. ASSUME Observed = "more" PROVE Upper > page /\ LastPage # page
    <2>1. Merged.knownMax = AtLeast(frontier.knownMax, page + 1)
      BY <1>2, <1>3 DEF Advance
    <2>2. Merged.knownMax \in Nat /\ Merged.knownMax > page
      BY <1>1, <2>1 DEF AtLeast
    <2>3. LastPage \in {NoEnd, Merged.knownMax}
      BY DEF LastPage
    <2>4. Capped \in Nat
      BY <1>1, MergedTidy, PagerAssumption DEF Capped, AtMost, Frontiers
    <2> QED
      BY <1>1, <2>2, <2>3, <2>4 DEF Upper, AtLeast, NoEnd
  <1>4. ASSUME Observed = "last" PROVE Upper = page /\ LastPage = page
    <2>1. Merged.knownMax = page /\ Merged.ceiling = page
      BY <1>2, <1>4 DEF Advance, Truncate
    <2> QED
      BY <1>1, <2>1 DEF LastPage, Upper, NoEnd
  <1>5. ASSUME Observed = "empty" PROVE Upper <= AtLeast(1, page - 1)
    <2> DEFINE e == EndBefore(page)
    <2>1. /\ Merged.knownMax = AtMost(frontier.knownMax, e)
          /\ Merged.ceiling = IF frontier.ceiling = NoEnd THEN e ELSE AtMost(frontier.ceiling, e)
      BY <1>2, <1>5 DEF Advance, Truncate
    <2>2. e \in Nat \ {0} /\ e = AtLeast(1, page - 1)
      BY <1>1 DEF EndBefore, AtLeast
    <2> HIDE DEF e
    <2>3. /\ Merged.knownMax \in Nat \ {0} /\ Merged.knownMax <= e
          /\ Merged.ceiling \in Nat \ {0} /\ Merged.ceiling <= e
      BY <1>1, <2>1, <2>2 DEF AtMost, NoEnd
    <2>4. Capped \in Nat /\ Capped <= e
      BY <1>1, <2>2, <2>3 DEF Capped, AtMost, NoEnd
    <2>5. Upper <= e
      BY <2>2, <2>3, <2>4 DEF Upper, LastPage, AtLeast, NoEnd
    <2> QED
      BY <2>2, <2>5
  <1> QED
    BY <1>3, <1>4, <1>5

LEMMA EndSeenHolds == ASSUME PagerInv PROVE EndSeen
  <1> DEFINE c == Merged.ceiling
  <1> SUFFICES ASSUME LastPage # NoEnd, ~Walking
               PROVE  \E p \in PageNos : ShowsEnd(p, cache[p], LastPage)
    <2>1. \A p \in PageNos : p \in Nat \ {0}
      BY PagerAssumption DEF PageNos
    <2>2. ASSUME NEW p \in PageNos, ShowsEnd(p, cache[p], LastPage)
          PROVE  \/ cache[LastPage] = "last"
                 \/ /\ p \in {LastPage + 1, 1} /\ AtLeast(1, p - 1) = LastPage
                    /\ cache[p] = "empty"
      BY <2>1, <2>2 DEF ShowsEnd, EndBefore, AtLeast
    <2> QED
      BY <2>2 DEF EndSeen
  <1>1. LastPage = c /\ c # NoEnd
    BY MergedTidy, PagerAssumption DEF LastPage, Tidy, Frontiers, PageNos, NoEnd
  <1>2. ASSUME Observed = "none" PROVE \E p \in PageNos : ShowsEnd(p, cache[p], c)
    BY <1>1, <1>2 DEF Merged, PagerInv, Backed, Due
  <1>3. ASSUME Observed # "none" PROVE \E p \in PageNos : ShowsEnd(p, cache[p], c)
    <2>1. /\ page \in PageNos /\ Observed \in {"more", "last", "empty"}
          /\ Observed = cache[page] /\ Merged = Advance(frontier, page, Observed)
      BY <1>3, MergedShown
    <2>2. \/ ShowsEnd(page, cache[page], c)
          \/ c = frontier.ceiling /\ c \notin {page, EndBefore(page)}
      BY <1>1, <2>1, AdvanceEnd DEF PagerInv
    <2>3. FetchPage = page
      BY DEF Walking
    <2> QED
      BY <1>1, <2>1, <2>2, <2>3 DEF PagerInv, Backed
  <1> QED
    BY <1>1, <1>2, <1>3

\* Of a list of any length, however often it changes and wherever the user goes, the pager
\* offers no page past an end it was told of, has a next page exactly if the page shown said so,
\* and shows no end that no page has shown (pagination.ts, page-frontier.ts).
THEOREM PagerHonestAlways == WSpec => []PagerHonest
  <1>1. PagerInv => PagerHonest
    BY NeverPastHolds, AgreesHolds, EndSeenHolds DEF PagerHonest
  <1> QED
    BY <1>1, PagerCorrect, PTL

-----------------------------------------------------------------------------
(* The viewer's stage.  A candidate is never mistaken for a frame of       *)
(* before because its id is the newest there is: hence StageFresh, which   *)
(* makes StageHonest inductive.                                            *)

Targets == [index : Nat \ {0}, src : Sources]
FrameSet == [index : Nat, src : Sources, id : Nat]
Stages  == [target : Targets, displayed : FrameSet, candidate : FrameSet,
            phase : {"idle", "loading", "error"}, generation : Nat]
ImageStates == {"none", "waiting", "decoding", "ready", "failed"}

\* The ids of a reducer state s whose mounted images are im.
StageFresh(s, im) ==
  /\ DOMAIN im \subseteq 1 .. s.generation
  /\ s.displayed = NoFrame \/ (s.displayed.id \in DOMAIN im /\ s.displayed.id <= s.generation)
  /\ s.candidate = NoFrame \/
       (s.candidate.id = s.generation /\ s.generation > 0 /\ s.displayed.id < s.generation)

\* The parts of StageHonest as they hold of s and im.
StageShows(s, im) == s.displayed # NoFrame => im[s.displayed.id] = "ready"
StageIdles(s)     == s.phase = "idle" <=> s.candidate = NoFrame
StageRests(s)     == s.phase = "idle" => s.displayed # NoFrame /\ Same(s.displayed, s.target)
StageAims(s)      == s.phase # "idle" => Same(s.candidate, s.target)
StageLoads(s, im) ==
  s.phase = "loading" /\ s.candidate.id \in DOMAIN im =>
    im[s.candidate.id] \in {"waiting", "decoding"} \/ s.candidate.src = NoSource
StageFailed(s, im) ==
  s.phase = "error" =>
    s.candidate.id \in DOMAIN im /\ (s.candidate.src = NoSource \/ im[s.candidate.id] = "failed")

StageSound(s, im) ==
  /\ s \in Stages /\ im \in [DOMAIN im -> ImageStates]
  /\ StageFresh(s, im) /\ StageShows(s, im) /\ StageIdles(s) /\ StageRests(s) /\ StageAims(s) /\ StageLoads(s, im) /\ StageFailed(s, im)

StageInv ==
  /\ pages \in Versions /\ synced \in BOOLEAN /\ turns \in Nat
  /\ StageSound(stage, images) /\ OfTheWork

-----------------------------------------------------------------------------
(* The reducer                                                             *)

LEMMA TargetType ==
  ASSUME NEW ps \in Versions, NEW i \in DOMAIN ps
  PROVE  Target(ps, i) \in Targets
  <1>1. ps \in Seq(Sources) /\ DOMAIN ps = 1 .. Len(ps)
    BY VersionsAssumption
  <1>2. ps[i] \in Sources /\ i \in Nat \ {0}
    BY <1>1
  <1> QED
    BY <1>2 DEF Target, Targets

LEMMA ClampInside ==
  ASSUME NEW ps \in Versions, NEW i \in Nat \ {0}
  PROVE  Clamp(i, Len(ps)) \in DOMAIN ps
  <1>1. ps \in Seq(Sources) /\ ps # <<>>
    BY VersionsAssumption
  <1>2. Len(ps) \in Nat /\ Len(ps) # 0 /\ DOMAIN ps = 1 .. Len(ps)
    BY <1>1
  <1> QED
    BY <1>2 DEF Clamp

\* A new candidate gets an id no mounted image has.
LEMMA PrepareSound ==
  ASSUME NEW s, NEW im, StageSound(s, im), NEW t \in Targets
  PROVE  StageSound(Prepare(s, t), im) /\ Prepare(s, t).target = t
  <1> DEFINE r == Prepare(s, t)
  <1> SUFFICES StageSound(r, im) /\ r.target = t
    OBVIOUS
  <1> USE DEF StageSound, Stages
  <1>0. NoFrame \in FrameSet
    BY VersionsAssumption DEF NoFrame, FrameSet
  <1>1. CASE s.displayed # NoFrame /\ Same(s.displayed, t)
    <2>1. r = [s EXCEPT !.target = t, !.candidate = NoFrame, !.phase = "idle"]
      BY <1>1 DEF Prepare
    <2>2. /\ r \in Stages /\ r.displayed = s.displayed /\ r.generation = s.generation
          /\ r.target = t /\ r.candidate = NoFrame /\ r.phase = "idle"
      BY <1>0, <2>1
    <2> HIDE DEF r
    <2> QED
      BY <1>1, <2>2 DEF StageFresh, StageShows, StageIdles, StageRests, StageAims, StageLoads, StageFailed
  <1>2. CASE ~(s.displayed # NoFrame /\ Same(s.displayed, t))
    <2> DEFINE c == [index |-> t.index, src |-> t.src, id |-> s.generation + 1]
    <2>1. r = [s EXCEPT !.target = t, !.generation = s.generation + 1, !.phase = "loading", !.candidate = c]
      BY <1>2 DEF Prepare, NextId
    <2>2. c \in FrameSet /\ c # NoFrame /\ c.id = s.generation + 1 /\ Same(c, t)
      BY DEF FrameSet, NoFrame, Targets, Same
    <2> HIDE DEF r, c
    <2>r. r = [target |-> t, displayed |-> s.displayed, candidate |-> c, phase |-> "loading",
               generation |-> s.generation + 1]
      BY <2>1
    <2>3. /\ r \in Stages /\ r.displayed = s.displayed /\ r.generation = s.generation + 1
          /\ r.target = t /\ r.candidate = c /\ r.phase = "loading"
      BY <2>r, <2>2
    <2>4. s.displayed.id < s.generation + 1 /\ s.generation \in Nat
      BY DEF StageFresh, NoFrame
    <2>5. DOMAIN im \subseteq 1 .. s.generation /\ c.id \notin DOMAIN im
      BY <2>2, <2>4 DEF StageFresh
    <2>6. StageFresh(r, im)
      BY <2>2, <2>3, <2>4, <2>5 DEF StageFresh
    <2>7. StageShows(r, im) /\ StageIdles(r) /\ StageRests(r) /\ StageAims(r) /\ StageLoads(r, im) /\ StageFailed(r, im)
      BY <2>2, <2>3, <2>5 DEF StageShows, StageIdles, StageRests, StageAims, StageLoads, StageFailed
    <2> QED
      BY <2>3, <2>6, <2>7
  <1> QED
    BY <1>1, <1>2

LEMMA SelectSound ==
  ASSUME NEW s, NEW im, StageSound(s, im), NEW t \in Targets
  PROVE  StageSound(SelectPage(s, t), im) /\ SelectPage(s, t).target = t
  <1>1. CASE Same(s.target, t)
    <2>1. s.target = t
      BY <1>1 DEF Same, StageSound, Stages, Targets
    <2> QED
      BY <1>1, <2>1 DEF SelectPage
  <1>2. CASE ~Same(s.target, t)
    BY <1>2, PrepareSound DEF SelectPage
  <1> QED
    BY <1>1, <1>2

\* An image that is ready, be it the candidate's or one of before.
LEMMA ReadySound ==
  ASSUME NEW s, NEW im, StageSound(s, im), NEW f \in DOMAIN im, im[f] = "decoding"
  PROVE  StageSound(Ready(s, f), [im EXCEPT ![f] = "ready"]) /\ Ready(s, f).target = s.target
  <1> DEFINE r == Ready(s, f)
             jm == [im EXCEPT ![f] = "ready"]
  <1> SUFFICES StageSound(r, jm) /\ r.target = s.target
    OBVIOUS
  <1> USE DEF StageSound, Stages
  <1>0. NoFrame \in FrameSet
    BY VersionsAssumption DEF NoFrame, FrameSet
  <1>1. jm \in [DOMAIN im -> ImageStates] /\ DOMAIN jm = DOMAIN im /\ jm[f] = "ready"
        /\ \A g \in DOMAIN im : g # f => jm[g] = im[g]
    BY DEF ImageStates
  <1>2. CASE s.candidate.id = f /\ s.phase = "loading"
    <2>1. r = [s EXCEPT !.displayed = s.candidate, !.candidate = NoFrame, !.phase = "idle"]
      BY <1>2 DEF Ready, Counts
    <2>2. /\ r \in Stages /\ r.displayed = s.candidate /\ r.generation = s.generation
          /\ r.target = s.target /\ r.candidate = NoFrame /\ r.phase = "idle"
      BY <1>0, <2>1
    <2>3. s.candidate # NoFrame /\ s.candidate.id = s.generation /\ Same(s.candidate, s.target)
      BY <1>2 DEF StageIdles, StageAims, StageFresh
    <2>4. s.generation <= s.generation /\ s.generation \in Nat
      OBVIOUS
    <2> HIDE DEF r, jm
    <2>5. StageFresh(r, jm)
      BY <1>1, <1>2, <2>2, <2>3, <2>4 DEF StageFresh
    <2>6. StageShows(r, jm) /\ StageIdles(r) /\ StageRests(r) /\ StageAims(r) /\ StageLoads(r, jm) /\ StageFailed(r, jm)
      BY <1>1, <1>2, <2>2, <2>3 DEF StageShows, StageIdles, StageRests, StageAims, StageLoads, StageFailed
    <2> QED
      BY <1>1, <2>2, <2>5, <2>6
  <1>3. CASE ~(s.candidate.id = f /\ s.phase = "loading")
    <2>1. r = s
      BY <1>3 DEF Ready, Counts
    <2> HIDE DEF r, jm
    <2>2. StageFresh(s, jm)
      BY <1>1 DEF StageFresh
    <2>3. StageShows(s, jm)
      BY <1>1 DEF StageShows, StageFresh
    <2>4. StageLoads(s, jm) /\ StageFailed(s, jm)
      BY <1>1, <1>3 DEF StageLoads, StageFailed
    <2> QED
      BY <1>1, <2>1, <2>2, <2>3, <2>4
  <1> QED
    BY <1>2, <1>3
\* An image that is broken.
LEMMA FailSound ==
  ASSUME NEW s, NEW im, StageSound(s, im), NEW f \in DOMAIN im, im[f] \in {"waiting", "decoding"}
  PROVE  StageSound(Fail(s, f), [im EXCEPT ![f] = "failed"]) /\ Fail(s, f).target = s.target
  <1> DEFINE r == Fail(s, f)
             jm == [im EXCEPT ![f] = "failed"]
  <1> SUFFICES StageSound(r, jm) /\ r.target = s.target
    OBVIOUS
  <1> USE DEF StageSound, Stages
  <1>1. jm \in [DOMAIN im -> ImageStates] /\ DOMAIN jm = DOMAIN im /\ jm[f] = "failed"
        /\ \A g \in DOMAIN im : g # f => jm[g] = im[g]
    BY DEF ImageStates
  <1>2. CASE s.candidate.id = f /\ s.phase = "loading"
    <2>1. r = [s EXCEPT !.phase = "error"]
      BY <1>2 DEF Fail, Counts
    <2>2. /\ r \in Stages /\ r.displayed = s.displayed /\ r.generation = s.generation
          /\ r.target = s.target /\ r.candidate = s.candidate /\ r.phase = "error"
      BY <2>1
    <2> HIDE DEF r, jm
    <2>3. StageFresh(r, jm)
      BY <1>1, <2>2 DEF StageFresh
    <2>4. StageShows(r, jm)
      BY <1>1, <2>2 DEF StageShows, StageFresh
    <2>5. StageIdles(r) /\ StageRests(r) /\ StageAims(r) /\ StageLoads(r, jm) /\ StageFailed(r, jm)
      BY <1>1, <1>2, <2>2 DEF StageIdles, StageRests, StageAims, StageLoads, StageFailed
    <2> QED
      BY <1>1, <2>2, <2>3, <2>4, <2>5
  <1>3. CASE ~(s.candidate.id = f /\ s.phase = "loading")
    <2>1. r = s
      BY <1>3 DEF Fail, Counts
    <2> HIDE DEF r, jm
    <2>2. StageFresh(s, jm)
      BY <1>1 DEF StageFresh
    <2>3. StageShows(s, jm)
      BY <1>1 DEF StageShows, StageFresh
    <2>4. StageLoads(s, jm) /\ StageFailed(s, jm)
      BY <1>1, <1>3 DEF StageLoads, StageFailed
    <2> QED
      BY <1>1, <2>1, <2>2, <2>3, <2>4
  <1> QED
    BY <1>2, <1>3

-----------------------------------------------------------------------------
LEMMA StageStart == XInit => StageInv
  <1> SUFFICES ASSUME XInit PROVE StageInv
    OBVIOUS
  <1> USE DEF XInit
  <1> DEFINE t == Target(pages, 1)
             s == [target |-> t, displayed |-> NoFrame, candidate |-> NoFrame,
                   phase |-> "idle", generation |-> 0]
             c == [index |-> t.index, src |-> t.src, id |-> 1]
  <1>1. 1 \in DOMAIN pages
    BY VersionsAssumption
  <1>2. t \in Targets /\ NoFrame \in FrameSet /\ t = [index |-> t.index, src |-> t.src]
    BY <1>1, TargetType, VersionsAssumption DEF NoFrame, FrameSet, Target
  <1>3. stage = [s EXCEPT !.target = t, !.generation = 1, !.phase = "loading", !.candidate = c]
    BY DEF Prepare, NextId
  <1> HIDE DEF t
  <1>4. c \in FrameSet /\ c # NoFrame /\ c.id = 1 /\ Same(c, t)
    BY <1>2 DEF FrameSet, NoFrame, Targets, Same
  <1>r. stage = [target |-> t, displayed |-> NoFrame, candidate |-> c, phase |-> "loading",
                 generation |-> 1]
    BY <1>3
  <1> HIDE DEF c
  <1>5. /\ stage \in Stages /\ stage.target = t /\ stage.displayed = NoFrame
        /\ stage.candidate = c /\ stage.phase = "loading" /\ stage.generation = 1
    BY <1>r, <1>2, <1>4 DEF Stages
  <1>6. images \in [DOMAIN images -> ImageStates] /\ DOMAIN images = {}
    OBVIOUS
  <1>7. StageFresh(stage, images)
    BY <1>4, <1>5, <1>6 DEF StageFresh, NoFrame
  <1>8. StageSound(stage, images)
    BY <1>4, <1>5, <1>6, <1>7 DEF StageSound, StageShows, StageIdles, StageRests, StageAims, StageLoads, StageFailed
  <1>9. OfTheWork
    BY <1>1, <1>5 DEF OfTheWork, Target, t
  <1> QED
    BY <1>8, <1>9 DEF StageInv

LEMMA StageStep == StageInv /\ [XNext]_xvars => StageInv'
  <1> SUFFICES ASSUME StageInv, [XNext]_xvars PROVE StageInv'
    OBVIOUS
  <1> USE DEF StageInv
  <1>t. stage.target \in Targets /\ stage.target.index \in Nat \ {0}
    BY DEF StageSound, Stages, Targets
  <1>1. ASSUME NEW i \in DOMAIN pages, TurnTo(i) PROVE StageInv'
    <2>1. StageSound(stage', images) /\ stage'.target = Target(pages, i)
      BY <1>1, TargetType, SelectSound DEF TurnTo
    <2>2. turns' \in Nat /\ Target(pages, i).index = i
      BY <1>1 DEF TurnTo, Turns, Target
    <2> QED
      BY <1>1, <2>1, <2>2 DEF TurnTo, OfTheWork
  <1>2. ASSUME NEW f \in DOMAIN images, Loaded(f) PROVE StageInv'
    <2>1. images' = [images EXCEPT ![f] = "decoding"] /\ images[f] = "waiting" /\ UNCHANGED <<pages, synced, stage, turns>>
      BY <1>2 DEF Loaded
    <2>2. /\ images' \in [DOMAIN images -> ImageStates] /\ DOMAIN images' = DOMAIN images
          /\ images'[f] = "decoding" /\ \A g \in DOMAIN images : g # f => images'[g] = images[g]
      BY <2>1 DEF StageSound, ImageStates
    <2>3. StageSound(stage, images')
      BY <2>1, <2>2 DEF StageSound, StageFresh, StageShows, StageLoads, StageFailed
    <2> QED
      BY <2>1, <2>3 DEF OfTheWork
  <1>3. ASSUME NEW f \in DOMAIN images, Decoded(f) PROVE StageInv'
    <2>1. StageSound(stage', images') /\ stage'.target = stage.target
      BY <1>3, ReadySound DEF Decoded
    <2> QED
      BY <1>3, <2>1 DEF Decoded, OfTheWork
  <1>4. ASSUME NEW f \in DOMAIN images, Broken(f) PROVE StageInv'
    <2>1. StageSound(stage', images') /\ stage'.target = stage.target
      BY <1>4, FailSound DEF Broken
    <2> QED
      BY <1>4, <2>1 DEF Broken, OfTheWork
  <1>5. CASE Commit
    <2>1. /\ DOMAIN images' = Frames /\ images' \in [DOMAIN images' -> ImageStates]
          /\ \A f \in Frames : images'[f] = IF f \in DOMAIN images THEN images[f] ELSE Mounted
      BY <1>5 DEF Commit, Mounted, ImageStates, StageSound
    <2>2. Frames \subseteq 1 .. stage.generation
      BY DEF Frames, StageSound, Stages, FrameSet, StageFresh, NoFrame
    <2>3. StageFresh(stage, images')
      BY <2>1, <2>2 DEF StageSound, StageFresh, Frames, Stages, FrameSet
    <2>4. StageShows(stage, images')
      BY <2>1 DEF StageSound, StageShows, StageFresh, Frames
    <2>5. StageLoads(stage, images')
      BY <2>1 DEF StageSound, StageLoads, Mounted
    <2>6. StageFailed(stage, images')
      BY <2>1 DEF StageSound, StageFailed, StageFresh, Frames
    <2> QED
      BY <1>5, <2>1, <2>3, <2>4, <2>5, <2>6 DEF Commit, StageSound, OfTheWork
  <1>6. CASE Retry
    <2>1. StageSound(stage', images) /\ stage'.target = stage.target
      BY <1>6, <1>t, PrepareSound DEF Retry, Retried
    <2> QED
      BY <1>6, <2>1 DEF Retry, Turns, OfTheWork
  <1>7. CASE Refreshed
    <2>1. /\ pages' \in Versions /\ synced' = FALSE /\ turns' = turns + 1
          /\ stage' = stage /\ images' = images
      BY <1>7 DEF Refreshed, Turns
    <2>2. OfTheWork'
      BY <2>1 DEF OfTheWork
    <2>3. synced' \in BOOLEAN
      BY <2>1
    <2> QED
      BY <2>1, <2>2, <2>3
  <1>8. CASE Reselect
    <2> DEFINE i == Clamp(stage.target.index, Len(pages))
    <2>1. i \in DOMAIN pages /\ Target(pages, i).index = i
      BY <1>t, ClampInside DEF Target
    <2>2. Target(pages, i) \in Targets
      BY <2>1, TargetType
    <2>3. StageSound(stage', images) /\ stage'.target = Target(pages, i)
      BY <1>8, <2>2, SelectSound DEF Reselect
    <2> HIDE DEF i
    <2> QED
      BY <1>8, <2>1, <2>3 DEF Reselect, OfTheWork
  <1>9. CASE NothingToLoad
    <2> DEFINE c == stage.candidate
    <2>1. c.id \in DOMAIN images
      BY <1>9 DEF NothingToLoad, Rendered, Frames, StageSound, StageIdles, StageFresh, Stages
    <2>2. stage' = [stage EXCEPT !.phase = "error"]
      BY <1>9 DEF NothingToLoad, Fail, Counts
    <2>3. /\ stage' \in Stages /\ stage'.target = stage.target /\ stage'.phase = "error"
          /\ stage'.displayed = stage.displayed /\ stage'.candidate = c
          /\ stage'.generation = stage.generation
      BY <2>2 DEF StageSound, Stages
    <2>4. StageSound(stage', images)
      BY <1>9, <2>1, <2>3 DEF NothingToLoad, StageSound, StageFresh, StageShows, StageIdles, StageRests, StageAims, StageLoads, StageFailed
    <2> QED
      BY <1>9, <2>3, <2>4 DEF NothingToLoad, OfTheWork
  <1>10. CASE UNCHANGED xvars
    BY <1>10 DEF xvars, OfTheWork
  <1> QED
    BY <1>1, <1>2, <1>3, <1>4, <1>5, <1>6, <1>7, <1>8, <1>9, <1>10 DEF XNext

\* Whatever the works, however their metadata is refreshed and however often the page is
\* turned, the viewer shows a decoded frame, and the one asked for unless it says that it loads
\* or has failed (stage-transition.ts, illust-stage.tsx).
THEOREM StageHonestAlways == WSpec => []StageHonest
  <1>1. StageInv => StageHonest
    BY DEF StageInv, StageSound, StageFresh, StageHonest, ShowsDecoded, IdleIsShown, LoadsTarget, FailedTarget,
           StageShows, StageIdles, StageRests, StageAims, StageLoads, StageFailed
  <1>2. WInit => StageInv
    BY PartStarts, StageStart
  <1>3. StageInv /\ [WNext]_wvars => StageInv'
    BY ViewerPart, StageStep
  <1> QED
    BY <1>1, <1>2, <1>3, PTL DEF WSpec

-----------------------------------------------------------------------------
(* A selection and its batches.  The lock is inductive by itself; that a   *)
(* batch never brings the mode back needs HoldsMode: what was selected is  *)
(* in the mode, and the batch that holds the lock with the selection       *)
(* untouched found it so.                                                  *)

Batches == [id : Nat, todo : SUBSET Illusts, sent : SUBSET Illusts, failed : SUBSET Illusts,
            fresh : BOOLEAN]

SelTypeOK ==
  /\ batches \in SUBSET Batches /\ started \in Nat /\ batch \in Nat
  /\ mode \in BOOLEAN /\ pending \in BOOLEAN /\ alive \in BOOLEAN
  /\ visible \in SUBSET Illusts /\ selected \in SUBSET Illusts

HoldsMode ==
  /\ selected # {} => mode
  /\ \A b \in batches : pending /\ b.id = batch /\ b.fresh => mode

SelInv == SelTypeOK /\ LockHeld /\ HoldsMode

LEMMA SelStart == SInit => SelInv
  <1> SUFFICES ASSUME SInit PROVE SelInv
    OBVIOUS
  <1>1. SelTypeOK
    BY ShownAssumption DEF SInit, SelTypeOK
  <1> QED
    BY <1>1 DEF SInit, SelInv, LockHeld, HoldsMode

\* An outdated batch keeps its place, and writes nothing any more.
LEMMA OutdatedShape ==
  ASSUME SelTypeOK
  PROVE  /\ Outdated \in SUBSET Batches
         /\ \A c \in Outdated : ~c.fresh
         /\ \A b \in batches : \E c \in Outdated : c.id = b.id
  <1>1. \A b \in batches : LET c == [b EXCEPT !.fresh = FALSE] IN c \in Batches /\ ~c.fresh /\ c.id = b.id
    BY DEF SelTypeOK, Batches
  <1> QED
    BY <1>1 DEF Outdated

\* What the list may do to the selection and its lock.
LEMMA ConfigureKeeps ==
  ASSUME SelInv, NEW l \in Lists, NEW seen \in Shown, NEW usable \in BOOLEAN,
         Configure(l, seen, usable)
  PROVE  SelInv' /\ (mode' => mode)
  <1> DEFINE changed == l # identity
             ids     == IF usable THEN seen ELSE IF changed THEN {} ELSE visible
             still   == selected \cap ids
             reset   == changed \/ (usable /\ ids = {})
             emptied == still # selected /\ still = {}
  <1>1. /\ visible' = ids /\ selected' = (IF reset THEN {} ELSE still)
        /\ batch' = (IF reset THEN 0 ELSE batch)
        /\ batches' = (IF reset \/ emptied THEN Outdated ELSE batches)
        /\ mode' = (mode /\ ~reset /\ ~emptied) /\ pending' = (pending /\ ~reset)
        /\ UNCHANGED <<started, alive>>
    BY DEF Configure, Locked
  <1>2. ids \in SUBSET Illusts
    BY ShownAssumption DEF SelInv, SelTypeOK
  <1> reset \in BOOLEAN /\ emptied \in BOOLEAN /\ still \subseteq selected /\ still \subseteq ids
    OBVIOUS
  <1> HIDE DEF changed, ids, reset
  <1>3. SelTypeOK'
    BY <1>1, <1>2, OutdatedShape DEF SelInv, SelTypeOK
  <1>4. CASE reset
    <2>1. ~pending' /\ selected' = {}
      BY <1>1, <1>4
    <2> QED
      BY <1>1, <1>3, <2>1 DEF SelInv, SelTypeOK, LockHeld, HoldsMode
  <1>5. CASE ~reset /\ emptied
    <2>1. selected' = {} /\ batches' = Outdated /\ batch' = batch /\ pending' = pending
      BY <1>1, <1>5 DEF SelInv, SelTypeOK
    <2> QED
      BY <1>1, <1>3, <2>1, OutdatedShape DEF SelInv, LockHeld, HoldsMode
  <1>6. CASE ~reset /\ ~emptied
    <2>1. /\ selected' = still /\ batches' = batches /\ batch' = batch
          /\ pending' = pending /\ mode' = mode
      BY <1>1, <1>6 DEF SelInv, SelTypeOK
    <2> QED
      BY <1>3, <2>1 DEF SelInv, LockHeld, HoldsMode
  <1> QED
    BY <1>4, <1>5, <1>6

\* The user edits the selection only when nothing is locked.
LEMMA SelectKeeps ==
  ASSUME SelInv, NEW ids \in SUBSET Illusts, NEW on \in BOOLEAN, Select(ids, on), ids # {} => on
  PROVE  SelInv' /\ pending' = pending
  BY OutdatedShape DEF Select, SelInv, SelTypeOK, LockHeld, HoldsMode

LEMMA EditKeeps ==
  ASSUME SelInv, ToggleAll \/ (\E i \in Illusts : Toggle(i)) \/ Exit
  PROVE  SelInv' /\ (mode' /\ ~mode => ~pending)
  <1>1. CASE ToggleAll
    <2>1. (IF selected # {} THEN {} ELSE visible) \in SUBSET Illusts
      BY DEF SelInv, SelTypeOK
    <2> QED
      BY <1>1, <2>1, SelectKeeps DEF ToggleAll, Editable
  <1>2. ASSUME NEW i \in Illusts, Toggle(i)
        PROVE  SelInv' /\ ~pending
    <2> DEFINE ids == IF i \in selected THEN selected \ {i} ELSE selected \cup {i}
    <2>1. ids \in SUBSET Illusts
      BY DEF SelInv, SelTypeOK
    <2>2. Select(ids, ids # {}) /\ ~pending
      BY <1>2 DEF Toggle, Editable
    <2> QED
      BY <2>1, <2>2, SelectKeeps
  <1>3. CASE Exit
    BY <1>3, OutdatedShape DEF Exit, SelInv, SelTypeOK, LockHeld, HoldsMode
  <1> QED
    BY <1>1, <1>2, <1>3

LEMMA DownloadKeeps == ASSUME SelInv, DownloadSelected PROVE SelInv' /\ UNCHANGED mode
  <1>1. PICK first \in SUBSET selected :
          batches' = batches \cup {[id |-> started', todo |-> selected \ first, sent |-> first,
                                    failed |-> {}, fresh |-> TRUE]}
    BY DEF DownloadSelected
  <1> DEFINE new == [id |-> started', todo |-> selected \ first, sent |-> first,
                     failed |-> {}, fresh |-> TRUE]
  <1>2. started' \in Nat /\ batch' = started' /\ pending' = TRUE
    BY DEF DownloadSelected, SelInv, SelTypeOK
  <1>3. new \in Batches /\ new.id = batch'
    BY <1>2 DEF Batches, SelInv, SelTypeOK
  <1>4. selected # {} /\ UNCHANGED <<visible, mode, selected, alive>>
    BY DEF DownloadSelected
  <1>5. mode
    BY <1>4 DEF SelInv, HoldsMode
  <1> HIDE DEF new
  <1>6. batches' = batches \cup {new}
    BY <1>1 DEF new
  <1>7. SelTypeOK'
    BY <1>2, <1>3, <1>4, <1>6 DEF SelInv, SelTypeOK
  <1> QED
    BY <1>2, <1>3, <1>4, <1>5, <1>6, <1>7 DEF SelInv, LockHeld, HoldsMode

LEMMA AnswerKeeps ==
  ASSUME SelInv, NEW b \in batches, NEW i, Answered(b, i)
  PROVE  SelInv' /\ UNCHANGED mode
  <1>1. PICK next \in SUBSET b.todo, bad \in BOOLEAN :
          batches' = (batches \ {b}) \cup
            {[b EXCEPT !.sent = (@ \ {i}) \cup next, !.todo = @ \ next,
                       !.failed = IF alive /\ bad THEN @ \cup {i} ELSE @]}
    BY DEF Answered
  <1> DEFINE c == [b EXCEPT !.sent = (@ \ {i}) \cup next, !.todo = @ \ next,
                            !.failed = IF alive /\ bad THEN @ \cup {i} ELSE @]
  <1>2. b \in Batches /\ i \in Illusts
    BY DEF SelInv, SelTypeOK, Batches, Answered
  <1>3. c \in Batches /\ c.id = b.id /\ c.fresh = b.fresh
    BY <1>2 DEF Batches
  <1> HIDE DEF c
  <1>4. batches' = (batches \ {b}) \cup {c}
    BY <1>1 DEF c
  <1>5. UNCHANGED <<visible, mode, selected, pending, batch, started, alive>>
    BY DEF Answered
  <1> QED
    BY <1>3, <1>4, <1>5 DEF SelInv, SelTypeOK, LockHeld, HoldsMode

\* The batch that ends writes the selection only when it found and left it in the mode.
LEMMA FinishKeeps ==
  ASSUME SelInv, NEW b \in batches, Finish(b)
  PROVE  SelInv' /\ (mode' /\ ~mode => ~pending)
  <1>1. batches' = batches \ {b} /\ UNCHANGED <<visible, started, alive>>
    BY DEF Finish
  <1>2. b \in Batches
    BY DEF SelInv, SelTypeOK
  <1>3. CASE batch = b.id
    <2>1. ~pending' /\ pending' \in BOOLEAN /\ batch' = 0
      BY <1>3 DEF Finish
    <2>2. CASE OwnsSelection(b)
      <3>1. selected' = b.failed \cap visible /\ mode' = (selected' # {})
        BY <2>2 DEF Finish
      <3>2. b.fresh
        BY <2>2 DEF OwnsSelection
      <3>3. pending => mode
        BY <1>3, <3>2 DEF SelInv, HoldsMode
      <3> QED
        BY <1>1, <1>2, <2>1, <3>1, <3>3 DEF SelInv, SelTypeOK, LockHeld, HoldsMode
    <2>3. CASE ~OwnsSelection(b)
      <3>1. UNCHANGED <<selected, mode>>
        BY <2>3 DEF Finish
      <3> QED
        BY <1>1, <2>1, <3>1 DEF SelInv, SelTypeOK, LockHeld, HoldsMode
    <2> QED
      BY <2>2, <2>3
  <1>4. CASE batch # b.id
    <2>1. UNCHANGED <<selected, mode, batch, pending>>
      BY <1>4 DEF Finish, OwnsSelection
    <2> QED
      BY <1>1, <1>4, <2>1 DEF SelInv, SelTypeOK, LockHeld, HoldsMode
  <1> QED
    BY <1>3, <1>4

LEMMA SelStep == ASSUME SelInv, [SNext]_selvars PROVE SelInv' /\ (mode' /\ ~mode => ~pending)
  <1>1. CASE DismissResult \/ Unmount \/ UNCHANGED selvars
    <2>1. UNCHANGED <<visible, mode, selected, pending, batch, batches, started>>
      BY <1>1 DEF DismissResult, Unmount, selvars
    <2>2. alive' \in BOOLEAN
      BY <1>1 DEF DismissResult, Unmount, selvars, SelInv, SelTypeOK
    <2>3. SelTypeOK'
      BY <2>1, <2>2 DEF SelInv, SelTypeOK
    <2> QED
      BY <2>1, <2>3 DEF SelInv, LockHeld, HoldsMode
  <1>2. CASE BatchStep
    BY <1>2, AnswerKeeps, FinishKeeps DEF BatchStep
  <1> QED
    BY <1>1, <1>2, ConfigureKeeps, EditKeeps, DownloadKeeps DEF SNext

LEMMA SelCorrect == WSpec => []SelInv
  <1>1. WInit => SelInv
    BY PartStarts, SelStart
  <1>2. SelInv /\ [WNext]_wvars => SelInv'
    BY SelectionPart, SelStep
  <1> QED
    BY <1>1, <1>2, PTL DEF WSpec

\* The lock of a selection is never left behind: the batch that holds it will release it, for any
\* lists and any number of batches (selection-state.ts).
THEOREM LockHeldAlways == WSpec => []LockHeld
  <1>1. SelInv => LockHeld
    BY DEF SelInv
  <1> QED
    BY SelCorrect, <1>1, PTL

\* No batch brings back a selection mode that was left while one holds the lock
\* (selection-state.ts).
THEOREM ModeStaysLeftAlways == WSpec => ModeStaysLeft
  <1>1. SelInv /\ [WNext]_wvars => [~mode /\ mode' => ~pending]_selvars
    BY SelectionPart, SelStep
  <1> QED
    BY SelCorrect, <1>1, PTL DEF WSpec, ModeStaysLeft

-----------------------------------------------------------------------------
(* The kept pages.  A page behind has the offset it was left at because    *)
(* the scroller's is counted for the page on display only, and its data    *)
(* because it expires before they do.                                      *)

Keys    == {KeyOf(p) : p \in Places} \ {NoKey}
Entries == [id : Nat \ {0}, key : Keys, loc : Places, hiddenAt : Int]

KeptTypeOK ==
  /\ kept \subseteq Entries /\ IsFiniteSet(kept)
  /\ here \in Places /\ made \in Nat \ {0} /\ moved \in BOOLEAN /\ time \in Nat
  /\ urls \in [Sections -> Places \cup {NoPlace}]
  /\ DOMAIN left = Ids(kept) /\ Ids(kept) \subseteq DOMAIN offsets

\* Every page has a number of its own, and none that is yet to be given.
Apart(es) == \A e, f \in es : e.id = f.id => e = f
NumberedPages == Apart(kept) /\ \A e \in kept : e.id < made
HiddenSince == \A e \in kept : e.hiddenAt = Showing \/ e.hiddenAt \in 0 .. time

\* What was collected behind a page has been there longer than a page is kept.
DataLast == \A e \in Hidden(kept) : e.id \in data \/ time - e.hiddenAt >= GcTime
UrlsInSection == \A s \in Sections : urls[s] # NoPlace => SectionAt[urls[s]] = s

KeptInv ==
  KeptTypeOK /\ NumberedPages /\ HiddenSince /\ DataLast /\ UrlsInSection /\ KeptAsLeft

\* Two URLs of one page are of one section.
LEMMA KeysTellSections ==
  ASSUME NEW p \in Places, NEW q \in Places, KeyOf(p) = KeyOf(q), KeyOf(p) # NoKey
  PROVE  SectionAt[p] = SectionAt[q]
  <1>1. p \notin Redirects /\ q \notin Redirects
    BY DEF KeyOf
  <1>2. /\ PathOf[p] = PathOf[q]
        /\ (IF SectionAt[p] \in Personal THEN SectionAt[p] ELSE NoSection)
             = (IF SectionAt[q] \in Personal THEN SectionAt[q] ELSE NoSection)
    BY <1>1 DEF KeyOf
  <1>3. NoSection \notin Personal
    BY KeptAssumption
  <1>4. SectionAt[p] = SectionAt[q] \/ {SectionAt[p], SectionAt[q]} \subseteq Personal
    BY <1>2, KeptAssumption
  <1> QED
    BY <1>2, <1>3, <1>4

LEMMA ImageSize ==
  ASSUME NEW S, IsFiniteSet(S), NEW f, f = [x \in S |-> f[x]]
  PROVE  IsFiniteSet({f[x] : x \in S}) /\ Cardinality({f[x] : x \in S}) <= Cardinality(S)
  <1> DEFINE T == {f[x] : x \in S}
  <1>1. f \in Surjection(S, T)
    BY DEF Surjection
  <1> QED
    BY <1>1, FS_Surjection

LEMMA MinMember == ASSUME NEW T \in SUBSET Nat, T # {} PROVE Min(T) \in T
  BY Least DEF Min

\* One of the pages hidden first.
LEMMA OldestIsHidden ==
  ASSUME NEW es \in SUBSET Entries, Hidden(es) # {}, \A e \in Hidden(es) : e.hiddenAt \in Nat
  PROVE  \E h \in Hidden(es) : Oldest(es) = h.id
  <1> DEFINE T == {e.hiddenAt : e \in Hidden(es)}
             I == {e.id : e \in {h \in es : h.hiddenAt = Min(T)}}
  <1>1. Min(T) \in T
    <2>1. T \in SUBSET Nat /\ T # {}
      OBVIOUS
    <2> QED
      BY <2>1, MinMember
  <1>2. PICK h \in Hidden(es) : h.hiddenAt = Min(T)
    BY <1>1
  <1>3. I \in SUBSET Nat /\ I # {}
    BY <1>2 DEF Hidden, Entries
  <1>4. Min(I) \in I
    BY <1>3, MinMember
  <1>5. PICK e \in es : e.hiddenAt = Min(T) /\ e.id = Min(I)
    BY <1>4
  <1>6. e \in Hidden(es)
    BY <1>2, <1>5 DEF Hidden
  <1>7. Oldest(es) = Min(I)
    BY DEF Oldest
  <1> QED
    BY <1>5, <1>6, <1>7

\* What becomes of an entry that is not shown, and where the one that is shown comes from.
Stamp(e, k) == IF e.key # k /\ e.hiddenAt = Showing THEN [e EXCEPT !.hiddenAt = time] ELSE e
Stays(e)    == e.hiddenAt = Showing \/ time - e.hiddenAt <= IdleTtl
Behind(g, k) ==
  /\ g.key # k /\ g.hiddenAt # Showing
  /\ \E e \in kept : /\ g.id = e.id /\ g.key = e.key /\ g.loc = e.loc
                     /\ g.hiddenAt = IF e.hiddenAt = Showing THEN time ELSE e.hiddenAt
ShownAt(g, p) ==
  /\ g.key = KeyOf(p) /\ g.loc = p /\ g.hiddenAt = Showing
  /\ \/ \E e \in kept : e.key = g.key /\ e.id = g.id /\ Stays(e)
     \/ g.id = made /\ \A e \in kept : e.key = g.key => ~Stays(e)

LEMMA StampedPages ==
  ASSUME KeptInv, NEW k
  PROVE  /\ Alive(Stamped(k)) \in SUBSET Entries /\ IsFiniteSet(Alive(Stamped(k)))
         /\ Cardinality(Alive(Stamped(k))) <= MaxKept
         /\ \A g \in Alive(Stamped(k)) : \E e \in kept : g = Stamp(e, k) /\ Stays(e)
         /\ \A e \in kept : e.key = k /\ Stays(e) => e \in Alive(Stamped(k))
  <1> DEFINE f == [e \in kept |-> Stamp(e, k)]
             S == Stamped(k)
  <1>1. S = {f[e] : e \in kept}
    BY DEF Stamped, Stamp
  <1>2. IsFiniteSet(kept) /\ Cardinality(kept) <= MaxKept
    BY DEF KeptInv, KeptTypeOK, KeptAsLeft, OnDisplay
  <1>3. IsFiniteSet(S) /\ Cardinality(S) <= Cardinality(kept)
    <2>1. f = [e \in kept |-> f[e]]
      OBVIOUS
    <2> HIDE DEF f
    <2> QED
      BY <1>1, <1>2, <2>1, ImageSize
  <1>4. \A e \in kept : Stamp(e, k) \in Entries
    BY DEF Stamp, KeptInv, KeptTypeOK, Entries
  <1>5. S \in SUBSET Entries
    BY <1>1, <1>4
  <1>6. Alive(S) \in SUBSET S
    BY DEF Alive
  <1>7. IsFiniteSet(Alive(S)) /\ Cardinality(Alive(S)) <= Cardinality(S)
    BY <1>3, <1>6, FS_Subset
  <1>8. Cardinality(Alive(S)) <= MaxKept
    <2>1. /\ Cardinality(Alive(S)) \in Nat /\ Cardinality(S) \in Nat /\ Cardinality(kept) \in Nat
          /\ MaxKept \in Nat
      BY <1>2, <1>3, <1>7, FS_CardinalityType, KeptAssumption
    <2> QED
      BY <1>2, <1>3, <1>7, <2>1
  <1>9. ASSUME NEW g \in Alive(S) PROVE \E e \in kept : g = Stamp(e, k) /\ Stays(e)
    <2>1. PICK e \in kept : g = Stamp(e, k)
      BY <1>1, <1>6, <1>9
    <2>2. e.hiddenAt # Showing => g = e
      BY <2>1 DEF Stamp
    <2>3. Stays(e)
      BY <1>9, <2>2 DEF Alive, Stays
    <2> QED
      BY <2>1, <2>3
  <1>10. ASSUME NEW e \in kept, e.key = k, Stays(e) PROVE e \in Alive(S)
    BY <1>1, <1>10 DEF Alive, Stays, Stamp
  <1> QED
    BY <1>5, <1>6, <1>7, <1>8, <1>9, <1>10

\* A stamped page is behind, unless it is the one that is asked for.
LEMMA StampIsBehind ==
  ASSUME KeptInv, NEW k, NEW e \in kept, e.key # k PROVE Behind(Stamp(e, k), k)
  <1>1. e \in Entries /\ time \in Nat
    BY DEF KeptInv, KeptTypeOK
  <1>2. CASE e.hiddenAt = Showing
    <2> DEFINE g == [e EXCEPT !.hiddenAt = time]
    <2>1. Stamp(e, k) = g
      BY <1>2 DEF Stamp
    <2>2. g.id = e.id /\ g.key = e.key /\ g.loc = e.loc /\ g.hiddenAt = time
      BY <1>1 DEF Entries
    <2>3. time # Showing
      BY <1>1 DEF Showing
    <2> HIDE DEF g
    <2> QED
      BY <1>2, <2>1, <2>2, <2>3 DEF Behind
  <1>3. CASE e.hiddenAt # Showing
    BY <1>3 DEF Stamp, Behind
  <1> QED
    BY <1>2, <1>3

LEMMA EnteredPages ==
  ASSUME KeptInv, NEW p \in Places
  PROVE  LET k == KeyOf(p)
             E == Entered(Alive(Stamped(k)), k, p)
         IN /\ E \in SUBSET Entries /\ IsFiniteSet(E) /\ Cardinality(E) <= MaxKept + 1
            /\ \A g \in E : Behind(g, k) \/ ShownAt(g, p)
            /\ k # NoKey => \E g \in E : ShownAt(g, p)
            /\ k = NoKey => \A g \in E : Behind(g, k)
  <1> DEFINE k == KeyOf(p)
             A == Alive(Stamped(k))
             E == Entered(A, k, p)
  <1>1. /\ A \in SUBSET Entries /\ IsFiniteSet(A) /\ Cardinality(A) <= MaxKept
        /\ \A g \in A : \E e \in kept : g = Stamp(e, k) /\ Stays(e)
        /\ \A e \in kept : e.key = k /\ Stays(e) => e \in A
    BY StampedPages
  <1>2. Cardinality(A) \in Nat /\ MaxKept \in Nat
    BY <1>1, FS_CardinalityType, KeptAssumption
  <1>3. \A e \in kept : e \in Entries /\ e.key # NoKey
    BY DEF KeptInv, KeptTypeOK, Entries, Keys
  <1>4. ASSUME NEW g \in A, g.key # k PROVE Behind(g, k)
    <2>1. PICK e \in kept : g = Stamp(e, k)
      BY <1>1
    <2>2. g.key = e.key
      BY <1>3, <2>1 DEF Stamp, Entries
    <2> QED
      BY <1>4, <2>1, <2>2, StampIsBehind
  <1>5. ASSUME NEW g \in A, g.key = k PROVE g \in kept /\ Stays(g)
    <2>1. PICK e \in kept : g = Stamp(e, k) /\ Stays(e)
      BY <1>1
    <2>2. g.key = e.key
      BY <1>3, <2>1 DEF Stamp, Entries
    <2> QED
      BY <1>5, <2>1, <2>2 DEF Stamp
  <1> HIDE DEF A
  <1>6. CASE k = NoKey
    <2>1. E = A
      BY <1>6 DEF Entered
    <2>2. \A g \in A : g.key # k
      BY <1>3, <1>5, <1>6
    <2> QED
      BY <1>1, <1>2, <1>4, <1>6, <2>1, <2>2 DEF A
  <1>7. CASE k # NoKey /\ \E e \in A : e.key = k
    <2> DEFINE f == [e \in A |-> IF e.key = k THEN [e EXCEPT !.loc = p, !.hiddenAt = Showing] ELSE e]
    <2>1. E = {f[e] : e \in A}
      BY <1>7 DEF Entered
    <2>2. IsFiniteSet(E) /\ Cardinality(E) <= Cardinality(A)
      <3>1. f = [e \in A |-> f[e]]
        OBVIOUS
      <3> HIDE DEF f
      <3> QED
        BY <1>1, <2>1, <3>1, ImageSize
    <2>3. Cardinality(E) <= MaxKept + 1
      <3>1. Cardinality(E) \in Nat
        BY <2>2, FS_CardinalityType
      <3> QED
        BY <1>1, <1>2, <2>2, <3>1
    <2>4. ASSUME NEW e \in A, e.key = k PROVE f[e] \in Entries /\ ShownAt(f[e], p)
      <3>1. e \in Entries /\ e \in kept /\ Stays(e)
        BY <1>1, <1>5, <2>4
      <3>2. f[e] = [e EXCEPT !.loc = p, !.hiddenAt = Showing]
        BY <2>4
      <3> HIDE DEF f
      <3>3. f[e] = [id |-> e.id, key |-> e.key, loc |-> p, hiddenAt |-> Showing]
        BY <3>1, <3>2 DEF Entries
      <3>4. f[e] \in Entries
        BY <3>1, <3>3 DEF Entries, Showing
      <3> QED
        BY <2>4, <3>1, <3>3, <3>4 DEF ShownAt
    <2>5. ASSUME NEW e \in A, e.key # k PROVE f[e] \in Entries /\ Behind(f[e], k)
      BY <1>1, <1>4, <2>5
    <2> HIDE DEF f
    <2>6. E \in SUBSET Entries /\ \A g \in E : Behind(g, k) \/ ShownAt(g, p)
      BY <2>1, <2>4, <2>5
    <2>7. \E g \in E : ShownAt(g, p)
      BY <1>7, <2>1, <2>4
    <2> QED
      BY <1>7, <2>2, <2>3, <2>6, <2>7 DEF A
  <1>8. CASE k # NoKey /\ \A e \in A : e.key # k
    <2> DEFINE new == [id |-> made, key |-> k, loc |-> p, hiddenAt |-> Showing]
    <2>1. E = A \cup {new}
      BY <1>8 DEF Entered
    <2>2. IsFiniteSet(E) /\ Cardinality(E) <= MaxKept + 1
      <3>1. /\ IsFiniteSet(E)
            /\ Cardinality(E) = IF new \in A THEN Cardinality(A) ELSE Cardinality(A) + 1
        BY <1>1, <2>1, FS_AddElement
      <3> HIDE DEF new
      <3> QED
        BY <1>1, <1>2, <3>1
    <2>3. new \in Entries
      BY <1>8 DEF Entries, Keys, Showing, KeptInv, KeptTypeOK
    <2>4. \A e \in kept : e.key = k => ~Stays(e)
      BY <1>1, <1>8
    <2>5. ShownAt(new, p)
      BY <2>4 DEF ShownAt
    <2> HIDE DEF new
    <2> QED
      BY <1>1, <1>4, <1>8, <2>1, <2>2, <2>3, <2>5 DEF A
  <1> QED
    BY <1>6, <1>7, <1>8

\* Pages keep their numbers and their keys apart.
LEMMA PagesApart ==
  ASSUME KeptInv, NEW p \in Places, NEW E \in SUBSET Entries,
         \A g \in E : Behind(g, KeyOf(p)) \/ ShownAt(g, p)
  PROVE  /\ \A g, h \in E : g.id = h.id => g = h
         /\ \A g, h \in E : g.key = h.key => g = h
  <1> DEFINE k == KeyOf(p)
  <1>1. \A e, f \in kept : (e.id = f.id \/ e.key = f.key) => e = f
    BY DEF KeptInv, NumberedPages, Apart, KeptAsLeft, OnDisplay
  <1>2. \A e \in kept : e.id # made
    BY DEF KeptInv, NumberedPages, KeptTypeOK, Entries
  <1>3. \A g, h \in E : g.id = h.id /\ g.key = h.key /\ g.loc = h.loc /\ g.hiddenAt = h.hiddenAt => g = h
    BY DEF Entries
  <1>4. ASSUME NEW g \in E, NEW h \in E, Behind(g, k), Behind(h, k), g.id = h.id \/ g.key = h.key
        PROVE  g = h
    <2>1. PICK e \in kept : /\ g.id = e.id /\ g.key = e.key /\ g.loc = e.loc
                            /\ g.hiddenAt = IF e.hiddenAt = Showing THEN time ELSE e.hiddenAt
      BY <1>4 DEF Behind
    <2>2. PICK f \in kept : /\ h.id = f.id /\ h.key = f.key /\ h.loc = f.loc
                            /\ h.hiddenAt = IF f.hiddenAt = Showing THEN time ELSE f.hiddenAt
      BY <1>4 DEF Behind
    <2>3. e = f
      BY <1>1, <1>4, <2>1, <2>2
    <2> QED
      BY <1>3, <2>1, <2>2, <2>3
  <1>5. ASSUME NEW g \in E, NEW h \in E, ShownAt(g, p), ShownAt(h, p) PROVE g = h
    <2>1. g.key = k /\ h.key = k /\ g.loc = h.loc /\ g.hiddenAt = h.hiddenAt
      BY <1>5 DEF ShownAt
    <2>2. g.id = h.id
      BY <1>1, <1>5, <2>1 DEF ShownAt
    <2> QED
      BY <1>3, <2>1, <2>2
  <1>6. ASSUME NEW g \in E, NEW h \in E, Behind(g, k), ShownAt(h, p) PROVE g.key # h.key /\ g.id # h.id
    <2>1. g.key # k /\ h.key = k
      BY <1>6 DEF Behind, ShownAt
    <2>2. PICK e \in kept : g.id = e.id /\ g.key = e.key
      BY <1>6 DEF Behind
    <2>3. g.id # h.id
      BY <1>1, <1>2, <1>6, <2>1, <2>2 DEF ShownAt
    <2> QED
      BY <2>1, <2>3
  <1> QED
    BY <1>4, <1>5, <1>6

LEMMA NextPages ==
  ASSUME KeptInv, NEW p \in Places
  PROVE  /\ NextKept(p) \in SUBSET Entries /\ IsFiniteSet(NextKept(p))
         /\ Cardinality(NextKept(p)) <= MaxKept
         /\ \A g \in NextKept(p) : Behind(g, KeyOf(p)) \/ ShownAt(g, p)
         /\ KeyOf(p) # NoKey => \E g \in NextKept(p) : ShownAt(g, p)
         /\ KeyOf(p) = NoKey => \A g \in NextKept(p) : Behind(g, KeyOf(p))
         /\ \A g, h \in NextKept(p) : g.id = h.id \/ g.key = h.key => g = h
  <1> DEFINE k == KeyOf(p)
             E == Entered(Alive(Stamped(k)), k, p)
             N == NextKept(p)
  <1>1. /\ E \in SUBSET Entries /\ IsFiniteSet(E) /\ Cardinality(E) <= MaxKept + 1
        /\ \A g \in E : Behind(g, k) \/ ShownAt(g, p)
        /\ k # NoKey => \E g \in E : ShownAt(g, p)
        /\ k = NoKey => \A g \in E : Behind(g, k)
    BY EnteredPages
  <1>0. N = Trimmed(E)
    BY DEF NextKept
  <1> HIDE DEF E, N
  <1>2. \A g, h \in E : g.id = h.id \/ g.key = h.key => g = h
    BY <1>1, PagesApart
  <1>3. \A g \in E : ShownAt(g, p) => g \notin Hidden(E)
    BY DEF ShownAt, Hidden
  <1>4. Cardinality(E) \in Nat /\ MaxKept \in Nat \ {0}
    BY <1>1, FS_CardinalityType, KeptAssumption
  <1>5. CASE Cardinality(E) > MaxKept /\ Hidden(E) # {}
    <2>1. \A g \in Hidden(E) : g.hiddenAt \in Nat
      BY <1>1, <1>3 DEF Behind, KeptInv, HiddenSince, KeptTypeOK, Hidden
    <2>2. PICK h \in Hidden(E) : Oldest(E) = h.id
      BY <1>1, <1>5, <2>1, OldestIsHidden
    <2>3. N = {e \in E : e.id # h.id}
      BY <1>0, <1>5, <2>2 DEF Trimmed
    <2>4. h \in E /\ N = E \ {h}
      BY <1>2, <2>3 DEF Hidden
    <2>5. IsFiniteSet(N) /\ Cardinality(N) = Cardinality(E) - 1
      BY <1>1, <2>4, FS_RemoveElement
    <2>6. Cardinality(N) <= MaxKept
      BY <1>1, <1>4, <2>5
    <2>7. \A g \in E : ShownAt(g, p) => g \in N
      BY <1>3, <2>4
    <2> QED
      BY <1>1, <1>2, <2>4, <2>5, <2>6, <2>7 DEF N
  <1>6. CASE ~(Cardinality(E) > MaxKept /\ Hidden(E) # {})
    <2>1. N = E
      BY <1>0, <1>6 DEF Trimmed
    <2>2. Cardinality(E) <= MaxKept
      <3>1. CASE Hidden(E) = {}
        <4>1. \A g \in E : ShownAt(g, p)
          BY <1>1, <3>1 DEF Hidden, Behind
        <4>2. \A g, h \in E : g = h
          BY <1>2, <4>1 DEF ShownAt
        <4>3. Cardinality(E) <= 1
          BY <4>2, AtMostOne
        <4> QED
          BY <1>4, <4>3
      <3> QED
        BY <1>4, <1>6, <3>1
    <2> QED
      BY <1>1, <1>2, <2>1, <2>2 DEF N
  <1> QED
    BY <1>5, <1>6

\* The page on display, if there is one.
LEMMA DisplayedPage ==
  ASSUME NEW es \in SUBSET Entries, NEW g \in es, g.hiddenAt = Showing,
         \A h \in es : h.hiddenAt = Showing => h = g
  PROVE  Displayed(es) = g.id /\ g.id # NoPage
  <1>1. (CHOOSE e \in es : e.hiddenAt = Showing) = g
    OBVIOUS
  <1> QED
    BY <1>1 DEF Displayed, Entries, NoPage

LEMMA NavigateDisplays ==
  ASSUME KeptInv, NEW p \in Places, NEW reset \in BOOLEAN, Navigate(p, reset)
  PROVE  /\ \A e \in kept' : (e.hiddenAt = Showing <=> e.key = KeyOf(p)) /\ e.id \in Nat \ {0}
         /\ \A e \in kept' : e.hiddenAt = Showing => Displayed(kept') = e.id
         /\ KeyOf(p) = NoKey <=> Displayed(kept') = NoPage
         /\ \A e, f \in kept' : e.id = f.id \/ e.key = f.key => e = f
         /\ tracked' = Displayed(kept') /\ Cardinality(kept') <= MaxKept
  <1> DEFINE N == NextKept(p)
  <1>1. /\ N \in SUBSET Entries /\ Cardinality(N) <= MaxKept
        /\ \A g \in N : Behind(g, KeyOf(p)) \/ ShownAt(g, p)
        /\ KeyOf(p) # NoKey => \E g \in N : ShownAt(g, p)
        /\ KeyOf(p) = NoKey => \A g \in N : Behind(g, KeyOf(p))
        /\ \A g, h \in N : g.id = h.id \/ g.key = h.key => g = h
    BY NextPages
  <1>2. kept' = N
    BY DEF Navigate
  <1> HIDE DEF N
  <1>3. \A e \in N : e.hiddenAt = Showing <=> e.key = KeyOf(p)
    BY <1>1 DEF Behind, ShownAt
  <1>4. \A e \in N : e.hiddenAt = Showing => Displayed(N) = e.id /\ e.id # NoPage
    <2> SUFFICES ASSUME NEW e \in N, e.hiddenAt = Showing
                 PROVE  Displayed(N) = e.id /\ e.id # NoPage
      OBVIOUS
    <2>1. \A h \in N : h.hiddenAt = Showing => h = e
      BY <1>1, <1>3
    <2> QED
      BY <1>1, <2>1, DisplayedPage
  <1>5. KeyOf(p) = NoKey <=> Displayed(N) = NoPage
    <2>1. CASE KeyOf(p) = NoKey
      <3>1. \A e \in N : e.hiddenAt # Showing
        BY <1>1, <2>1 DEF Behind
      <3> QED
        BY <2>1, <3>1 DEF Displayed
    <2>2. CASE KeyOf(p) # NoKey
      <3>1. PICK g \in N : g.hiddenAt = Showing
        BY <1>1, <2>2 DEF ShownAt
      <3> QED
        BY <1>4, <2>2, <3>1
    <2> QED
      BY <2>1, <2>2
  <1>6. tracked' = Displayed(N)
    BY <1>2 DEF Navigate, Scrolls, Resumes, N
  <1>7. \A e \in N : e.id \in Nat \ {0}
    BY <1>1 DEF Entries
  <1> QED
    BY <1>1, <1>2, <1>3, <1>4, <1>5, <1>6, <1>7

LEMMA NavigateType ==
  ASSUME KeptInv, NEW p \in Places, NEW reset \in BOOLEAN, Navigate(p, reset)
  PROVE  KeptTypeOK' /\ NumberedPages' /\ HiddenSince' /\ UrlsInSection'
  <1> DEFINE N == NextKept(p)
  <1>1. /\ N \in SUBSET Entries /\ IsFiniteSet(N)
        /\ \A g \in N : Behind(g, KeyOf(p)) \/ ShownAt(g, p)
        /\ \A g, h \in N : g.id = h.id \/ g.key = h.key => g = h
    BY NextPages
  <1>2. /\ kept' = N /\ here' = p
        /\ made' = IF made \in Ids(N) THEN made + 1 ELSE made
        /\ UNCHANGED <<moved, time>>
    BY DEF Navigate
  <1>3. DOMAIN left' = Ids(N)
    BY DEF Navigate, Leaves
  <1>4. Ids(N) \subseteq DOMAIN offsets'
    <2>1. \A g \in N : g.id \in DOMAIN offsets \/ g.id = Displayed(N)
      <3> SUFFICES ASSUME NEW g \in N PROVE g.id \in DOMAIN offsets \/ g.id = Displayed(N)
        OBVIOUS
      <3>1. CASE g.hiddenAt = Showing
        BY <1>2, <3>1, NavigateDisplays
      <3>2. CASE g.hiddenAt # Showing
        <4>1. \E e \in kept : g.id = e.id
          BY <1>1, <3>2 DEF Behind, ShownAt
        <4> QED
          BY <4>1 DEF KeptInv, KeptTypeOK, Ids
      <3> QED
        BY <3>1, <3>2
    <2>2. \A g \in N : g.id # NoPage
      BY <1>1 DEF Entries, NoPage
    <2>3. CASE Resumes(Displayed(N), reset)
      <3>1. DOMAIN offsets' = DOMAIN offsets \cap Ids(N)
        BY <2>3 DEF Navigate, Scrolls
      <3>2. Displayed(N) \in Ids(N) => Displayed(N) \in DOMAIN offsets
        <4>1. tracked = Displayed(kept) /\ tracked = Displayed(N) /\ tracked # NoPage
          BY <2>3 DEF Resumes, KeptInv, KeptAsLeft, OnDisplay
        <4>2. \E e \in kept : e.hiddenAt = Showing
          BY <4>1 DEF Displayed
        <4>3. tracked \in Ids(kept)
          BY <4>1, <4>2 DEF Displayed, Ids
        <4> QED
          BY <4>1, <4>3 DEF KeptInv, KeptTypeOK
      <3> QED
        BY <2>1, <3>1, <3>2 DEF Ids
    <2>4. CASE ~Resumes(Displayed(N), reset)
      <3>1. DOMAIN offsets' = (DOMAIN offsets \cap Ids(N)) \cup ({Displayed(N)} \ {NoPage})
        BY <2>4 DEF Navigate, Scrolls
      <3> QED
        BY <2>1, <2>2, <3>1 DEF Ids
    <2> QED
      BY <2>3, <2>4
  <1>5. urls' \in [Sections -> Places \cup {NoPlace}] /\ UrlsInSection'
    <2>1. SectionAt[p] # NoSection => SectionAt[p] \in Sections
      BY KeptAssumption
    <2>2. urls' = IF SectionAt[p] = NoSection THEN urls ELSE [urls EXCEPT ![SectionAt[p]] = p]
      BY DEF Navigate
    <2> QED
      BY <2>1, <2>2 DEF UrlsInSection, KeptInv, KeptTypeOK
  <1> HIDE DEF N
  <1>6. \A g \in N : g.id < made \/ g.id = made
    <2>1. \A g \in N : (\E e \in kept : g.id = e.id) \/ g.id = made
      BY <1>1 DEF Behind, ShownAt
    <2> QED
      BY <2>1 DEF KeptInv, NumberedPages
  <1>7. made' \in Nat \ {0} /\ \A g \in N : g.id < made'
    <2>1. made \in Nat \ {0} /\ \A g \in N : g.id \in Nat
      BY <1>1 DEF Entries, KeptInv, KeptTypeOK
    <2>2. CASE made \in Ids(N)
      BY <1>2, <1>6, <2>1, <2>2
    <2>3. CASE made \notin Ids(N)
      BY <1>2, <1>6, <2>1, <2>3 DEF Ids
    <2> QED
      BY <2>2, <2>3
  <1>8. KeptTypeOK'
    <2>1. moved \in BOOLEAN /\ time \in Nat
      BY DEF KeptInv, KeptTypeOK
    <2> QED
      BY <1>1, <1>2, <1>3, <1>4, <1>5, <1>7, <2>1 DEF KeptTypeOK, Ids
  <1>9. NumberedPages'
    BY <1>1, <1>2, <1>7 DEF NumberedPages, Apart
  <1>10. HiddenSince'
    <2>1. \A e \in kept : e.hiddenAt = Showing \/ e.hiddenAt \in 0 .. time
      BY DEF KeptInv, HiddenSince
    <2>2. time \in 0 .. time
      BY DEF KeptInv, KeptTypeOK
    <2>3. \A g \in N : g.hiddenAt = Showing \/ g.hiddenAt \in 0 .. time
      BY <1>1, <2>1, <2>2 DEF Behind, ShownAt
    <2> QED
      BY <1>2, <2>3 DEF HiddenSince
  <1> QED
    BY <1>5, <1>8, <1>9, <1>10

\* The data of what is shown were not collected behind it.
LEMMA NavigateData ==
  ASSUME KeptInv, NEW p \in Places, NEW reset \in BOOLEAN, Navigate(p, reset)
  PROVE  DataLast' /\ \A e \in kept' : e.hiddenAt = Showing => e.id \in data'
  <1> DEFINE N == NextKept(p)
  <1>1. \A g \in N : Behind(g, KeyOf(p)) \/ ShownAt(g, p)
    BY NextPages
  <1>2. kept' = N /\ data' = (data \cap Ids(N)) \cup (Ids(N) \ Ids(kept)) /\ time' = time
    BY DEF Navigate
  <1> HIDE DEF N
  <1>3. \A e \in kept : e.hiddenAt = Showing => e.id \in data
    BY DEF KeptInv, KeptAsLeft, ReturnsAsLeft, Hidden
  <1>4. \A e \in kept : e.id \in data \/ (e.hiddenAt # Showing /\ time - e.hiddenAt >= GcTime)
    BY <1>3 DEF KeptInv, DataLast, Hidden
  <1>5. ASSUME NEW g \in N, g.hiddenAt = Showing PROVE g.id \in data'
    <2>1. ShownAt(g, p)
      BY <1>1, <1>5 DEF Behind
    <2>2. g.id \in Ids(N)
      BY DEF Ids
    <2>3. ASSUME NEW e \in kept, e.id = g.id, Stays(e) PROVE g.id \in data
      <3>1. time \in Nat /\ e.hiddenAt \in Int
        BY DEF KeptInv, KeptTypeOK, Entries
      <3>2. IdleTtl \in Nat /\ GcTime \in Nat /\ IdleTtl < GcTime
        BY KeptAssumption
      <3> QED
        BY <1>3, <1>4, <2>3, <3>1, <3>2 DEF Stays
    <2>4. CASE g.id = made
      <3>1. made \notin Ids(kept)
        BY DEF KeptInv, NumberedPages, KeptTypeOK, Entries, Ids
      <3> QED
        BY <1>2, <2>2, <2>4, <3>1
    <2> QED
      BY <1>2, <2>1, <2>2, <2>3, <2>4 DEF ShownAt
  <1>6. ASSUME NEW g \in N, g.hiddenAt # Showing PROVE g.id \in data' \/ time - g.hiddenAt >= GcTime
    <2>1. PICK e \in kept : g.id = e.id /\ g.hiddenAt = IF e.hiddenAt = Showing THEN time ELSE e.hiddenAt
      BY <1>1, <1>6 DEF Behind, ShownAt
    <2>2. g.id \in Ids(N)
      BY DEF Ids
    <2> QED
      BY <1>2, <1>3, <1>4, <2>1, <2>2
  <1> QED
    BY <1>2, <1>5, <1>6 DEF DataLast, Hidden

LEMMA NavigateOffsets ==
  ASSUME KeptInv, NEW p \in Places, NEW reset \in BOOLEAN, Navigate(p, reset)
  PROVE  /\ \A e \in kept' : e.hiddenAt = Showing => moved' \/ top' = offsets'[e.id]
         /\ \A e \in kept' : e.hiddenAt # Showing => left'[e.id] \in {Unsure, offsets'[e.id]}
  <1> DEFINE N == NextKept(p)
             a == Displayed(N)
  <1>1. \A g \in N : Behind(g, KeyOf(p)) \/ ShownAt(g, p)
    BY NextPages
  <1>2. kept' = N /\ moved' = moved
    BY DEF Navigate
  <1>3. /\ \A e \in N : e.id \in Nat \ {0} /\ (e.hiddenAt = Showing => a = e.id)
        /\ \A e, f \in N : e.id = f.id => e = f
        /\ a = NoPage <=> KeyOf(p) = NoKey
        /\ \A e \in N : e.hiddenAt = Showing <=> e.key = KeyOf(p)
    BY <1>2, NavigateDisplays
  <1>4. Scrolls(a, Ids(N), reset) /\ Leaves(Ids(N), a)
    BY DEF Navigate
  <1>5. \A e \in kept : e.hiddenAt = Showing <=> e.id = tracked
    <2>1. \A e \in kept : e.hiddenAt = Showing => e.id = tracked
      <3>1. \A e, f \in kept : e.hiddenAt = Showing /\ f.hiddenAt = Showing => e = f
        BY DEF KeptInv, KeptAsLeft, OnDisplay
      <3>2. kept \in SUBSET Entries /\ tracked = Displayed(kept)
        BY DEF KeptInv, KeptTypeOK, KeptAsLeft, OnDisplay
      <3> QED
        BY <3>1, <3>2, DisplayedPage
    <2>2. ASSUME NEW e \in kept, e.id = tracked PROVE e.hiddenAt = Showing
      <3>1. tracked = Displayed(kept) /\ e.id # NoPage
        BY DEF KeptInv, KeptTypeOK, KeptAsLeft, OnDisplay, Entries, NoPage
      <3>2. PICK f \in kept : f.hiddenAt = Showing
        BY <2>2, <3>1 DEF Displayed
      <3>3. e = f
        BY <2>1, <2>2, <3>2 DEF KeptInv, NumberedPages, Apart
      <3> QED
        BY <3>2, <3>3
    <2> QED
      BY <2>1, <2>2
  <1>6. \A e \in kept : /\ e.id \in DOMAIN left /\ e.id \in DOMAIN offsets
                        /\ e.id = tracked => moved \/ top = offsets[e.id]
                        /\ e.id # tracked => left[e.id] \in {Unsure, offsets[e.id]}
    BY <1>5 DEF KeptInv, KeptTypeOK, KeptAsLeft, ReturnsAsLeft, Hidden, Ids
  <1> HIDE DEF N, a
  <1>7. \A e \in N : e.hiddenAt # Showing => e.id # a /\ \E f \in kept : f.id = e.id
    <2> SUFFICES ASSUME NEW e \in N, e.hiddenAt # Showing
                 PROVE  e.id # a /\ \E f \in kept : f.id = e.id
      OBVIOUS
    <2>1. Behind(e, KeyOf(p))
      BY <1>1 DEF ShownAt
    <2>2. e.id # a
      <3>1. CASE KeyOf(p) = NoKey
        BY <1>3, <3>1 DEF NoPage
      <3>2. CASE KeyOf(p) # NoKey
        <4>1. PICK g \in N : ShownAt(g, p)
          BY <3>2, NextPages DEF N
        <4>2. g.id = a /\ g # e
          BY <1>3, <4>1 DEF ShownAt
        <4> QED
          BY <1>3, <4>2
      <3> QED
        BY <3>1, <3>2
    <2> QED
      BY <2>1, <2>2 DEF Behind
  <1>8. CASE Resumes(a, reset)
    <2>1. /\ offsets' = [i \in DOMAIN offsets \cap Ids(N) |-> offsets[i]]
          /\ top' = top /\ tracked = a /\ a # NoPage
      BY <1>4, <1>8 DEF Scrolls, Resumes
    <2>2. \E f \in kept : f.id = a
      <3>1. tracked = Displayed(kept)
        BY DEF KeptInv, KeptAsLeft, OnDisplay
      <3> QED
        BY <2>1, <3>1 DEF Displayed
    <2>3. ASSUME NEW e \in N, e.hiddenAt = Showing PROVE moved' \/ top' = offsets'[e.id]
      <3>1. e.id = a /\ e.id \in DOMAIN offsets /\ e.id \in Ids(N)
        BY <1>3, <1>6, <2>2, <2>3 DEF Ids
      <3> QED
        BY <1>2, <1>6, <2>1, <2>2, <3>1
    <2>4. ASSUME NEW e \in N, e.hiddenAt # Showing PROVE left'[e.id] \in {Unsure, offsets'[e.id]}
      <3>1. e.id # a /\ e.id \in Ids(N) /\ e.id \in DOMAIN offsets
        BY <1>6, <1>7, <2>4 DEF Ids
      <3>2. offsets'[e.id] = offsets[e.id]
        BY <2>1, <3>1
      <3>3. left'[e.id] = left[e.id]
        BY <1>4, <1>6, <1>7, <2>1, <2>4, <3>1 DEF Leaves
      <3> QED
        BY <1>6, <1>7, <2>1, <2>4, <3>1, <3>2, <3>3
    <2> QED
      BY <1>2, <2>3, <2>4
  <1>9. CASE ~Resumes(a, reset)
    <2>1. /\ top' = Placed(a, reset)
          /\ offsets' = [i \in (DOMAIN offsets \cap Ids(N)) \cup ({a} \ {NoPage}) |->
                           IF i = a THEN Placed(a, reset) ELSE offsets[i]]
      BY <1>4, <1>9 DEF Scrolls
    <2>2. ASSUME NEW e \in N, e.hiddenAt = Showing PROVE top' = offsets'[e.id]
      <3>1. e.id = a /\ a # NoPage
        BY <1>3, <2>2 DEF NoPage
      <3> QED
        BY <2>1, <3>1
    <2>3. ASSUME NEW e \in N, e.hiddenAt # Showing PROVE left'[e.id] \in {Unsure, offsets'[e.id]}
      <3>1. e.id # a /\ e.id \in Ids(N) /\ e.id \in DOMAIN offsets
        BY <1>6, <1>7, <2>3 DEF Ids
      <3>2. offsets'[e.id] = offsets[e.id]
        BY <2>1, <3>1
      <3>3. CASE e.id = tracked
        <4>1. left'[e.id] = IF moved THEN Unsure ELSE top
          BY <1>4, <3>1, <3>3 DEF Leaves
        <4> QED
          BY <1>6, <1>7, <2>3, <3>2, <3>3, <4>1
      <3>4. CASE e.id # tracked
        <4>1. left'[e.id] = left[e.id]
          BY <1>4, <1>6, <1>7, <2>3, <3>1, <3>4 DEF Leaves
        <4> QED
          BY <1>6, <1>7, <2>3, <3>2, <3>4, <4>1
      <3> QED
        BY <3>3, <3>4
    <2> QED
      BY <1>2, <2>2, <2>3
  <1> QED
    BY <1>8, <1>9

LEMMA NavigateKeeps ==
  ASSUME KeptInv, NEW p \in Places, NEW reset \in BOOLEAN, Navigate(p, reset) PROVE KeptInv'
  <1>1. KeptTypeOK' /\ NumberedPages' /\ HiddenSince' /\ UrlsInSection' /\ DataLast'
    BY NavigateType, NavigateData
  <1>2. /\ \A e \in kept' : e.hiddenAt = Showing <=> e.key = KeyOf(p)
        /\ KeyOf(p) = NoKey <=> Displayed(kept') = NoPage
        /\ \A e, f \in kept' : e.key = f.key => e = f
        /\ tracked' = Displayed(kept') /\ Cardinality(kept') <= MaxKept
    BY NavigateDisplays
  <1>3. here' = p
    BY DEF Navigate
  <1>4. OnDisplay'
    BY <1>2, <1>3 DEF OnDisplay
  <1>5. \A e \in kept' \ Hidden(kept') : e.id \in data' /\ (moved' \/ top' = offsets'[e.id])
    BY NavigateData, NavigateOffsets DEF Hidden
  <1>6. \A e \in Hidden(kept') : left'[e.id] \in {Unsure, offsets'[e.id]}
    BY NavigateOffsets DEF Hidden
  <1>7. ASSUME NEW s \in Sections, NEW e \in kept', urls'[s] # NoPlace, e.key = KeyOf(urls'[s])
        PROVE  e.loc = urls'[s]
    <2>1. /\ kept' = NextKept(p)
          /\ urls' = IF SectionAt[p] = NoSection THEN urls ELSE [urls EXCEPT ![SectionAt[p]] = p]
      BY DEF Navigate
    <2>2. /\ urls' \in [Sections -> Places \cup {NoPlace}] /\ SectionAt[urls'[s]] = s
          /\ urls \in [Sections -> Places \cup {NoPlace}]
      BY <1>1, <1>7 DEF KeptTypeOK, UrlsInSection, KeptInv
    <2>3. urls'[s] \in Places /\ e.key # NoKey
      BY <1>1, <1>7, <2>2 DEF KeptTypeOK, Entries, Keys
    <2>4. CASE e.key = KeyOf(p)
      <3>1. SectionAt[p] = s
        BY <1>7, <2>2, <2>3, <2>4, KeysTellSections
      <3>2. urls'[s] = p
        <4>1. SectionAt[p] # NoSection
          BY <3>1, KeptAssumption
        <4> QED
          BY <2>1, <2>2, <3>1, <4>1
      <3>3. e.loc = p
        BY <2>1, <2>4, NextPages DEF Behind, ShownAt
      <3> QED
        BY <3>2, <3>3
    <2>5. CASE e.key # KeyOf(p)
      <3>1. PICK f \in kept : e.key = f.key /\ e.loc = f.loc
        BY <2>1, <2>5, NextPages DEF Behind, ShownAt
      <3>2. urls'[s] = urls[s]
        BY <1>7, <2>1, <2>2, <2>5
      <3> QED
        BY <1>7, <3>1, <3>2 DEF KeptInv, KeptAsLeft, ReturnsAsLeft
    <2> QED
      BY <2>4, <2>5
  <1>8. ReturnsAsLeft'
    BY <1>5, <1>6, <1>7 DEF ReturnsAsLeft
  <1> QED
    BY <1>1, <1>4, <1>8 DEF KeptInv, KeptAsLeft

\* The one page of an outlet that has just been mounted.
LEMMA FirstPage ==
  ASSUME NEW p \in Places
  PROVE  /\ First(p) \in SUBSET Entries /\ IsFiniteSet(First(p)) /\ Cardinality(First(p)) <= MaxKept
         /\ \A e \in First(p) : /\ e.id = 1 /\ e.key = KeyOf(p) /\ e.loc = p /\ e.hiddenAt = Showing
                                /\ e.id \in Ids(First(p)) /\ Unmoved(p)[e.id] = 0
         /\ \A e, f \in First(p) : e = f
         /\ KeyOf(p) = NoKey <=> Displayed(First(p)) = NoPage
         /\ DOMAIN Unmoved(p) = Ids(First(p))
         /\ FirstUrls(p) \in [Sections -> Places \cup {NoPlace}]
         /\ \A s \in Sections : FirstUrls(p)[s] # NoPlace => FirstUrls(p)[s] = p /\ SectionAt[p] = s
  <1> DEFINE e == [id |-> 1, key |-> KeyOf(p), loc |-> p, hiddenAt |-> Showing]
  <1>1. First(p) = IF KeyOf(p) = NoKey THEN {} ELSE {e}
    BY DEF First
  <1>2. KeyOf(p) # NoKey => e \in Entries
    BY DEF Entries, Keys, Showing
  <1>3. /\ e.id = 1 /\ e.key = KeyOf(p) /\ e.loc = p /\ e.hiddenAt = Showing
    OBVIOUS
  <1> HIDE DEF e
  <1>4. IsFiniteSet(First(p)) /\ Cardinality(First(p)) <= MaxKept
    <2>1. IsFiniteSet(First(p)) /\ Cardinality(First(p)) \in {0, 1}
      BY <1>1, FS_EmptySet, FS_Singleton
    <2>2. MaxKept \in Nat \ {0}
      BY KeptAssumption
    <2> QED
      BY <2>1, <2>2
  <1>5. \A g \in First(p) : g = e
    BY <1>1
  <1>6. KeyOf(p) = NoKey <=> Displayed(First(p)) = NoPage
    <2>1. CASE KeyOf(p) = NoKey
      BY <1>1, <2>1 DEF Displayed
    <2>2. CASE KeyOf(p) # NoKey
      <3>1. First(p) \in SUBSET Entries /\ e \in First(p)
        BY <1>1, <1>2, <2>2
      <3> QED
        BY <1>3, <1>5, <2>2, <3>1, DisplayedPage
    <2> QED
      BY <2>1, <2>2
  <1>7. FirstUrls(p) \in [Sections -> Places \cup {NoPlace}]
    BY DEF FirstUrls
  <1>8. \A s \in Sections : FirstUrls(p)[s] # NoPlace => FirstUrls(p)[s] = p /\ SectionAt[p] = s
    BY DEF FirstUrls
  <1>9. Unmoved(p) = [i \in Ids(First(p)) |-> 0] /\ \A g \in First(p) : g.id \in Ids(First(p))
    BY DEF Unmoved, Ids
  <1>10. First(p) \in SUBSET Entries
    BY <1>1, <1>2
  <1> QED
    BY <1>3, <1>4, <1>5, <1>6, <1>7, <1>8, <1>9, <1>10

LEMMA KeptStart == KInit => KeptInv
  <1> SUFFICES ASSUME NEW p \in Places,
                      here = p, made = 2, kept = First(p), urls = FirstUrls(p),
                      tracked = Displayed(First(p)), top = 0, moved = FALSE,
                      offsets = Unmoved(p), left = Unmoved(p), data = Ids(First(p)), time = 0
               PROVE  KeptInv
    BY DEF KInit
  <1>1. Hidden(kept) = {}
    BY FirstPage DEF Hidden
  <1>2. KeptTypeOK
    <2>1. kept \subseteq Entries /\ IsFiniteSet(kept)
      BY FirstPage
    <2>2. DOMAIN left = Ids(kept) /\ Ids(kept) \subseteq DOMAIN offsets
      BY FirstPage
    <2>3. urls \in [Sections -> Places \cup {NoPlace}]
      BY FirstPage
    <2>4. here \in Places /\ made \in Nat \ {0} /\ time \in Nat
      OBVIOUS
    <2>5. moved \in BOOLEAN
      BY Zenon
    <2> QED
      BY <2>1, <2>2, <2>3, <2>4, <2>5, Zenon DEF KeptTypeOK
  <1>3. NumberedPages /\ HiddenSince /\ DataLast /\ UrlsInSection
    BY <1>1, FirstPage DEF NumberedPages, Apart, HiddenSince, DataLast, UrlsInSection
  <1>4. OnDisplay
    BY FirstPage DEF OnDisplay
  <1>5. ReturnsAsLeft
    BY <1>1, FirstPage DEF ReturnsAsLeft
  <1> QED
    BY <1>2, <1>3, <1>4, <1>5 DEF KeptInv, KeptAsLeft

LEMMA AccountKeepsPages == ASSUME KeptInv, NEW p \in Places, SwitchAccount(p) PROVE KeptInv'
  <1>0. /\ here' = p /\ made' = 2 /\ kept' = First(p) /\ urls' = FirstUrls(p)
        /\ tracked' = Displayed(First(p)) /\ top' = 0 /\ moved' = FALSE
        /\ offsets' = Unmoved(p) /\ left' = Unmoved(p) /\ data' = Ids(First(p))
        /\ time' = time /\ time \in Nat
    BY DEF SwitchAccount, KeptInv, KeptTypeOK
  <1>1. Hidden(kept') = {}
    BY <1>0, FirstPage DEF Hidden
  <1>2. KeptTypeOK'
    <2>1. kept' \subseteq Entries /\ IsFiniteSet(kept')
      BY <1>0, FirstPage
    <2>2. DOMAIN left' = Ids(kept') /\ Ids(kept') \subseteq DOMAIN offsets'
      BY <1>0, FirstPage
    <2>3. urls' \in [Sections -> Places \cup {NoPlace}]
      BY <1>0, FirstPage
    <2>4. here' \in Places /\ made' \in Nat \ {0} /\ time' \in Nat
      BY <1>0
    <2>5. moved' \in BOOLEAN
      BY <1>0, Zenon
    <2> QED
      BY <2>1, <2>2, <2>3, <2>4, <2>5, Zenon DEF KeptTypeOK, Ids
  <1>3. NumberedPages' /\ HiddenSince' /\ DataLast' /\ UrlsInSection'
    BY <1>0, <1>1, FirstPage DEF NumberedPages, Apart, HiddenSince, DataLast, UrlsInSection
  <1>4. OnDisplay'
    BY <1>0, FirstPage DEF OnDisplay
  <1>5. ReturnsAsLeft'
    BY <1>0, <1>1, FirstPage DEF ReturnsAsLeft
  <1> QED
    BY <1>2, <1>3, <1>4, <1>5 DEF KeptInv, KeptAsLeft

LEMMA ScrollToKeeps == ASSUME KeptInv, NEW x \in {0, 1}, ScrollTo(x) PROVE KeptInv'
  BY DEF ScrollTo, KeptInv, KeptTypeOK, NumberedPages, HiddenSince, DataLast, UrlsInSection,
         KeptAsLeft, OnDisplay, ReturnsAsLeft

\* The page on display is the tracked one, and no other.
LEMMA TrackedPage ==
  ASSUME KeptInv
  PROVE  /\ \A e \in kept : e.hiddenAt = Showing <=> e.id = tracked
         /\ tracked # NoPage => \E e \in kept : e.id = tracked
  <1>1. kept \in SUBSET Entries /\ tracked = Displayed(kept)
    BY DEF KeptInv, KeptTypeOK, KeptAsLeft, OnDisplay
  <1>2. \A e, f \in kept : e.hiddenAt = Showing /\ f.hiddenAt = Showing => e = f
    BY DEF KeptInv, KeptAsLeft, OnDisplay
  <1>3. \A e \in kept : e.hiddenAt = Showing => e.id = tracked
    BY <1>1, <1>2, DisplayedPage
  <1>4. ASSUME tracked # NoPage PROVE \E e \in kept : e.hiddenAt = Showing
    BY <1>1, <1>4 DEF Displayed
  <1>5. ASSUME NEW e \in kept, e.id = tracked PROVE e.hiddenAt = Showing
    <2>1. e.id # NoPage
      BY <1>1 DEF Entries, NoPage
    <2>2. PICK f \in kept : f.hiddenAt = Showing
      BY <1>4, <1>5, <2>1
    <2>3. e = f
      BY <1>3, <1>5, <2>2 DEF KeptInv, NumberedPages, Apart
    <2> QED
      BY <2>2, <2>3
  <1> QED
    BY <1>3, <1>4, <1>5

LEMMA ScrolledKeeps == ASSUME KeptInv, Scrolled PROVE KeptInv'
  <1>1. /\ moved' = FALSE
        /\ UNCHANGED <<kept, here, made, tracked, top, urls, data, left, time>>
        /\ offsets' = IF tracked = NoPage THEN offsets
                      ELSE [i \in DOMAIN offsets \cup {tracked} |-> IF i = tracked THEN top ELSE offsets[i]]
    BY DEF Scrolled
  <1>2. \A e \in kept : e.id \in DOMAIN offsets /\ e.id # NoPage
    BY DEF KeptInv, KeptTypeOK, Ids, Entries, NoPage
  <1>3. \A e \in kept : /\ e.id = tracked => offsets'[e.id] = top
                        /\ e.id # tracked => offsets'[e.id] = offsets[e.id]
    BY <1>1, <1>2
  <1>4. DOMAIN offsets \subseteq DOMAIN offsets'
    BY <1>1
  <1>5. KeptTypeOK'
    BY <1>1, <1>4 DEF KeptInv, KeptTypeOK
  <1>6. NumberedPages' /\ HiddenSince' /\ DataLast' /\ UrlsInSection' /\ OnDisplay'
    BY <1>1 DEF KeptInv, NumberedPages, HiddenSince, DataLast, UrlsInSection, KeptAsLeft, OnDisplay
  <1>7. ReturnsAsLeft'
    <2>1. ReturnsAsLeft
      BY DEF KeptInv, KeptAsLeft
    <2>2. \A e \in kept \ Hidden(kept) : e.id \in data /\ top = offsets'[e.id]
      BY <1>3, <2>1, TrackedPage DEF ReturnsAsLeft, Hidden
    <2>3. \A e \in Hidden(kept) : left[e.id] \in {Unsure, offsets'[e.id]}
      BY <1>3, <2>1, TrackedPage DEF ReturnsAsLeft, Hidden
    <2> QED
      BY <1>1, <2>1, <2>2, <2>3 DEF ReturnsAsLeft
  <1> QED
    BY <1>5, <1>6, <1>7 DEF KeptInv, KeptAsLeft

LEMMA CollectKeeps == ASSUME KeptInv, NEW e \in kept, Collect(e) PROVE KeptInv'
  <1>1. /\ data' = data \ {e.id} /\ e.hiddenAt # Showing /\ time - e.hiddenAt >= GcTime
        /\ UNCHANGED <<kept, here, made, offsets, tracked, top, moved, urls, left, time>>
    BY DEF Collect
  <1>2. \A f \in kept : f.id = e.id => f = e
    BY DEF KeptInv, NumberedPages, Apart
  <1>3. KeptTypeOK' /\ NumberedPages' /\ HiddenSince' /\ UrlsInSection' /\ OnDisplay'
    BY <1>1 DEF KeptInv, KeptTypeOK, NumberedPages, HiddenSince, UrlsInSection, KeptAsLeft, OnDisplay
  <1>4. DataLast'
    BY <1>1, <1>2 DEF KeptInv, DataLast, Hidden
  <1>5. ReturnsAsLeft'
    BY <1>1, <1>2 DEF KeptInv, KeptAsLeft, ReturnsAsLeft, Hidden
  <1> QED
    BY <1>3, <1>4, <1>5 DEF KeptInv, KeptAsLeft

LEMMA TickKeeps == ASSUME KeptInv, Tick PROVE KeptInv'
  <1>1. /\ time' = time + 1
        /\ UNCHANGED <<kept, here, made, offsets, tracked, top, moved, urls, data, left>>
    BY DEF Tick
  <1>2. time \in Nat /\ \A e \in kept : e.hiddenAt \in Int
    BY DEF KeptInv, KeptTypeOK, Entries
  <1>3. KeptTypeOK' /\ NumberedPages' /\ UrlsInSection' /\ OnDisplay' /\ ReturnsAsLeft'
    BY <1>1, <1>2 DEF KeptInv, KeptTypeOK, NumberedPages, UrlsInSection, KeptAsLeft, OnDisplay, ReturnsAsLeft
  <1>4. HiddenSince'
    BY <1>1, <1>2 DEF KeptInv, HiddenSince
  <1>5. DataLast'
    <2>1. GcTime \in Nat
      BY KeptAssumption
    <2> QED
      BY <1>1, <1>2, <2>1 DEF KeptInv, DataLast, Hidden
  <1> QED
    BY <1>3, <1>4, <1>5 DEF KeptInv, KeptAsLeft

LEMMA KeptStep == KeptInv /\ [KNext]_kvars => KeptInv'
  <1> SUFFICES ASSUME KeptInv, [KNext]_kvars PROVE KeptInv'
    OBVIOUS
  <1>1. ASSUME NEW p \in Places, Follow(p) PROVE KeptInv'
    BY <1>1, NavigateKeeps DEF Follow
  <1>2. ASSUME NEW s \in Sections, Sidebar(s) PROVE KeptInv'
    <2>1. urls[s] \in Places \cup {NoPlace} /\ Landing[s] \in Places
      BY KeptAssumption DEF KeptInv, KeptTypeOK
    <2>2. \/ \E p \in Places, reset \in BOOLEAN : Navigate(p, reset)
          \/ ScrollTo(0)
      BY <1>2, <2>1 DEF Sidebar
    <2> QED
      BY <2>2, NavigateKeeps, ScrollToKeeps
  <1>3. CASE UNCHANGED kvars
    BY <1>3 DEF kvars, KeptInv, KeptTypeOK, NumberedPages, HiddenSince, DataLast, UrlsInSection,
                KeptAsLeft, OnDisplay, ReturnsAsLeft
  <1> QED
    BY <1>1, <1>2, <1>3, AccountKeepsPages, CollectKeeps, ScrollToKeeps, ScrolledKeeps, TickKeeps DEF KNext

LEMMA KeptCorrect == WSpec => []KeptInv
  <1>1. WInit => KeptInv
    BY PartStarts, KeptStart
  <1>2. KeptInv /\ [WNext]_wvars => KeptInv'
    BY KeptPart, KeptStep
  <1> QED
    BY <1>1, <1>2, PTL DEF WSpec

\* However many pages are kept, whatever is visited, scrolled, expired or evicted between, the
\* page of the URL is on display and a page that comes back is as it was left
\* (keep-alive-outlet.tsx, lru.ts, section-memory.tsx).
THEOREM KeptAsLeftAlways == WSpec => []KeptAsLeft
  <1>1. KeptInv => KeptAsLeft
    BY DEF KeptInv
  <1> QED
    BY KeptCorrect, <1>1, PTL
=============================================================================
