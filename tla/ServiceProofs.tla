---------------------------- MODULE ServiceProofs ----------------------------
(***************************************************************************)
(* Three services of the core, each for every value of its constants: the  *)
(* image cache is watched whenever it is over its cap, the settings in the *)
(* file, in the manager and in the services stay in step and start again,  *)
(* and the updater never installs an older binary than the one on disk.    *)
(***************************************************************************)
EXTENDS ImageCache, Settings, Updater, TLAPS

-----------------------------------------------------------------------------
(* The image cache                                                         *)

\* No files have no size: twice their size is their size.
LEMMA NothingWeighs == Bytes[{}] = 0
  <1> DEFINE none == Bytes[{}]
  <1>1. {} \in SUBSET Files /\ {} \cap {} = {} /\ {} \cup {} = {}
    OBVIOUS
  <1>2. none \in Nat /\ none = none + none
    BY <1>1, BytesAssumption
  <1> HIDE DEF none
  <1>3. none = 0
    BY <1>2
  <1> QED
    BY <1>3 DEF none

\* A part of the directory is no larger than the whole.
LEMMA BytesMonotone ==
  ASSUME NEW S, NEW U, S \subseteq U, U \subseteq Files
  PROVE  Bytes[S] \in Nat /\ Bytes[U] \in Nat /\ Bytes[S] <= Bytes[U]
  <1>1. S \cup (U \ S) = U /\ S \cap (U \ S) = {} /\ {S, U, U \ S} \subseteq SUBSET Files
    OBVIOUS
  <1>2. {Bytes[S], Bytes[U], Bytes[U \ S]} \subseteq Nat
    BY <1>1, BytesAssumption
  <1>3. Bytes[U] = Bytes[S] + Bytes[U \ S]
    BY <1>1, BytesAssumption
  <1> QED
    BY <1>2, <1>3

\* A trim ends below the cap.
LEMMA LowWaterBelow == ASSUME NEW max \in Nat PROVE LowWater(max) \in Nat /\ LowWater(max) <= max
  BY DEF LowWater

LEMMA ImageTypeInit == IInit => ImageTypeOK
  <1> SUFFICES ASSUME IInit PROVE ImageTypeOK
    OBVIOUS
  <1>1. cached \in SUBSET Files
    BY FilesAssumption DEF IInit
  <1>2. manager \in [pc : {"rest", "sweep", "list", "trim"}, max : Caps \cup {0}, left : SUBSET Files,
                     seen : SUBSET Files, failed : BOOLEAN]
    BY DEF IInit, Resting
  <1>3. asks \in [Requests -> [pc : {"idle", "missed", "waits"}, image : Images \cup {Never}]]
    BY DEF IInit, NoAsk
  <1>4. flight \in [Images -> {"none", "fetch", "temp", "stored"}] /\ spent \in [resizes : Nat, failures : Nat]
    BY DEF IInit
  <1> QED
    BY <1>1, <1>2, <1>3, <1>4 DEF IInit, ImageTypeOK

Managers == [pc : {"rest", "sweep", "list", "trim"}, max : Caps \cup {0}, left : SUBSET Files,
             seen : SUBSET Files, failed : BOOLEAN]
Asks     == [Requests -> [pc : {"idle", "missed", "waits"}, image : Images \cup {Never}]]
Flights  == [Images -> {"none", "fetch", "temp", "stored"}]

LEMMA LandedType ==
  ASSUME ImageTypeOK, NEW i \in Images, Landed(i)
  PROVE  flight' \in Flights /\ asks' \in Asks
  <1>1. asks' \in Asks
    BY DEF ImageTypeOK, Landed, Asks, NoAsk
  <1>2. flight' \in Flights
    BY DEF ImageTypeOK, Landed, Flights
  <1> QED
    BY <1>1, <1>2

LEMMA FlightType == ASSUME ImageTypeOK, NEW i \in Images, Flight(i) PROVE ImageTypeOK'
  <1> USE DEF ImageTypeOK, Flights, Asks
  <1>1. {Img(i), Tmp(i)} \subseteq Files
    BY FilesAssumption
  <1>2. CASE FetchFails(i)
    BY <1>2, LandedType DEF FetchFails
  <1>3. CASE WriteTemp(i)
    BY <1>1, <1>3 DEF WriteTemp
  <1>4. CASE Rename(i)
    BY <1>1, <1>4 DEF Rename
  <1>5. CASE WriteFails(i)
    BY <1>5, LandedType DEF WriteFails
  <1>6. CASE Store(i)
    BY <1>6, LandedType DEF Store, Notified
  <1> QED
    BY <1>2, <1>3, <1>4, <1>5, <1>6 DEF Flight

LEMMA ManagesType == ASSUME ImageTypeOK, Manages PROVE ImageTypeOK'
  <1> USE DEF ImageTypeOK
  <1>0. manager \in Managers /\ Resting \in Managers /\ [Resting EXCEPT !.pc = "sweep"] \in Managers
    BY DEF Managers, Resting
  <1> USE DEF Managers
  <1>1. CASE Tick
    BY <1>0, <1>1 DEF Tick, Sweeping
  <1>2. CASE Kicked
    BY <1>2 DEF Kicked
  <1>3. CASE Debounced
    BY <1>0, <1>3 DEF Debounced, Sweeping
  <1>4. CASE ReadCap
    BY <1>0, <1>4 DEF ReadCap
  <1>5. CASE List
    <2>1. PICK missed \in SUBSET (Elusive \cap cached) :
            manager' = IF Bytes[cached \ missed] <= manager.max THEN Resting
                       ELSE [manager EXCEPT !.pc = "trim", !.left = cached \ missed, !.seen = cached \ missed]
      BY <1>5 DEF List
    <2>2. manager' \in Managers
      BY <1>0, <2>1
    <2> QED
      BY <1>5, <2>2 DEF List
  <1>6. CASE TrimEnds
    BY <1>0, <1>6 DEF TrimEnds, Resting
  <1>7. ASSUME NEW f \in manager.left, Trim(f) PROVE ImageTypeOK'
    BY <1>0, <1>7 DEF Trim
  <1>8. ASSUME NEW f \in manager.left, TrimFails(f) PROVE ImageTypeOK'
    <2>1. manager' \in Managers
      BY <1>0, <1>8 DEF TrimFails
    <2>2. spent' \in [resizes : Nat, failures : Nat]
      BY <1>8 DEF TrimFails
    <2> QED
      BY <1>8, <2>1, <2>2 DEF TrimFails
  <1>9. CASE ListFails
    <2>1. [Resting EXCEPT !.failed = TRUE] \in Managers
      BY DEF Resting
    <2>2. spent' \in [resizes : Nat, failures : Nat]
      BY <1>9 DEF ListFails
    <2> QED
      BY <1>9, <2>1, <2>2 DEF ListFails
  <1> QED
    BY <1>1, <1>2, <1>3, <1>4, <1>5, <1>6, <1>7, <1>8, <1>9 DEF Manages

LEMMA ImageTypeStep == ImageTypeOK /\ [INext]_ivars => ImageTypeOK'
  <1> SUFFICES ASSUME ImageTypeOK, [INext]_ivars PROVE ImageTypeOK'
    OBVIOUS
  <1>1. ASSUME NEW i \in Images, Flight(i) PROVE ImageTypeOK'
    BY <1>1, FlightType
  <1>2. ASSUME NEW r \in Requests, Join(r) PROVE ImageTypeOK'
    <2>1. asks[r].image \in Images \cup {Never}
      BY DEF ImageTypeOK
    <2>2. flight' \in Flights
      BY <1>2, <2>1 DEF ImageTypeOK, Join, Flights
    <2>3. asks' \in Asks
      BY <1>2 DEF ImageTypeOK, Join, Asks
    <2> QED
      BY <1>2, <2>2, <2>3 DEF ImageTypeOK, Join, Flights, Asks
  <1>3. ASSUME NEW r \in Requests, NEW i \in Images, Miss(r, i) PROVE ImageTypeOK'
    BY <1>3 DEF ImageTypeOK, Miss
  <1>4. CASE Manages
    BY <1>4, ManagesType
  <1>5. CASE SetNotify
    BY <1>5 DEF ImageTypeOK, SetNotify, Notified
  <1>6. ASSUME NEW c \in Caps, SetMax(c) PROVE ImageTypeOK'
    BY <1>6 DEF ImageTypeOK, SetMax
  <1>7. CASE UNCHANGED ivars
    BY <1>7 DEF ImageTypeOK, ivars
  <1> QED
    BY <1>1, <1>2, <1>3, <1>4, <1>5, <1>6, <1>7 DEF INext

\* The proxy's variables have their types.
THEOREM ImageTypeCorrect == ISpec => []ImageTypeOK
  <1> QED
    BY ImageTypeInit, ImageTypeStep, PTL DEF ISpec

LEMMA SweepInit == IInit => SweepInv
  BY DEF IInit, SweepInv, Resting

\* A step that is none of the manager's, nor ends what somebody owes it, may add temporary files only.
LEMMA SweepKept ==
  ASSUME ImageTypeOK, SweepInv, UNCHANGED <<manager, cap>>,
         Owed => Owed', ~Owed' => cached' \ Temps' \subseteq cached \ Temps
  PROVE  SweepInv'
  <1>1. cached \ Temps \subseteq Files
    BY DEF ImageTypeOK
  <1>2. ~Owed' => Bytes[cached' \ Temps'] \in Nat /\ Bytes[cached \ Temps] \in Nat
                  /\ Bytes[cached' \ Temps'] <= Bytes[cached \ Temps]
    BY <1>1, BytesMonotone
  <1>3. cap \in Nat
    BY CapsAssumption DEF ImageTypeOK
  <1>4. ~Owed' /\ manager.pc = "rest" /\ ~manager.failed => cap = 0 \/ Bytes[cached' \ Temps'] <= cap
    BY <1>2, <1>3 DEF SweepInv
  <1>5. ~Owed' /\ manager.pc = "trim" =>
          /\ cached' \ Temps' \subseteq manager.seen
          /\ ~manager.failed => cached' \ Temps' \subseteq manager.left
    BY DEF SweepInv
  <1> QED
    BY <1>4, <1>5 DEF SweepInv

LEMMA FlightSweep == ASSUME ImageTypeOK, SweepInv, NEW i \in Images, Flight(i) PROVE SweepInv'
  <1>1. flight \in Flights
    BY DEF ImageTypeOK, Flights
  <1>2. ASSUME Landed(i), flight[i] \in {"fetch", "temp"}, UNCHANGED <<manager, cap, kick, armed, setting>>,
               cached' \subseteq cached, flight[i] = "fetch" \/ Tmp(i) \notin cached'
        PROVE  SweepInv'
    <2>1. \A k \in Images : flight'[k] = IF k = i THEN "none" ELSE flight[k]
      BY <1>1, <1>2 DEF Landed, Flights
    <2>2. Owed => Owed'
      BY <1>2, <2>1 DEF Owed
    <2>3. \A k \in Images : flight[k] = "temp" => Tmp(k) \in Temps' \/ k = i
      BY <2>1 DEF Temps
    <2>4. cached' \ Temps' \subseteq cached \ Temps
      BY <1>2, <2>3 DEF Temps
    <2> QED
      BY <1>2, <2>2, <2>4, SweepKept
  <1>3. CASE FetchFails(i)
    BY <1>2, <1>3 DEF FetchFails
  <1>4. CASE WriteTemp(i)
    <2>1. \A k \in Images : flight'[k] = IF k = i THEN "temp" ELSE flight[k]
      BY <1>1, <1>4 DEF WriteTemp, Flights
    <2>2. Owed => Owed'
      BY <1>4, <2>1 DEF Owed, WriteTemp
    <2>3. \A k \in Images : flight[k] = "temp" \/ k = i => Tmp(k) \in Temps'
      BY <2>1 DEF Temps
    <2>4. cached' \ Temps' \subseteq cached \ Temps
      BY <1>4, <2>3 DEF Temps, WriteTemp
    <2> QED
      BY <1>4, <2>2, <2>4, SweepKept DEF WriteTemp
  <1>5. CASE Rename(i)
    <2>1. Owed'
      BY <1>1, <1>5 DEF Rename, Owed, Flights
    <2> QED
      BY <1>5, <2>1, SweepKept DEF Rename
  <1>6. CASE WriteFails(i)
    BY <1>2, <1>6 DEF WriteFails
  <1>7. CASE Store(i)
    <2>1. Owed'
      BY <1>7 DEF Store, Notified, Owed
    <2> QED
      BY <1>7, <2>1, SweepKept DEF Store
  <1> QED
    BY <1>3, <1>4, <1>5, <1>6, <1>7 DEF Flight

\* A sweep lists every file but those that are being written or that somebody will tell of.
LEMMA ListSweep == ASSUME ImageTypeOK, SweepInv, List PROVE SweepInv'
  <1>1. PICK missed \in SUBSET (Elusive \cap cached) :
          manager' = IF Bytes[cached \ missed] <= manager.max THEN Resting
                     ELSE [manager EXCEPT !.pc = "trim", !.left = cached \ missed, !.seen = cached \ missed]
    BY DEF List
  <1>2. manager \in Managers /\ cached \subseteq Files /\ cap \in Nat
    BY CapsAssumption DEF ImageTypeOK, Managers
  <1>3. UNCHANGED <<cached, cap, kick, armed, flight, setting>> /\ manager.pc = "list"
    BY DEF List
  <1>4. (Owed' <=> Owed) /\ Temps' = Temps
    BY <1>3 DEF Owed, Temps
  <1>5. ~Owed => cached \ Temps \subseteq cached \ missed /\ manager.max = cap
    BY <1>1, <1>3 DEF Elusive, Owed, SweepInv
  <1>6. ~manager.failed /\ manager.max > 0
    BY <1>3 DEF SweepInv
  <1>7. CASE Bytes[cached \ missed] <= manager.max
    <2>0. ~Owed => Bytes[cached \ missed] \in Nat /\ Bytes[cached \ Temps] \in Nat
                   /\ Bytes[cached \ Temps] <= Bytes[cached \ missed]
      BY <1>2, <1>5, BytesMonotone
    <2>1. ~Owed => Bytes[cached \ Temps] <= cap
      BY <1>2, <1>5, <1>7, <2>0
    <2> QED
      BY <1>1, <1>3, <1>4, <1>7, <2>1 DEF SweepInv, Resting
  <1>8. CASE ~(Bytes[cached \ missed] <= manager.max)
    <2>1. /\ manager'.pc = "trim" /\ manager'.left = cached \ missed /\ manager'.seen = cached \ missed
          /\ manager'.max = manager.max /\ manager'.failed = manager.failed
      BY <1>1, <1>2, <1>8 DEF Managers
    <2> QED
      BY <1>3, <1>4, <1>5, <1>6, <2>1 DEF SweepInv
  <1> QED
    BY <1>7, <1>8

\* What is removed is taken from both; what could not be removed stays listed.
LEMMA TrimSweep ==
  ASSUME ImageTypeOK, SweepInv, NEW f \in manager.left, Trim(f) \/ TrimFails(f) PROVE SweepInv'
  <1>1. manager \in Managers
    BY DEF ImageTypeOK, Managers
  <1>2. UNCHANGED <<cap, kick, armed, flight, setting>> /\ manager.pc = "trim"
    BY DEF Trim, TrimFails, Trimming
  <1>3. (Owed' <=> Owed) /\ Temps' = Temps
    BY <1>2 DEF Owed, Temps
  <1>4. CASE Trim(f)
    <2>1. /\ manager'.pc = "trim" /\ manager'.left = manager.left \ {f} /\ manager'.seen = manager.seen \ {f}
          /\ manager'.max = manager.max /\ manager'.failed = manager.failed /\ cached' = cached \ {f}
      BY <1>1, <1>2, <1>4 DEF Trim, Managers
    <2> QED
      BY <1>2, <1>3, <2>1 DEF SweepInv
  <1>5. CASE TrimFails(f)
    <2>1. /\ manager'.pc = "trim" /\ manager'.left = manager.left \ {f} /\ manager'.seen = manager.seen
          /\ manager'.max = manager.max /\ manager'.failed = (manager.failed \/ f \in cached) /\ cached' = cached
      BY <1>1, <1>2, <1>5 DEF TrimFails, Managers
    <2>2. ~manager'.failed => ~manager.failed /\ f \notin cached
      BY <2>1
    <2> QED
      BY <1>2, <1>3, <2>1, <2>2 DEF SweepInv
  <1> QED
    BY <1>4, <1>5

\* When the trim is over, the directory is within the cap unless a removal failed.
LEMMA TrimEndsSweep == ASSUME ImageTypeOK, SweepInv, TrimEnds PROVE SweepInv'
  <1>0. manager \in Managers /\ cached \subseteq Files /\ cap \in Nat
    BY CapsAssumption DEF ImageTypeOK, Managers
  <1>1. manager \in Managers /\ cached \subseteq Files /\ cap \in Nat /\ manager.max \in Nat
    <2>1. manager.max \in Caps \cup {0}
      BY <1>0 DEF Managers
    <2>2. \A c \in Caps \cup {0} : c \in Nat
      BY CapsAssumption
    <2> QED
      BY <1>0, <2>1, <2>2
  <1>2. UNCHANGED <<cached, cap, kick, armed, flight, setting>> /\ manager.pc = "trim" /\ ~Trimming
    BY DEF TrimEnds
  <1>3. manager'.pc = "rest" /\ manager'.failed = manager.failed
    BY <1>1 DEF TrimEnds, Resting, Managers
  <1>4. (Owed' <=> Owed) /\ Temps' = Temps
    BY <1>2 DEF Owed, Temps
  <1>5. ASSUME ~Owed, ~manager.failed PROVE Bytes[cached \ Temps] <= cap
    <2>1. manager.max = cap /\ cached \ Temps \subseteq manager.seen /\ cached \ Temps \subseteq manager.left
      BY <1>2, <1>5 DEF SweepInv
    <2>2. manager.seen \subseteq Files
      BY <1>1 DEF Managers
    <2>3. CASE manager.left = {}
      <3>1. cached \ Temps = {}
        BY <2>1, <2>3
      <3> QED
        BY <1>1, <3>1, NothingWeighs
    <2>4. CASE manager.left # {}
      <3>1. Bytes[manager.seen] \in Nat /\ Bytes[cached \ Temps] \in Nat
            /\ Bytes[cached \ Temps] <= Bytes[manager.seen]
        BY <2>1, <2>2, BytesMonotone
      <3>2. LowWater(manager.max) \in Nat /\ LowWater(manager.max) <= manager.max
        BY <1>1, LowWaterBelow
      <3>3. ~(Bytes[manager.seen] > LowWater(manager.max))
        BY <1>2, <2>4 DEF Trimming
      <3> QED
        BY <1>1, <2>1, <3>1, <3>2, <3>3
    <2> QED
      BY <2>3, <2>4
  <1> QED
    BY <1>2, <1>3, <1>4, <1>5 DEF SweepInv

LEMMA SweepStep == ImageTypeOK /\ SweepInv /\ [INext]_ivars => SweepInv'
  <1> SUFFICES ASSUME ImageTypeOK, SweepInv, [INext]_ivars PROVE SweepInv'
    OBVIOUS
  <1>0. manager \in Managers /\ cap \in Nat
    BY CapsAssumption DEF ImageTypeOK, Managers
  <1>1. ASSUME NEW i \in Images, Flight(i) PROVE SweepInv'
    BY <1>1, FlightSweep
  <1>2. ASSUME NEW r \in Requests, Join(r) PROVE SweepInv'
    <2>1. flight \in Flights
      BY DEF ImageTypeOK, Flights
    <2>2. \A k \in Images : flight'[k] = flight[k] \/ (flight[k] = "none" /\ flight'[k] = "fetch")
      BY <1>2, <2>1 DEF Join, Flights
    <2>3. (Owed => Owed') /\ Temps \subseteq Temps'
      BY <1>2, <2>2 DEF Join, Owed, Temps
    <2> QED
      BY <1>2, <2>3, SweepKept DEF Join
  <1>3. ASSUME NEW r \in Requests, NEW i \in Images, Miss(r, i) PROVE SweepInv'
    BY <1>3, SweepKept DEF Miss, Owed, Temps
  <1>4. CASE Tick \/ Debounced
    BY <1>4 DEF Tick, Debounced, Sweeping, SweepInv, Resting
  <1>5. CASE Kicked
    BY <1>5, SweepKept DEF Kicked, Owed
  <1>6. CASE ReadCap
    <2>1. UNCHANGED <<cached, cap, kick, armed, flight, setting>> /\ ~manager.failed
      BY <1>6 DEF ReadCap, SweepInv
    <2>2. \/ /\ cap > 0 /\ manager'.pc = "list" /\ manager'.max = cap /\ manager'.failed = manager.failed
          \/ cap = 0 /\ manager' = Resting
      BY <1>0, <1>6 DEF ReadCap, Managers
    <2> QED
      BY <2>1, <2>2 DEF SweepInv, Resting
  <1>7. CASE List
    BY <1>7, ListSweep
  <1>8. CASE TrimEnds
    BY <1>8, TrimEndsSweep
  <1>9. ASSUME NEW f \in manager.left, Trim(f) \/ TrimFails(f) PROVE SweepInv'
    BY <1>9, TrimSweep
  <1>10. CASE SetNotify
    BY <1>10, SweepKept DEF SetNotify, Notified, Owed
  <1>11. ASSUME NEW c \in Caps, SetMax(c) PROVE SweepInv'
    BY <1>11 DEF SetMax, SweepInv, Owed
  <1>12. CASE UNCHANGED ivars
    BY <1>12, SweepKept DEF ivars, Owed, Temps
  <1>13. CASE ListFails
    <2>1. UNCHANGED <<cached, cap, kick, armed, flight, setting>>
      BY <1>13 DEF ListFails
    <2>2. manager'.pc = "rest" /\ manager'.failed
      BY <1>13 DEF ListFails, Resting
    <2> QED
      BY <2>1, <2>2 DEF SweepInv, Owed, Temps
  <1> QED
    BY <1>1, <1>2, <1>3, <1>4, <1>5, <1>6, <1>7, <1>8, <1>9, <1>10, <1>11, <1>12, <1>13 DEF INext, Manages

\* A directory over its cap is on the way to be trimmed, however writes, sweeps, kicks and changes of
\* the cap interleave, unless a removal or the reading of the directory failed.
THEOREM WatchCorrect == ISpec => []CapWatched
  <1>1. ImageTypeOK /\ SweepInv => CapWatched
    <2> SUFFICES ASSUME ImageTypeOK, SweepInv, ~Within, ~(kick \/ armed \/ setting \/ Writing),
                        manager.pc \notin {"sweep", "list", "trim"}, ~manager.failed
                 PROVE  FALSE
      BY DEF CapWatched
    <2>1. ~Owed /\ Temps = {}
      BY DEF Owed, Temps, Writing
    <2>2. cached \ Temps = cached
      BY <2>1
    <2>3. manager \in Managers
      BY DEF ImageTypeOK, Managers
    <2>4. manager.pc = "rest"
      BY <2>3 DEF Managers
    <2> QED
      BY <2>1, <2>2, <2>4 DEF SweepInv, Within
  <1>2. IInit => ImageTypeOK /\ SweepInv
    BY ImageTypeInit, SweepInit
  <1>3. (ImageTypeOK /\ SweepInv) /\ [INext]_ivars => (ImageTypeOK /\ SweepInv)'
    BY ImageTypeStep, SweepStep
  <1> QED
    BY <1>1, <1>2, <1>3, PTL DEF ISpec

-----------------------------------------------------------------------------
(* The configuration manager                                               *)

LEMMA LayerType == ASSUME NEW f PROVE f \in Layers <=> \E S \in SUBSET Keys : f \in [S -> Values]
  BY DEF Layers

\* The operators on layers return layers.
LEMMA LayersClosed ==
  /\ NoKeys \in Layers
  /\ \A f \in Layers : \A S : Without(f, S) \in Layers
  /\ \A f, p \in Layers : With(f, p) \in Layers
  /\ \A f \in Layers : Pruned(f) \in Layers
  <1>1. NoKeys \in Layers
    <2>1. NoKeys \in [{} -> Values]
      BY DEF NoKeys
    <2> QED
      BY <2>1, LayerType
  <1>2. ASSUME NEW f \in Layers, NEW S PROVE Without(f, S) \in Layers
    <2>1. PICK D \in SUBSET Keys : f \in [D -> Values]
      BY LayerType
    <2>2. Without(f, S) \in [D \ S -> Values] /\ D \ S \in SUBSET Keys
      BY <2>1 DEF Without
    <2> QED
      BY <2>2, LayerType
  <1>3. ASSUME NEW f \in Layers, NEW p \in Layers PROVE With(f, p) \in Layers
    <2>1. PICK D \in SUBSET Keys : f \in [D -> Values]
      BY LayerType
    <2>2. PICK E \in SUBSET Keys : p \in [E -> Values]
      BY LayerType
    <2>3. With(f, p) \in [D \cup E -> Values] /\ D \cup E \in SUBSET Keys
      BY <2>1, <2>2 DEF With
    <2> QED
      BY <2>3, LayerType
  <1>4. \A f \in Layers : Pruned(f) \in Layers
    BY <1>2 DEF Pruned
  <1> QED
    BY <1>1, <1>2, <1>3, <1>4

\* The layers merge to a configuration.
LEMMA MergedType ==
  ASSUME NEW b \in Builds, NEW f \in Layers, NEW e \in Layers PROVE Merged(b, f, e) \in Config
  <1>1. \A g \in Layers, k \in Keys : k \in DOMAIN g => g[k] \in Values
    <2> SUFFICES ASSUME NEW g \in Layers, NEW k \in Keys, k \in DOMAIN g PROVE g[k] \in Values
      OBVIOUS
    <2>1. PICK D \in SUBSET Keys : g \in [D -> Values]
      BY LayerType
    <2> QED
      BY <2>1
  <1>2. \A k \in Keys : Default(b, k) \in Values
    BY KeysAssumption DEF Default
  <1>3. \A k \in Keys : (IF k \in DOMAIN e THEN e[k] ELSE Meant(b, f, k)) \in Values
    BY <1>1, <1>2 DEF Meant
  <1> QED
    BY <1>3 DEF Merged, Config

LEMMA EffectiveType == ASSUME SettingsTypeOK, NEW l \in Config PROVE Effective(l) \in Config
  BY DEF SettingsTypeOK, Effective, Config

\* Layers that mean the same merge to the same, and stay so under the same change.
LEMMA SameLayers ==
  ASSUME NEW f, NEW g, SameChoice(f, g)
  PROVE  /\ \A b \in Builds : \A e : Merged(b, f, e) = Merged(b, g, e)
         /\ \A p : SameChoice(With(f, p), With(g, p))
         /\ \A S : SameChoice(Without(f, S), Without(g, S))
         /\ SameChoice(Pruned(f), g)
  <1>1. \A b \in Builds : \A e : Merged(b, f, e) = Merged(b, g, e)
    BY DEF Merged, SameChoice
  <1>2. ASSUME NEW p PROVE SameChoice(With(f, p), With(g, p))
    <2>1. \A h, k : /\ k \in DOMAIN With(h, p) <=> k \in DOMAIN h \/ k \in DOMAIN p
                    /\ k \in DOMAIN With(h, p) => With(h, p)[k] = IF k \in DOMAIN p THEN p[k] ELSE h[k]
      BY DEF With
    <2> QED
      BY <2>1 DEF SameChoice, Meant
  <1>3. ASSUME NEW S PROVE SameChoice(Without(f, S), Without(g, S))
    <2>1. \A h, k : /\ k \in DOMAIN Without(h, S) <=> k \in DOMAIN h /\ k \notin S
                    /\ k \in DOMAIN Without(h, S) => Without(h, S)[k] = h[k]
      BY DEF Without
    <2> QED
      BY <2>1 DEF SameChoice, Meant
  <1>4. SameChoice(Pruned(f), g)
    <2> DEFINE D == {k \in DOMAIN f \ {Channel} : f[k] = Base[k]}
    <2>1. \A k : /\ k \in DOMAIN Pruned(f) <=> k \in DOMAIN f /\ k \notin D
                 /\ k \in DOMAIN Pruned(f) => Pruned(f)[k] = f[k]
      BY DEF Pruned, Without
    <2>2. \A b \in Builds, k \in Keys : k \in D => f[k] = Default(b, k)
      BY DEF Default
    <2>3. \A b \in Builds, k \in Keys : Meant(b, Pruned(f), k) = Meant(b, f, k)
      BY <2>1, <2>2 DEF Meant
    <2> QED
      BY <2>3 DEF SameChoice
  <1> QED
    BY <1>1, <1>2, <1>3, <1>4

\* What one build accepts, every build accepts: they differ in the default of the channel.
LEMMA AcceptedByAll ==
  ASSUME NEW b \in Builds, NEW f \in Layers, NEW e \in Layers, Merged(b, f, e) \notin Invalid
  PROVE  \A c \in Builds : Merged(c, f, e) \notin Invalid
  <1> SUFFICES ASSUME NEW c \in Builds PROVE Merged(c, f, e) \notin Invalid
    OBVIOUS
  <1>1. Merged(b, f, e) \in Config /\ Merged(c, f, e) \in Config /\ Channel \in Keys
    BY MergedType, KeysAssumption
  <1>2. Merged(c, f, e) = [Merged(b, f, e) EXCEPT ![Channel] = Merged(c, f, e)[Channel]]
    BY DEF Merged, Meant, Default
  <1>3. Merged(c, f, e)[Channel] \in Values
    BY <1>1 DEF Config
  <1> QED
    BY <1>1, <1>2, <1>3, ChannelAssumption

ChangeRecords == [pc : {"none", "save", "swap", "hooks"}, file : Layers, as : Layers,
                  next : 0..Services + 1, to : Config \cup {NoKeys}]

LEMMA NoneType == NoChange \in ChangeRecords
  <1>1. NoKeys \in Layers /\ 0 \in 0..Services + 1
    BY LayersClosed, ServicesAssumption
  <1> QED
    BY <1>1 DEF NoChange, ChangeRecords

LEMMA SettingsTypeInit == SInit => SettingsTypeOK
  <1> SUFFICES ASSUME SInit PROVE SettingsTypeOK
    OBVIOUS
  <1>1. saved \in Layers /\ chosen \in Layers /\ env \in Layers /\ build \in Builds
    BY EnvironmentsAssumption DEF SInit
  <1>2. live \in Config /\ began \in Config
    BY <1>1, MergedType DEF SInit
  <1>3. change \in ChangeRecords /\ change.pc = "none"
    BY NoneType DEF SInit, NoChange
  <1>4. applied \in [1..Services -> Config]
    BY <1>2 DEF SInit
  <1> QED
    BY <1>1, <1>2, <1>3, <1>4 DEF SInit, SettingsTypeOK, ChangeRecords

\* What PATCH and RESET make of the file.
LEMMA AcceptsType ==
  ASSUME SettingsTypeOK, NEW f \in Layers, NEW as \in Layers, Accepts(f, as) PROVE SettingsTypeOK'
  <1>1. build \in Builds /\ env \in Layers
    BY EnvironmentsAssumption DEF SettingsTypeOK
  <1>2. Pruned(f) \in Layers /\ Merged(build, f, env) \in Config
    BY <1>1, LayersClosed, MergedType
  <1>3. 1 \in 0..Services + 1
    BY ServicesAssumption
  <1>4. change' \in ChangeRecords /\ change'.to \in Config
    BY <1>2, <1>3 DEF Accepts, ChangeRecords
  <1>5. uses' \in [changes : Nat, starts : Nat]
    BY DEF Accepts, SettingsTypeOK
  <1> QED
    BY <1>4, <1>5 DEF Accepts, SettingsTypeOK, ChangeRecords

\* PATCH and RESET propose the same change of the file and of what the user chose.
LEMMA Proposals ==
  ASSUME saved \in Layers, chosen \in Layers,
         (\E p \in Layers \ {NoKeys} : Patch(p)) \/ ResetAll \/ (\E S \in SUBSET Keys : ResetKeys(S))
  PROVE  /\ alive
         /\ \E f, as \in Layers : Accepts(f, as) /\ (ChoiceKept => SameChoice(f, as))
  <1>1. CASE \E p \in Layers \ {NoKeys} : Patch(p)
    <2>1. PICK p \in Layers : Patch(p)
      BY <1>1
    <2>2. With(saved, p) \in Layers /\ With(chosen, p) \in Layers
      BY LayersClosed
    <2>3. ChoiceKept => SameChoice(With(saved, p), With(chosen, p))
      BY SameLayers DEF ChoiceKept
    <2> QED
      BY <2>1, <2>2, <2>3 DEF Patch
  <1>2. ASSUME NEW S, Accepts(Without(saved, S), Without(chosen, S))
        PROVE  \E f, as \in Layers : Accepts(f, as) /\ (ChoiceKept => SameChoice(f, as))
    <2>1. Without(saved, S) \in Layers /\ Without(chosen, S) \in Layers
      BY LayersClosed
    <2>2. ChoiceKept => SameChoice(Without(saved, S), Without(chosen, S))
      BY SameLayers DEF ChoiceKept
    <2> QED
      BY <1>2, <2>1, <2>2
  <1>3. CASE ResetAll
    BY <1>2, <1>3 DEF ResetAll
  <1>4. CASE \E S \in SUBSET Keys : ResetKeys(S)
    BY <1>2, <1>4 DEF ResetKeys
  <1> QED
    BY <1>1, <1>3, <1>4

LEMMA SettingsTypeStep == SettingsTypeOK /\ [SNext]_stvars => SettingsTypeOK'
  <1> SUFFICES ASSUME SettingsTypeOK, [SNext]_stvars PROVE SettingsTypeOK'
    OBVIOUS
  <1>0. /\ change \in ChangeRecords
        /\ Services \in Nat /\ saved \in Layers /\ chosen \in Layers
    BY ServicesAssumption DEF SettingsTypeOK, ChangeRecords
  <1>1. CASE (\E p \in Layers \ {NoKeys} : Patch(p)) \/ ResetAll \/ (\E S \in SUBSET Keys : ResetKeys(S))
    BY <1>0, <1>1, Proposals, AcceptsType
  <1>2. CASE Save
    <2>1. /\ change' \in ChangeRecords /\ change.file \in Layers /\ change.as \in Layers
          /\ change'.to = change.to /\ change.pc = "save"
      BY <1>0, <1>2 DEF Save, ChangeRecords
    <2> QED
      BY <1>2, <2>1 DEF Save, SettingsTypeOK, ChangeRecords
  <1>3. CASE SaveFails \/ Return
    <2>1. change' \in ChangeRecords /\ change'.pc = "none"
      BY <1>3, NoneType DEF SaveFails, Return, NoChange
    <2> QED
      BY <1>3, <2>1 DEF SaveFails, Return, SettingsTypeOK, ChangeRecords
  <1>4. CASE Swap
    <2>1. change' \in ChangeRecords /\ change.file \in Layers /\ change'.to = change.to /\ change.pc = "swap"
      BY <1>0, <1>4 DEF Swap, ChangeRecords
    <2>2. Merged(build, change.file, env) \in Config
      BY <2>1, MergedType, EnvironmentsAssumption DEF SettingsTypeOK
    <2> QED
      BY <1>4, <2>1, <2>2 DEF Swap, SettingsTypeOK, ChangeRecords
  <1>5. ASSUME NEW s \in 1..Services, HookDone(s) \/ HookFails(s) PROVE SettingsTypeOK'
    <2>1. s + 1 \in 0..Services + 1 /\ change.pc = "hooks" /\ change.to \in Config
      BY <1>0, <1>5 DEF HookDone, HookFails, SettingsTypeOK
    <2>2. change' \in ChangeRecords /\ change'.to = change.to
      BY <1>0, <1>5, <2>1 DEF HookDone, HookFails, ChangeRecords
    <2>3. applied' \in [1..Services -> Config]
      BY <1>5, <2>1, EffectiveType DEF HookDone, HookFails, SettingsTypeOK
    <2>4. refused' \subseteq 1..Services
      BY <1>5 DEF HookDone, HookFails, SettingsTypeOK
    <2> QED
      BY <1>5, <2>1, <2>2, <2>3, <2>4 DEF HookDone, HookFails, SettingsTypeOK, ChangeRecords
  <1>6. CASE View
    BY <1>6 DEF View, stvars, SettingsTypeOK
  <1>7. CASE Ends
    <2>1. change' \in ChangeRecords /\ change'.pc = "none"
      BY <1>7, NoneType DEF Ends, NoChange
    <2> QED
      BY <1>7, <2>1 DEF Ends, SettingsTypeOK, ChangeRecords
  <1>8. ASSUME NEW b \in Builds, NEW e \in Environments, Starts(b, e) PROVE SettingsTypeOK'
    <2>1. Merged(b, saved, e) \in Config
      BY <1>0, MergedType, EnvironmentsAssumption
    <2>2. live' \in Config /\ began' \in Config /\ applied' \in [1..Services -> Config]
      BY <1>8, <2>1 DEF Starts
    <2>3. uses' \in [changes : Nat, starts : Nat] /\ refused' \subseteq 1..Services
      BY <1>8 DEF Starts, SettingsTypeOK
    <2> QED
      BY <1>8, <2>2, <2>3 DEF Starts, SettingsTypeOK
  <1>9. CASE UNCHANGED stvars
    BY <1>9 DEF stvars, SettingsTypeOK
  <1> QED
    BY <1>1, <1>2, <1>3, <1>4, <1>5, <1>6, <1>7, <1>8, <1>9 DEF SNext, Changes

\* The manager's variables have their types.
THEOREM SettingsTypeCorrect == SSpec => []SettingsTypeOK
  <1> QED
    BY SettingsTypeInit, SettingsTypeStep, PTL DEF SSpec

-----------------------------------------------------------------------------
(* The settings stay in step, keep what was chosen, and start again.       *)

LEMMA SettingsInit == SInit => SettingsInv
  <1> SUFFICES ASSUME SInit PROVE SettingsInv
    OBVIOUS
  <1>1. change.pc = "none"
    BY DEF SInit, NoChange
  <1>2. \A s \in 1..Services : applied[s] = Effective(live)
    BY DEF SInit, Effective, Merged
  <1> QED
    BY <1>1, <1>2 DEF SInit, SettingsInv, ChangeInv, ChoiceKept, SameChoice, BootsAgain

LEMMA AcceptsInv ==
  ASSUME SettingsTypeOK, SettingsInv, alive, NEW f \in Layers, NEW as \in Layers, Accepts(f, as), SameChoice(f, as)
  PROVE  SettingsInv'
  <1>1. build \in Builds /\ env \in Layers
    BY EnvironmentsAssumption DEF SettingsTypeOK
  <1>2. SameChoice(f, f)
    BY DEF SameChoice
  <1>3. SameChoice(Pruned(f), as) /\ \A b \in Builds : \A e : Merged(b, Pruned(f), e) = Merged(b, f, e)
    BY <1>2, SameLayers
  <1>4. \A b \in Builds : Merged(b, f, env) \notin Invalid
    BY <1>1, AcceptedByAll DEF Accepts
  <1>5. /\ change'.pc = "save" /\ change'.file = Pruned(f) /\ change'.as = as /\ change'.next = 1
        /\ change'.to = Merged(build, f, env) /\ change.pc = "none"
    BY DEF Accepts
  <1>6. UNCHANGED <<alive, build, env, saved, live, began, applied, refused, chosen>>
    BY DEF Accepts
  <1>7. ChangeInv'
    BY <1>1, <1>3, <1>4, <1>5, <1>6 DEF SettingsInv, ChangeInv, Effective, Merged
  <1> QED
    BY <1>6, <1>7 DEF SettingsInv, ChoiceKept, SameChoice, BootsAgain, Merged

\* A hook that is done or fails leaves the others as they are.
LEMMA HookInv ==
  ASSUME SettingsTypeOK, SettingsInv, NEW s \in 1..Services, HookDone(s) \/ HookFails(s)
  PROVE  SettingsInv'
  <1>1. /\ UNCHANGED <<alive, build, env, saved, live, began, chosen>>
        /\ change.pc = "hooks" /\ change.next = s /\ change' = [change EXCEPT !.next = s + 1]
    BY DEF HookDone, HookFails
  <1>2. change \in ChangeRecords /\ applied \in [1..Services -> Config] /\ Services \in Nat
    BY ServicesAssumption DEF SettingsTypeOK, ChangeRecords
  <1>3. /\ change'.pc = "hooks" /\ change'.file = change.file /\ change'.as = change.as
        /\ change'.to = change.to /\ change'.next = s + 1
    BY <1>1, <1>2 DEF ChangeRecords
  <1>4. alive /\ live = change.to
    BY <1>1 DEF SettingsInv, ChangeInv
  <1>5. ASSUME NEW q \in 1..Services \ refused', q < s + 1 PROVE applied'[q] = Effective(live)
    <2>1. CASE HookDone(s)
      <3>1. refused' = refused \ {s} /\ applied' = [applied EXCEPT ![s] = Effective(live)]
        BY <1>4, <2>1 DEF HookDone
      <3>2. CASE q = s
        BY <1>2, <3>1, <3>2
      <3>3. CASE q # s
        <4>1. q < s /\ q \in 1..Services \ refused
          BY <1>2, <1>5, <3>1, <3>3
        <4>2. applied[q] = Effective(live)
          BY <1>1, <1>4, <4>1 DEF SettingsInv, ChangeInv
        <4> QED
          BY <1>2, <3>1, <3>3, <4>2
      <3> QED
        BY <3>2, <3>3
    <2>2. CASE HookFails(s)
      <3>1. refused' = refused \cup {s} /\ applied' = applied
        BY <2>2 DEF HookFails
      <3>2. q < s /\ q \in 1..Services \ refused
        BY <1>2, <1>5, <3>1
      <3> QED
        BY <1>1, <1>4, <3>1, <3>2 DEF SettingsInv, ChangeInv
    <2> QED
      BY <2>1, <2>2
  <1>6. Effective(live)' = Effective(live)
    BY <1>1 DEF Effective
  <1>7. \A b \in Builds : Merged(b, change.file, env)' = Merged(b, change.file, env)
    BY <1>1, <1>3 DEF Merged, Meant, Default
  <1>8. ChangeInv'
    BY <1>1, <1>3, <1>4, <1>5, <1>6, <1>7 DEF SettingsInv, ChangeInv, Merged, SameChoice, Meant, Default
  <1> QED
    BY <1>1, <1>8 DEF SettingsInv, ChoiceKept, SameChoice, BootsAgain, Merged, Meant, Default

LEMMA SettingsStep == SettingsTypeOK /\ SettingsInv /\ [SNext]_stvars => SettingsInv'
  <1> SUFFICES ASSUME SettingsTypeOK, SettingsInv, [SNext]_stvars PROVE SettingsInv'
    OBVIOUS
  <1>0. change \in ChangeRecords /\ saved \in Layers /\ chosen \in Layers /\ Services \in Nat /\ env \in Layers
    BY ServicesAssumption, EnvironmentsAssumption DEF SettingsTypeOK, ChangeRecords
  <1>1. CASE (\E p \in Layers \ {NoKeys} : Patch(p)) \/ ResetAll \/ (\E S \in SUBSET Keys : ResetKeys(S))
    BY <1>0, <1>1, Proposals, AcceptsInv DEF SettingsInv
  <1>2. CASE Save
    <2>1. /\ change'.pc = "swap" /\ change'.file = change.file /\ change'.as = change.as
          /\ change'.to = change.to /\ change'.next = change.next /\ change.pc = "save"
      BY <1>0, <1>2 DEF Save, ChangeRecords
    <2>2. UNCHANGED <<alive, build, env, live, began, applied, refused>> /\ saved' = change.file /\ chosen' = change.as
      BY <1>2 DEF Save
    <2>3. ChoiceKept' /\ BootsAgain'
      BY <2>1, <2>2 DEF SettingsInv, ChangeInv, ChoiceKept, SameChoice, BootsAgain, Merged, Meant, Default
    <2>4. ChangeInv'
      BY <2>1, <2>2 DEF SettingsInv, ChangeInv, SameChoice, Merged, Meant, Default, Effective
    <2> QED
      BY <2>3, <2>4 DEF SettingsInv
  <1>3. CASE SaveFails
    <2>1. UNCHANGED <<alive, build, env, saved, live, began, applied, refused, chosen>> /\ change.pc = "save" /\ change'.pc = "none"
      BY <1>3 DEF SaveFails, NoChange
    <2>2. ChoiceKept' /\ BootsAgain'
      BY <2>1 DEF SettingsInv, ChoiceKept, SameChoice, BootsAgain, Merged, Meant, Default
    <2>3. ChangeInv'
      BY <2>1 DEF SettingsInv, ChangeInv, Merged, Meant, Default, Effective
    <2> QED
      BY <2>2, <2>3 DEF SettingsInv
  <1>4. CASE Return
    <2>1. /\ UNCHANGED <<alive, build, env, saved, live, began, applied, refused, chosen>>
          /\ change.pc = "hooks" /\ change.next = Services + 1 /\ change'.pc = "none"
      BY <1>4 DEF Return, NoChange
    <2>2. ChoiceKept' /\ BootsAgain'
      BY <2>1 DEF SettingsInv, ChoiceKept, SameChoice, BootsAgain, Merged, Meant, Default
    <2>3. live = Merged(build, saved, env) /\ \A s \in 1..Services \ refused : applied[s] = Effective(live)
      BY <1>0, <2>1 DEF SettingsInv, ChangeInv
    <2>4. ChangeInv'
      BY <2>1, <2>3 DEF ChangeInv, Merged, Meant, Default, Effective
    <2> QED
      BY <2>2, <2>4 DEF SettingsInv
  <1>5. CASE Swap
    <2>1. /\ change'.pc = "hooks" /\ change'.file = change.file /\ change'.as = change.as
          /\ change'.to = change.to /\ change'.next = change.next /\ change.pc = "swap"
      BY <1>0, <1>5 DEF Swap, ChangeRecords
    <2>2. UNCHANGED <<alive, build, env, saved, began, applied, refused, chosen>> /\ live' = Merged(build, change.file, env)
      BY <1>5 DEF Swap
    <2>3. ChoiceKept' /\ BootsAgain'
      BY <2>2 DEF SettingsInv, ChoiceKept, SameChoice, BootsAgain, Merged, Meant, Default
    <2>4. change'.next = 1 /\ alive /\ live' = change'.to /\ saved' = change'.file
      BY <2>1, <2>2 DEF SettingsInv, ChangeInv
    <2>5. \A s \in 1..Services : ~(s < change'.next)
      BY <1>0, <2>4
    <2>6. ChangeInv'
      BY <2>1, <2>2, <2>4, <2>5 DEF SettingsInv, ChangeInv, SameChoice, Merged, Meant, Default
    <2> QED
      BY <2>3, <2>6 DEF SettingsInv
  <1>6. ASSUME NEW s \in 1..Services, HookDone(s) \/ HookFails(s) PROVE SettingsInv'
    BY <1>6, HookInv
  <1>7. CASE View \/ UNCHANGED stvars
    <2>1. UNCHANGED <<alive, build, env, saved, live, began, change, applied, refused, chosen>>
      BY <1>7 DEF View, stvars
    <2> QED
      BY <2>1 DEF SettingsInv, ChangeInv, ChoiceKept, SameChoice, BootsAgain, Merged, Meant, Default, Effective
  <1>8. CASE Ends
    <2>1. UNCHANGED <<build, env, saved, chosen>> /\ ~alive' /\ change'.pc = "none"
      BY <1>8 DEF Ends, NoChange
    <2> QED
      BY <2>1 DEF SettingsInv, ChangeInv, ChoiceKept, SameChoice, BootsAgain, Merged, Meant, Default
  <1>9. ASSUME NEW b \in Builds, NEW e \in Environments, Starts(b, e) PROVE SettingsInv'
    <2>1. /\ UNCHANGED <<saved, chosen, change>> /\ build' = b /\ env' = e /\ alive' /\ refused' = {}
          /\ live' = Merged(b, saved, e) /\ began' = live' /\ applied' = [s \in 1..Services |-> live']
          /\ Merged(b, saved, e) \notin Invalid /\ ~alive
      BY <1>9 DEF Starts
    <2>2. change.pc = "none"
      BY <2>1 DEF SettingsInv, ChangeInv
    <2>3. BootsAgain'
      <3>1. e \in Layers
        BY EnvironmentsAssumption
      <3>2. \A c \in Builds : Merged(c, saved, e) \notin Invalid
        BY <1>0, <2>1, <3>1, AcceptedByAll
      <3> QED
        BY <2>1, <3>2 DEF BootsAgain, Merged, Meant, Default
    <2>4. ChoiceKept'
      BY <2>1 DEF SettingsInv, ChoiceKept, SameChoice, Meant, Default
    <2>5. Effective(live)' = live' /\ live' = Merged(b, saved, e)
      BY <2>1 DEF Effective, Merged
    <2>6. ChangeInv'
      BY <2>1, <2>2, <2>5 DEF ChangeInv, Merged, Meant, Default
    <2> QED
      BY <2>3, <2>4, <2>6 DEF SettingsInv
  <1> QED
    BY <1>1, <1>2, <1>3, <1>4, <1>5, <1>6, <1>7, <1>8, <1>9 DEF SNext, Changes

LEMMA SettingsAlways == SSpec => []SettingsInv
  <1>1. SInit => SettingsTypeOK /\ SettingsInv
    BY SettingsTypeInit, SettingsInit
  <1>2. (SettingsTypeOK /\ SettingsInv) /\ [SNext]_stvars => (SettingsTypeOK /\ SettingsInv)'
    BY SettingsTypeStep, SettingsStep
  <1> QED
    BY <1>1, <1>2, PTL DEF SSpec

\* File, manager and services are in step whenever no change is in progress, however changes, failures,
\* crashes and starts interleave.
THEOREM InStepCorrect == SSpec => []SettingsInStep
  <1>1. SettingsInv => SettingsInStep
    BY DEF SettingsInv, ChangeInv, SettingsInStep
  <1> QED
    BY <1>1, SettingsAlways, PTL

\* Pruning loses no choice, under any build and any default of its channel.
THEOREM ChoiceCorrect == SSpec => []ChoiceKept
  <1>1. SettingsInv => ChoiceKept
    BY DEF SettingsInv
  <1> QED
    BY <1>1, SettingsAlways, PTL

\* What was saved starts again in the environment it was saved under, at any moment, as any build.
THEOREM BootsCorrect == SSpec => []BootsAgain
  <1>1. SettingsInv => BootsAgain
    BY DEF SettingsInv
  <1> QED
    BY <1>1, SettingsAlways, PTL

\* The three together, which is what a user of the settings relies on.
THEOREM SettingsCorrect == SSpec => []SettingsHold
  <1> QED
    BY InStepCorrect, ChoiceCorrect, BootsCorrect, PTL DEF SettingsHold

-----------------------------------------------------------------------------
(* The updater                                                             *)

CheckRecords == [pc : {"idle", "asks", "listed", "resolved"}, feed : SUBSET Versions, to : Versions \cup {None}]
ApplyRecords == [pc : {"idle", "asks", "listed", "download", "swap", "done"},
                 feed : SUBSET Versions, to : Versions \cup {None}]

LEMMA UpdaterTypeInit == UInit => UpdaterTypeOK
  <1> SUFFICES ASSUME UInit PROVE UpdaterTypeOK
    OBVIOUS
  <1>1. check \in [Checkers -> CheckRecords]
    BY DEF UInit, NoCheck, CheckRecords
  <1>2. apply \in [Appliers -> ApplyRecords]
    BY DEF UInit, NoApply, ApplyRecords
  <1> QED
    BY <1>1, <1>2 DEF UInit, UpdaterTypeOK, CheckRecords, ApplyRecords, Unknown

LEMMA NewestType == ASSUME NEW S \in SUBSET Versions, NEW c PROVE Newest(Applicable(S, c)) \in Versions \cup {None}
  BY DEF Newest, Applicable

LEMMA CheckingType == ASSUME UpdaterTypeOK, NEW c \in Checkers, Checking(c) PROVE UpdaterTypeOK'
  <1>1. check \in [Checkers -> CheckRecords] /\ feed \in SUBSET Versions /\ NoCheck \in CheckRecords
    BY DEF UpdaterTypeOK, CheckRecords, NoCheck
  <1>2. ASSUME NEW to \in CheckRecords, check' = [check EXCEPT ![c] = to],
               UNCHANGED <<feed, running, disk, channel, status, applying, apply, restart, used>>
        PROVE  UpdaterTypeOK'
    BY <1>1, <1>2 DEF UpdaterTypeOK, CheckRecords
  <1>3. CASE Begin(c)
    <2>1. [check[c] EXCEPT !.pc = "asks"] \in CheckRecords
      BY <1>1 DEF CheckRecords
    <2> QED
      BY <1>2, <1>3, <2>1 DEF Begin
  <1>4. CASE Listed(c)
    <2>1. [check[c] EXCEPT !.pc = "listed", !.feed = feed] \in CheckRecords
      BY <1>1 DEF CheckRecords
    <2> QED
      BY <1>2, <1>4, <2>1 DEF Listed
  <1>5. CASE Resolved(c)
    <2>1. check[c].feed \in SUBSET Versions
      BY <1>1 DEF CheckRecords
    <2>2. [pc |-> "resolved", feed |-> {}, to |-> Newest(Applicable(check[c].feed, channel))] \in CheckRecords
      BY <2>1, NewestType DEF CheckRecords
    <2> QED
      BY <1>2, <1>5, <2>2 DEF Resolved
  <1>6. CASE CheckFails(c)
    BY <1>1, <1>2, <1>6 DEF CheckFails
  <1>7. CASE Recorded(c)
    <2>1. check[c].to \in Versions \cup {None}
      BY <1>1 DEF CheckRecords
    <2>2. status' \in [latest : Versions \cup {None}, available : BOOLEAN]
      BY <1>7, <2>1 DEF Recorded, Newer
    <2> QED
      BY <1>1, <1>7, <2>2 DEF Recorded, UpdaterTypeOK, CheckRecords
  <1> QED
    BY <1>3, <1>4, <1>5, <1>6, <1>7 DEF Checking

LEMMA ApplyingType == ASSUME UpdaterTypeOK, NEW r \in Appliers, ApplyStart(r) \/ Applying(r) PROVE UpdaterTypeOK'
  <1>1. /\ apply \in [Appliers -> ApplyRecords] /\ feed \in SUBSET Versions /\ NoApply \in ApplyRecords
        /\ apply[r] \in ApplyRecords
    BY DEF UpdaterTypeOK, ApplyRecords, NoApply
  <1>2. ASSUME NEW to \in ApplyRecords, apply' = [apply EXCEPT ![r] = to],
               UNCHANGED <<feed, running, channel, status, check, used>>,
               disk' \in Versions \cup {None}, applying' \in BOOLEAN, restart' \in BOOLEAN
        PROVE  UpdaterTypeOK'
    BY <1>1, <1>2 DEF UpdaterTypeOK, ApplyRecords
  <1>3. disk \in Versions \cup {None} /\ applying \in BOOLEAN /\ restart \in BOOLEAN
    BY DEF UpdaterTypeOK
  <1>4. \A l \in {"asks", "swap", "done"} : [apply[r] EXCEPT !.pc = l] \in ApplyRecords
    BY <1>1 DEF ApplyRecords
  <1>5. CASE ApplyStart(r)
    BY <1>2, <1>3, <1>4, <1>5 DEF ApplyStart
  <1>6. CASE ApplyListed(r)
    <2>1. [apply[r] EXCEPT !.pc = "listed", !.feed = feed] \in ApplyRecords
      BY <1>1 DEF ApplyRecords
    <2> QED
      BY <1>2, <1>3, <1>6, <2>1 DEF ApplyListed
  <1>7. CASE ApplyResolved(r)
    <2> DEFINE v == Newest(Applicable(apply[r].feed, channel))
    <2>1. apply[r].feed \in SUBSET Versions
      BY <1>1 DEF ApplyRecords
    <2>2. [pc |-> "download", feed |-> {}, to |-> v] \in ApplyRecords
      BY <2>1, NewestType DEF ApplyRecords
    <2> QED
      BY <1>2, <1>3, <1>7, <2>2 DEF ApplyResolved
  <1>8. CASE Refused(r) /\ disk' \in {disk, None}
    BY <1>1, <1>2, <1>3, <1>8 DEF Refused
  <1>9. CASE Verified(r)
    BY <1>2, <1>3, <1>4, <1>9 DEF Verified
  <1>10. CASE Swapped(r)
    <2>1. apply[r].to \in Versions \cup {None}
      BY <1>1 DEF ApplyRecords
    <2> QED
      BY <1>2, <1>3, <1>4, <1>10, <2>1 DEF Swapped
  <1>11. CASE Answered(r)
    BY <1>1, <1>2, <1>3, <1>11 DEF Answered
  <1> QED
    BY <1>5, <1>6, <1>7, <1>8, <1>9, <1>10, <1>11 DEF Applying, ApplyRefused, ApplyFails, SwapFails

LEMMA UpdaterTypeStep == UpdaterTypeOK /\ [UNext]_uvs => UpdaterTypeOK'
  <1> SUFFICES ASSUME UpdaterTypeOK, [UNext]_uvs PROVE UpdaterTypeOK'
    OBVIOUS
  <1>1. ASSUME NEW c \in Checkers, Checking(c) PROVE UpdaterTypeOK'
    BY <1>1, CheckingType
  <1>2. ASSUME NEW r \in Appliers, ApplyStart(r) \/ Applying(r) PROVE UpdaterTypeOK'
    BY <1>2, ApplyingType
  <1>3. CASE Relaunch \/ Stop
    <2>1. Relaunched /\ used' \in [releases : Nat, switches : Nat, stops : Nat]
      BY <1>3 DEF Relaunch, Stop, UpdaterTypeOK
    <2>2. check' \in [Checkers -> CheckRecords] /\ apply' \in [Appliers -> ApplyRecords]
      BY <2>1 DEF Relaunched, NoCheck, NoApply, CheckRecords, ApplyRecords
    <2> QED
      BY <2>1, <2>2 DEF Relaunched, UpdaterTypeOK, CheckRecords, ApplyRecords, Unknown
  <1>4. ASSUME NEW c \in Channels, SetChannel(c) PROVE UpdaterTypeOK'
    BY <1>4 DEF SetChannel, UpdaterTypeOK
  <1>5. ASSUME NEW v \in Versions, Released(v) PROVE UpdaterTypeOK'
    BY <1>5 DEF Released, UpdaterTypeOK
  <1>6. CASE UNCHANGED uvs
    BY <1>6 DEF uvs, UpdaterTypeOK
  <1> QED
    BY <1>1, <1>2, <1>3, <1>4, <1>5, <1>6 DEF UNext

\* The updater's variables have their types.
THEOREM UpdaterTypeCorrect == USpec => []UpdaterTypeOK
  <1> QED
    BY UpdaterTypeInit, UpdaterTypeStep, PTL DEF USpec

LEMMA GuardInit == UInit => GuardInv
  BY DEF UInit, GuardInv, Active, NoApply

\* Whoever is between the start of Apply and its swap is alone, and the binary is the one that runs.
LEMMA Alone ==
  ASSUME GuardInv, NEW r \in Appliers, apply[r].pc \notin {"idle", "done"}
  PROVE  applying /\ disk \in {running, None} /\ \A q \in Appliers \ {r} : apply[q].pc = "idle"
  BY DEF GuardInv, Active

LEMMA ApplyingGuard ==
  ASSUME UpdaterTypeOK, GuardInv, NEW r \in Appliers, ApplyStart(r) \/ Applying(r) PROVE GuardInv'
  <1>1. apply \in [Appliers -> ApplyRecords]
    BY DEF UpdaterTypeOK, ApplyRecords
  <1>2. running' = running /\ \A q \in Appliers \ {r} : apply'[q] = apply[q]
    BY <1>1 DEF ApplyStart, Applying, ApplyListed, ApplyResolved, ApplyRefused, ApplyFails, Verified, Swapped,
                SwapFails, Answered, Refused
  <1>3. CASE ApplyStart(r)
    <2>1. \A q \in Appliers : ~Active(q)
      BY <1>3 DEF ApplyStart, GuardInv
    <2>2. apply'[r].pc = "asks" /\ applying' /\ disk' = disk /\ disk \in {running, None}
      BY <1>1, <1>3 DEF ApplyStart, ApplyRecords, GuardInv
    <2> QED
      BY <1>2, <2>1, <2>2 DEF GuardInv, Active
  <1>4. CASE ApplyListed(r) \/ ApplyResolved(r) \/ Verified(r)
    <2>1. apply[r].pc \in {"asks", "listed", "download"} /\ disk' = disk /\ applying' = applying
      BY <1>4 DEF ApplyListed, ApplyResolved, Verified
    <2>2. applying /\ disk \in {running, None} /\ \A q \in Appliers \ {r} : apply[q].pc = "idle"
      BY <2>1, Alone
    <2>3. apply'[r].pc \in {"download", "swap"} => apply'[r].to \in Versions /\ apply'[r].to > running
      <3>1. CASE ApplyListed(r)
        BY <1>1, <3>1 DEF ApplyListed, ApplyRecords
      <3>2. CASE ApplyResolved(r)
        <4> DEFINE v == Newest(Applicable(apply[r].feed, channel))
        <4>1. apply'[r] = [pc |-> "download", feed |-> {}, to |-> v] /\ v \in Installable /\ Newer(v)
          BY <1>1, <3>2 DEF ApplyResolved
        <4> HIDE DEF v
        <4> QED
          BY <4>1, VersionsAssumption DEF Newer
      <3>3. CASE Verified(r)
        <4>1. apply'[r].to = apply[r].to /\ apply[r].pc = "download"
          BY <1>1, <3>3 DEF Verified, ApplyRecords
        <4> QED
          BY <4>1 DEF GuardInv
      <3> QED
        BY <1>4, <3>1, <3>2, <3>3
    <2> QED
      BY <1>2, <2>1, <2>2, <2>3 DEF GuardInv, Active
  <1>5. CASE Refused(r) /\ disk' \in {disk, None} /\ apply[r].pc \notin {"idle", "done"}
    <2>1. disk \in {running, None} /\ \A q \in Appliers \ {r} : apply[q].pc = "idle"
      BY <1>5, Alone
    <2>2. apply'[r].pc = "idle"
      BY <1>1, <1>5 DEF Refused, NoApply
    <2> QED
      BY <1>2, <1>5, <2>1, <2>2 DEF GuardInv, Active
  <1>6. CASE Swapped(r)
    <2>1. apply[r].pc = "swap" /\ applying' = applying /\ apply'[r].pc = "done"
      BY <1>1, <1>6 DEF Swapped, ApplyRecords
    <2>2. applying /\ \A q \in Appliers \ {r} : apply[q].pc = "idle"
      BY <2>1, Alone
    <2> QED
      BY <1>2, <2>1, <2>2 DEF GuardInv, Active
  <1>7. CASE Answered(r)
    <2>1. apply[r].pc = "done" /\ apply'[r].pc = "idle" /\ UNCHANGED <<applying, disk>>
      BY <1>1, <1>7 DEF Answered, NoApply
    <2> QED
      BY <1>2, <2>1 DEF GuardInv, Active
  <1> QED
    BY <1>3, <1>4, <1>5, <1>6, <1>7 DEF Applying, ApplyRefused, ApplyFails, SwapFails

LEMMA GuardStep == UpdaterTypeOK /\ GuardInv /\ [UNext]_uvs => GuardInv'
  <1> SUFFICES ASSUME UpdaterTypeOK, GuardInv, [UNext]_uvs PROVE GuardInv'
    OBVIOUS
  <1>1. ASSUME NEW r \in Appliers, ApplyStart(r) \/ Applying(r) PROVE GuardInv'
    BY <1>1, ApplyingGuard
  <1>2. CASE Relaunch \/ Stop
    <2>1. running' = disk' /\ \A r \in Appliers : apply'[r].pc = "idle"
      BY <1>2 DEF Relaunch, Stop, Relaunched, NoApply
    <2> QED
      BY <2>1 DEF GuardInv, Active
  <1>3. CASE UNCHANGED <<running, disk, applying, apply>>
    BY <1>3 DEF GuardInv, Active
  <1> QED
    BY <1>1, <1>2, <1>3 DEF UNext, Checking, Begin, Listed, Resolved, CheckFails, Recorded, SetChannel, Released, uvs

\* The binary is only ever replaced by a newer one: whatever is published, however the channel changes
\* and whoever asks in between.
THEOREM NeverOlderCorrect == USpec => NeverOlder
  <1>1. UpdaterTypeOK /\ GuardInv /\ [UNext]_uvs => [disk' # disk => disk' = None \/ disk' > disk]_disk
    <2> SUFFICES ASSUME UpdaterTypeOK, GuardInv, UNext, disk' # disk PROVE disk' = None \/ disk' > disk
      BY DEF uvs
    <2>1. PICK r \in Appliers : Applying(r)
      BY DEF UNext, Checking, Begin, Listed, Resolved, CheckFails, Recorded, ApplyStart, Relaunch, Stop, Relaunched,
             SetChannel, Released
    <2>2. CASE Swapped(r)
      <3>1. apply[r].pc = "swap" /\ disk # None /\ disk' = apply[r].to
        BY <2>2 DEF Swapped
      <3>2. disk = running /\ apply[r].to > running
        BY <3>1, Alone DEF GuardInv
      <3> QED
        BY <3>1, <3>2
    <2>3. CASE SwapFails(r)
      BY <2>3 DEF SwapFails
    <2> QED
      BY <2>1, <2>2, <2>3 DEF Applying, ApplyListed, ApplyResolved, ApplyRefused, ApplyFails, Verified, Answered
  <1>2. UInit => UpdaterTypeOK /\ GuardInv
    BY UpdaterTypeInit, GuardInit
  <1>3. (UpdaterTypeOK /\ GuardInv) /\ [UNext]_uvs => (UpdaterTypeOK /\ GuardInv)'
    BY UpdaterTypeStep, GuardStep
  <1> QED
    BY <1>1, <1>2, <1>3, PTL DEF USpec, NeverOlder

\* The guard is never left set by nobody, nor a swapped binary without a restart that brings it to run:
\* a failure clears the guard, and a success is answered, which triggers the restart.
THEOREM ApplyOwnedCorrect == USpec => []ApplyOwned
  <1>1. UInit => GuardOwned
    BY DEF UInit, GuardOwned
  <1>2. UpdaterTypeOK /\ GuardOwned /\ [UNext]_uvs => GuardOwned'
    <2> SUFFICES ASSUME UpdaterTypeOK, GuardOwned, [UNext]_uvs PROVE GuardOwned'
      OBVIOUS
    <2>1. ASSUME NEW r \in Appliers, ApplyStart(r) \/ Applying(r) PROVE GuardOwned'
      <3>1. apply \in [Appliers -> ApplyRecords]
        BY DEF UpdaterTypeOK, ApplyRecords
      <3>2. CASE Refused(r)
        BY <3>2 DEF Refused, GuardOwned
      <3>3. CASE Answered(r)
        BY <3>3 DEF Answered, GuardOwned
      <3>4. CASE ApplyStart(r) \/ ApplyListed(r) \/ ApplyResolved(r) \/ Verified(r) \/ Swapped(r)
        <4>1. CASE ApplyListed(r)
          BY <3>1, <4>1 DEF ApplyListed, ApplyRecords, GuardOwned
        <4>2. CASE ApplyResolved(r)
          <5> DEFINE v == Newest(Applicable(apply[r].feed, channel))
          <5>1. apply'[r] = [pc |-> "download", feed |-> {}, to |-> v]
            BY <3>1, <4>2 DEF ApplyResolved
          <5> QED
            BY <5>1 DEF GuardOwned
        <4>3. CASE ApplyStart(r) \/ Verified(r) \/ Swapped(r)
          BY <3>1, <4>3 DEF ApplyStart, Verified, Swapped, ApplyRecords, GuardOwned
        <4> QED
          BY <3>4, <4>1, <4>2, <4>3
      <3> QED
        BY <2>1, <3>2, <3>3, <3>4 DEF Applying, ApplyRefused, ApplyFails, SwapFails
    <2>2. CASE Relaunch \/ Stop
      BY <2>2 DEF Relaunch, Stop, Relaunched, GuardOwned
    <2>3. CASE UNCHANGED <<applying, apply, restart>>
      BY <2>3 DEF GuardOwned, Active
    <2> QED
      BY <2>1, <2>2, <2>3 DEF UNext, Checking, Begin, Listed, Resolved, CheckFails, Recorded, SetChannel, Released, uvs
  <1>3. UInit => UpdaterTypeOK /\ GuardInv
    BY UpdaterTypeInit, GuardInit
  <1>4. UpdaterTypeOK /\ GuardInv /\ [UNext]_uvs => (UpdaterTypeOK /\ GuardInv)'
    BY UpdaterTypeStep, GuardStep
  <1>5. GuardInv /\ GuardOwned => ApplyOwned
    BY DEF GuardInv, GuardOwned, ApplyOwned, Active
  <1> QED
    BY <1>1, <1>2, <1>3, <1>4, <1>5, PTL DEF USpec
=============================================================================
