----------------------------- MODULE ImageCache -----------------------------
(***************************************************************************)
(* The image proxy (internal/imgcache): requests that read images from the *)
(* disk or join a fetch of them, the flights that fetch and store, and the *)
(* cache manager, a goroutine that trims the directory to its cap when it  *)
(* is kicked and on a periodic tick.                                       *)
(*                                                                         *)
(* The directory is all there is: no total is kept in memory.  A file is   *)
(* an image or the temporary file of an atomic write, which the manager    *)
(* finds in the same directory.                                            *)
(***************************************************************************)
EXTENDS Integers

CONSTANTS
  Images, Requests,
  Files, Img(_), Tmp(_),  \* what can be in the directory; the file of an image, and of its write
  Bytes,                  \* Bytes[S]: the size of a set of files
  Caps,                   \* values of image.cache.max_size_mb; 0 is no limit
  Never,                  \* no image
  MaxResizes,             \* bound: changes of the cap
  MaxFailures             \* bound: removals, and readings of the directory, that fail

ASSUME FilesAssumption ==
  /\ \A i \in Images : {Img(i), Tmp(i)} \subseteq Files
  /\ Never \notin Images
ASSUME CapsAssumption == Caps \subseteq Nat
\* What a directory holds is the sum of its parts.
ASSUME BytesAssumption ==
  /\ Bytes \in [SUBSET Files -> Nat]
  /\ \A S, U \in SUBSET Files : S \cap U = {} => Bytes[S \cup U] = Bytes[S] + Bytes[U]

VARIABLES
  cached,    \* the files in the directory
  cap,       \* cache.maxBytes
  kick,      \* the buffered channel holds a kick
  armed,     \* the debounce timer runs
  manager,   \* where cache.run and sweep are
  flight,    \* the fetch of an image: Proxy.group
  asks,      \* a request: its image, and what it waits for
  setting,   \* setMax has stored a cap and not yet kicked the manager
  spent      \* how much of each bound is used

ivars == <<cached, cap, kick, armed, manager, flight, asks, setting, spent>>

Resting == [pc |-> "rest", max |-> 0, left |-> {}, seen |-> {}, failed |-> FALSE]
NoAsk   == [pc |-> "idle", image |-> Never]

\* newCache() over a directory as an earlier run left it; run() begins with a sweep.
IInit ==
  /\ cached \in SUBSET {Img(i) : i \in Images}
  /\ cap \in Caps /\ kick = FALSE /\ armed = FALSE /\ setting = FALSE
  /\ manager = [Resting EXCEPT !.pc = "sweep"]
  /\ flight = [i \in Images |-> "none"]
  /\ asks = [r \in Requests |-> NoAsk]
  /\ spent = [resizes |-> 0, failures |-> 0]

Notified == kick' = TRUE

-----------------------------------------------------------------------------
(* Serve                                                                   *)

\* os.Open finds nothing. A hit changes nothing here: it is served from the open file, which survives
\* its removal, and at most makes the file a younger one.
Miss(r, i) ==
  /\ asks[r] = NoAsk /\ Img(i) \notin cached
  /\ asks' = [asks EXCEPT ![r] = [pc |-> "missed", image |-> i]]
  /\ UNCHANGED <<cached, cap, kick, armed, manager, flight, setting, spent>>

\* group.Do: the first to come starts the flight, the others join it.
Join(r) ==
  /\ asks[r].pc = "missed"
  /\ asks' = [asks EXCEPT ![r].pc = "waits"]
  /\ flight' = [flight EXCEPT ![asks[r].image] = IF @ = "none" THEN "fetch" ELSE @]
  /\ UNCHANGED <<cached, cap, kick, armed, manager, setting, spent>>

\* Do returns, with the result or the error, to all who wait for it.
Landed(i) ==
  /\ flight' = [flight EXCEPT ![i] = "none"]
  /\ asks' = [r \in Requests |-> IF asks[r] = [pc |-> "waits", image |-> i] THEN NoAsk ELSE asks[r]]

-----------------------------------------------------------------------------
(* fetchAndStore                                                           *)

\* The request fails, or the image is too large.
FetchFails(i) ==
  /\ flight[i] = "fetch" /\ Landed(i)
  /\ UNCHANGED <<cached, cap, kick, armed, manager, setting, spent>>

\* atomicfile.Write, up to the rename.
WriteTemp(i) ==
  /\ flight[i] = "fetch"
  /\ flight' = [flight EXCEPT ![i] = "temp"]
  /\ cached' = cached \cup {Tmp(i)}
  /\ UNCHANGED <<cap, kick, armed, manager, asks, setting, spent>>

\* The rename; it fails when a sweep has removed the temporary file.
Rename(i) ==
  /\ flight[i] = "temp" /\ Tmp(i) \in cached
  /\ flight' = [flight EXCEPT ![i] = "stored"]
  /\ cached' = (cached \ {Tmp(i)}) \cup {Img(i)}
  /\ UNCHANGED <<cap, kick, armed, manager, asks, setting, spent>>

\* A failing write is no failure of the request: the bytes are in memory.
WriteFails(i) ==
  /\ \/ flight[i] = "fetch" \/ flight[i] = "temp"
  /\ cached' = cached \ {Tmp(i)} /\ Landed(i)
  /\ UNCHANGED <<cap, kick, armed, manager, setting, spent>>

\* Slip: tells nobody that the directory has grown.
StoreQuietly(i) ==
  /\ flight[i] = "stored" /\ Landed(i)
  /\ UNCHANGED <<cached, cap, kick, armed, manager, setting, spent>>

\* notify(), and the answer.
Store(i) ==
  /\ flight[i] = "stored" /\ Notified /\ Landed(i)
  /\ UNCHANGED <<cached, cap, armed, manager, setting, spent>>

-----------------------------------------------------------------------------
(* The cache manager                                                       *)

Sweeping == manager' = [Resting EXCEPT !.pc = "sweep"]

\* The ticker of run().
Tick ==
  /\ manager.pc = "rest" /\ Sweeping
  /\ UNCHANGED <<cached, cap, kick, armed, flight, asks, setting, spent>>

\* A kick arms the debounce timer; further ones fold into it.
Kicked ==
  /\ manager.pc = "rest" /\ kick
  /\ kick' = FALSE /\ armed' = TRUE
  /\ UNCHANGED <<cached, cap, manager, flight, asks, setting, spent>>

Debounced ==
  /\ manager.pc = "rest" /\ armed
  /\ armed' = FALSE /\ Sweeping
  /\ UNCHANGED <<cached, cap, kick, flight, asks, setting, spent>>

\* sweep(): the cap, which is none when it is 0.
ReadCap ==
  /\ manager.pc = "sweep"
  /\ manager' = IF cap > 0 THEN [manager EXCEPT !.pc = "list", !.max = cap] ELSE Resting
  /\ UNCHANGED <<cached, cap, kick, armed, flight, asks, setting, spent>>

\* The temporary files that are being written.
Temps == {Tmp(i) : i \in {k \in Images : flight[k] = "temp"}}

\* A file that is written or renamed while the directory is listed may be left out.
Elusive == Temps \cup {Img(i) : i \in {k \in Images : flight[k] = "stored"}}

\* The directory; nothing to do up to the cap.
List ==
  /\ manager.pc = "list"
  /\ \E missed \in SUBSET (Elusive \cap cached) :
       LET seen == cached \ missed
       IN manager' = IF Bytes[seen] <= manager.max THEN Resting
                     ELSE [manager EXCEPT !.pc = "trim", !.left = seen, !.seen = seen]
  /\ UNCHANGED <<cached, cap, kick, armed, flight, asks, setting, spent>>

\* os.ReadDir fails: nothing is trimmed.
ListFails ==
  /\ manager.pc = "list" /\ spent.failures < MaxFailures
  /\ manager' = [Resting EXCEPT !.failed = TRUE]
  /\ spent' = [spent EXCEPT !.failures = @ + 1]
  /\ UNCHANGED <<cached, cap, kick, armed, flight, asks, setting>>

LowWater(max) == (max * 9) \div 10

Trimming == manager.pc = "trim" /\ manager.left # {} /\ Bytes[manager.seen] > LowWater(manager.max)

\* os.Remove, by path, of the oldest file that is left; which one that is, no property asks.
Trim(f) ==
  /\ Trimming /\ f \in manager.left \cap cached
  /\ cached' = cached \ {f}
  /\ manager' = [manager EXCEPT !.left = @ \ {f}, !.seen = @ \ {f}]
  /\ UNCHANGED <<cap, kick, armed, flight, asks, setting, spent>>

\* It is gone already, or in use where that protects it: its size stays in the total.
TrimFails(f) ==
  /\ Trimming /\ f \in manager.left
  /\ \/ f \notin cached /\ UNCHANGED spent
     \/ f \in cached /\ spent.failures < MaxFailures /\ spent' = [spent EXCEPT !.failures = @ + 1]
  /\ manager' = [manager EXCEPT !.left = @ \ {f}, !.failed = @ \/ f \in cached]
  /\ UNCHANGED <<cached, cap, kick, armed, flight, asks, setting>>

TrimEnds ==
  /\ manager.pc = "trim" /\ ~Trimming
  /\ manager' = [Resting EXCEPT !.failed = manager.failed]
  /\ UNCHANGED <<cached, cap, kick, armed, flight, asks, setting, spent>>

-----------------------------------------------------------------------------
(* Proxy.Reload, under the lock of the configuration manager               *)

SetMax(c) ==
  /\ ~setting /\ spent.resizes < MaxResizes
  /\ cap' = c /\ setting' = TRUE
  /\ spent' = [spent EXCEPT !.resizes = @ + 1]
  /\ UNCHANGED <<cached, kick, armed, manager, flight, asks>>

SetNotify ==
  /\ setting /\ setting' = FALSE /\ Notified
  /\ UNCHANGED <<cached, cap, armed, manager, flight, asks, spent>>

-----------------------------------------------------------------------------
Flight(i) == FetchFails(i) \/ WriteTemp(i) \/ Rename(i) \/ WriteFails(i) \/ Store(i)
Manages   == Tick \/ Kicked \/ Debounced \/ ReadCap \/ List \/ ListFails \/ TrimEnds
             \/ \E f \in manager.left : Trim(f) \/ TrimFails(f)

INext ==
  \/ \E i \in Images : Flight(i)
  \/ \E r \in Requests : Join(r) \/ \E i \in Images : Miss(r, i)
  \/ Manages
  \/ SetNotify \/ \E c \in Caps : SetMax(c)

ISpec == IInit /\ [][INext]_ivars

-----------------------------------------------------------------------------
(* Properties                                                              *)

Within  == cap = 0 \/ Bytes[cached] <= cap
Writing == \E i \in Images : flight[i] \in {"temp", "stored"}

\* A directory over its cap is on the way to be trimmed: the manager has been kicked, waits for the
\* timer or sweeps, or whoever made it so is about to kick. No kick is lost between a write or a
\* lowered cap and a sweep that has read the directory or the cap before it. When a file could not
\* be removed, or the directory not be read, only the tick is left (cache.go: run, notify, sweep).
CapWatched ==
  ~Within => \/ kick \/ armed \/ setting \/ Writing
             \/ manager.pc \in {"sweep", "list", "trim"} \/ manager.failed

\* The state the other properties are about.
ImageTypeOK ==
  /\ cached \in SUBSET Files
  /\ cap \in Caps /\ kick \in BOOLEAN /\ armed \in BOOLEAN /\ setting \in BOOLEAN
  /\ manager \in [pc : {"rest", "sweep", "list", "trim"}, max : Caps \cup {0}, left : SUBSET Files,
                   seen : SUBSET Files, failed : BOOLEAN]
  /\ flight \in [Images -> {"none", "fetch", "temp", "stored"}]
  /\ asks \in [Requests -> [pc : {"idle", "missed", "waits"}, image : Images \cup {Never}]]
  /\ spent \in [resizes : Nat, failures : Nat]

-----------------------------------------------------------------------------
(* Why CapWatched holds                                                    *)

\* Somebody has told the manager to sweep, or is about to.
Owed == kick \/ armed \/ setting \/ \E i \in Images : flight[i] = "stored"

\* When nobody does, what a sweep works with is still true: it has the cap, and every file is one that
\* it listed and, but for a removal that failed, has still before it; and a manager at rest has left
\* the directory within its cap.
SweepInv ==
  /\ ~Owed =>
       /\ manager.pc = "rest" /\ ~manager.failed => cap = 0 \/ Bytes[cached \ Temps] <= cap
       /\ manager.pc \in {"list", "trim"} => manager.max = cap
       /\ manager.pc = "trim" =>
            /\ cached \ Temps \subseteq manager.seen
            /\ ~manager.failed => cached \ Temps \subseteq manager.left
  /\ manager.pc \in {"list", "trim"} => manager.max > 0
  /\ manager.pc \in {"sweep", "list"} => ~manager.failed
=============================================================================
