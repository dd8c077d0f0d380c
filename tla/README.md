# PixivBiu: a TLA+ model of the core, the desktop shell and the web client

PixivBiu is a local web application: a Go server (the core) that talks to the Pixiv
API, downloads works, and serves a React client, optionally inside an Electron shell.
This directory holds TLA+ modules that model the concurrent and stateful parts of all
three, the TLC configurations that check them, and proofs checked by TLAPS.

## 1. Inventory

Sources are named relative to `src/`. "Hard" lists what a test would hardly reach;
the full list, with lines, is under "hazards" in `PROJECT.json`.

| Component | State | Operations | Hard | Module |
| --- | --- | --- | --- | --- |
| Download manager, `internal/download` | jobs, tasks, insertion order, queue channel, worker pool, cancel contexts; the job index on disk; the output directory | Submit, Cancel, Remove, RemoveTerminal, Start, Shutdown; each worker: lease, fetch with retries, convert, sidecar, finalize | every state change is one short lock, with network, disk and events between; two jobs of one name; crash at any step | `DownloadManager` |
| Download publisher, `internal/download/publisher.go` | last progress tick of each task | StateChange, Progress, Deleted | events leave after the lock is released | `DownloadManager` |
| Event hub and SSE, `internal/inbox` | ring of recent events, subscribers with a bounded channel each | Publish, Subscribe, drop, Shutdown, ServeSSE | publishers deliver concurrently; slow clients; replay after reconnect | `EventHub` |
| Pixiv service, `internal/pixiv`, `internal/state` | token, session-expired flag, API client, token file, PKCE attempts | Login, Logout, Reload, periodic refresh, calls with one retry after refresh | refresh against logout and reload; save failing after the token is live | `PixivSession` |
| Desktop shell, `desktop/src` | child process, attempts, port, window, update state | start, stop, exit handling, check, download, install, three ways to quit | exit against quit against start; an installer that takes the quit over and fails | `CoreSupervisor`, `UpdateController`, `Desktop` |
| Web client's event stream, `frontend/.../features/events` | connection, connected flag | open, reconnect, refetch | a gap nobody tells of | `EventClient` |
| Web client's download mirror, `.../features/downloads` | tracked jobs, session, lookups, submissions | refresh, patch, sweep, submit | answers of an old session; events before their list | `DownloadMirror` |
| Downloads page, `use-downloads-page.ts` | filter, rows, epoch, debounce | refetch, patch, filter | overtaken answers | `DownloadsPage` |
| Selection batches, `selection-state.ts` | selection, lock, running batches | select, submit, cancel, replace the list | a batch that outlives its list | `SelectionBatch` |
| Bookmark editing, `use-illust-bookmark.ts`, `bookmark-tag-writer.ts` | cached detail, mutation, tag writer | toggle, choose tags, refetch | a request whose answer is lost; choices made while one is written | `BookmarkEdit` |
| Numbered lists, `pagination.ts`, `page-frontier.ts`, `user-page.tsx` | what is known of a list's end, cached pages | go, record, walk, clamp, prefetch | lists that grow, shrink or promise too much | `Pager` |
| Update panel, `update-provider.tsx` | last snapshot, flags of calls | read, receive, check, apply, restart | snapshots and answers out of order | `UpdatePanel` |
| Viewer stage, `illust-viewer/` | wanted page, shown frame, candidate | turn, retry, ready, fail, refresh | images that load, decode or fail late | `ViewerStage` |
| Kept pages, `app/keep-alive`, `section-memory.tsx` | mounted pages, scroll offsets, cached data, last URL of each section | navigate, scroll, expire, evict | a late scroll event; data collected behind a page | `KeptPages` |
| Configuration, `internal/config` | settings file, live snapshot, what the process started with | Patch, Reset, reload hooks, View | a change cut off between save, swap and hooks; defaults that differ from build to build | `Settings` |
| Image proxy cache, `internal/imgcache` | a directory of files, flights, a pending kick, the debounce timer | Serve, fetch and store, sweep, Reload | kicks that coalesce with a sweep in progress; a sweep among writes; removals that fail | `ImageCache` |
| Updater, `internal/update` | cached status, single-flight guard, the binary on disk | Check, Apply, Reload, restart | a second request after the swap; releases and channel change under a check | `Updater` |
| HTTP API, process, atomic file writer | none of their own | handlers over the services; serve, stop, restart; rename | order of stop, drain, shutdown (part of `DownloadManager`) | none |

Interactions. The API's handlers call the manager, the service and the configuration
from one goroutine per request. The manager calls the Pixiv client, writes the output
directory and the index, and publishes to the hub; the hub feeds one SSE goroutine per
connected client; the client patches what it shows from events and refetches lists after
a resync. `cmd/server` cancels the context of the workers when it is asked to stop,
drains the HTTP server, and then calls `Manager.Shutdown`. The desktop shell sees the
core as a child process that prints a marker, answers a health request, and exits with a
code; its update controller stops the core before it hands the quit to the installer, and
sends snapshots to the page it shows.

What makes each correct:

- *manager*: a task runs once, is never stranded, settles once; a job's status is the
  aggregate of its tasks; a failed or cancelled job leaves no file; no job touches
  another's file or the user's; a cancelled job stays cancelled; a restart loses
  nothing; shutdown completes; what clients hear last is true.
- *hub*: a connected client never misses an event unknowingly, gets none twice, and
  never holds up a publisher or the shutdown.
- *service*: only the user changes the account; a retried call runs as the account it was
  made for; at rest memory, client and file agree.
- *shell*: never two cores, none after it let go of the data directory; the installer runs
  alone; the window and the update snapshot say what is so; a quit ends.
- *configuration*: outside a change, file, live snapshot and services agree; no choice of the user is
  lost; what was saved starts again.
- *image cache*: a directory over its cap is on the way to be trimmed.
- *updater*: the binary is only replaced by a newer one, and a swap has its restart coming.
- *web client*: an answer counts only for the session, list, epoch, batch or snapshot it
  was asked for; once nothing is on its way, what is shown is what the core, Pixiv or the
  shell has; a page that comes back is as it was left.

## 2. Plan

| # | Module | Models | State |
| --- | --- | --- | --- |
| 1 | `DownloadManager`, `DownloadProperties` | manager, publisher, crash, boot, output directory | done |
| 2 | `DownloadSettleProofs`, `DownloadCleanProofs`, `DownloadPathProofs` | proofs about 1 | done |
| 3 | `EventHub`, `HubProperties`, `EventClient` | hub, SSE goroutine, reconnecting EventSource, the client's refetch | done |
| 4 | `HubProofs` | proofs about 3 | done |
| 5 | `CoreLease`; `CoreSupervisor`, `UpdateController`, `Desktop`, `DesktopProperties` | an abstract lease on the data directory, implemented by the shell (refinement) | done |
| 6 | `DesktopProofs` | proofs about 5, the refinement included | done |
| 7 | `JobFeed`, `DownloadMirror`, `DownloadsPage` | the core's jobs as their clients see them, and two clients of them | done |
| 8 | `SelectionBatch`, `BookmarkEdit`, `Pager`, `UpdatePanel`, `ViewerStage`, `KeptPages`; `WebClient`, `WebProperties` | the other stateful parts of the web client; `UpdatePanel` composes with `UpdateController` | done |
| 9 | `WebProofs` | proofs about 7 and 8 | done |
| 10 | `PixivSession`, `SessionProofs` | session, proofs | done |
| 11 | `ImageCache`, `Settings`, `Updater`, `CoreServices` | flights and sweep; layers, save and reload; check, apply and restart; the five services of the core side by side | done |
| 12 | `ServiceProofs` | proofs about 11 | done |
| 13 | `StorePersist` | a failing save of the job index | not done, see section 6 |

Worth proving next: `ForeignSidecarKept` with cancels in the first run of the process, where
every recorded sidecar is on disk or already on its way out.

## 3. What the modules model

A definition marked "Slip" in a module is a wrong variant of the definition after it; no
action uses it. Putting it in the place of the right one shows that a property notices
the bug.

### DownloadManager

One action is one critical section of `Manager.mu` together with the local work
around it, so every point where another goroutine can come in between is a state.
The variables:

| Variable | Code |
| --- | --- |
| `up`, `stopping` | the process runs; the context given to `Start` is cancelled |
| `index`, `jobStatus`, `task` | `Manager.jobs`, `Job.Status`, the `Task` records: `status`, collision `suffix` of the stem, `ext` (`.zip` first for an animation), `wrote` (`WroteFile`), `wroteMeta` (`WroteMeta`) |
| `queue`, `sending` | the channel; what each `enqueueAsync` goroutine has still to send |
| `wk` | a worker: where it is in `executeTask`, its task, the attempt, the result, what it is about to delete and to publish |
| `submit`, `cancel`, `removing` | the handlers in progress, where each stands between its lock, its save, its deletions and its event |
| `disk` | the output directory: path to the task that wrote the file there, or the user |
| `store` | the persisted index, as the last save left it |
| `taskNews`, `jobNews` | the last event published about each task and job |
| `acked`, `used` | history: cancels that returned; how much of each bound is spent |

Actions, by the code they translate: `SubmitInsert`, `SubmitFinish` (Submit: resolve
collisions and insert under the lock; save, then hand the tasks to a goroutine);
`Send`, `SendAbort` (that goroutine); `CancelLock`, `CancelPersist`, `CancelFinish`
(Cancel: settle under the lock and cancel the contexts; save; delete and publish);
`Remove`, `RemoveTerminal`, `RemoveFinish`; `Lease`, `AnnounceStart` (leaseTask); the
`Reuse...` actions (reuseMedia); the `Fetch...`, `Backoff`, `Interrupted`, `Commit` and
`DropFile` actions (runDownloadWithRetries, httpDownload); `ConvertBegin`, `Encode...`,
`DecodeFail`, `Accept` (runUgoiraPostProcessing, convertUgoira, ConvertUgoira); the
`Meta...` actions (metadata.go); `AnnounceEnd`, `FinalizeTask`, `FinalizeJob`,
`FinishTask` (finalizeTask); `WorkerExit`; `Stop`, `Shutdown` (the run context, and
`Manager.Shutdown` once HTTP handlers have drained); `Crash`; `Boot` (Start: load,
reset running tasks to queued, resolve collisions of what has no file yet, enqueue);
`UserDeletes`, `UserPlaces` (the user in the output directory).

Abstractions, each chosen so that no property depends on what it hides:

- A path is a stem (name, collision suffixes), an extension and whether it is the
  sidecar. Two tasks have the same stem exactly when their templates render to the
  same text. Template rendering, sanitising and clamping are not modelled.
- Bytes, sizes, progress and the `.part` file are not modelled; a fetch is the body,
  then the rename. `executeTask`'s branch for media already complete at lease time is
  unreachable for an image (its file is recorded in the step that settles it) and part of
  the conversion's own path for an animation.
- A save of the index is one step (`saveMu`, atomic rename) and succeeds.
- `reuseMedia`'s "not a regular file" is left out; a stat that fails is `ReuseFails`.
- A Submit that fails before its critical section changes nothing and is not an action.
- `UserPlaces` never replaces a file the manager is writing at that moment:
  `metadata.go:63-66` excludes it ("another process replacing a path concurrently is
  not supported").
- The walk of a boot follows `SortedJobs` (creation time, not insertion), given by the
  constant `Rank`.

### DownloadProperties

The properties of section 4 and the inductive invariants of the proofs.

### EventHub, HubProperties

One action is one critical section of `Hub.mu` or of a subscriber's `sendMu`, or one frame
written to a client. `ring` and `count` are the code's array and counter; `subs`, `down`,
`closing` are `Hub.subs`, `Hub.closed` and what `Shutdown` has still to close; `pub` is a
`Publish` in progress (its event, the snapshot of targets it has still to deliver to, and
the subscriber it has to remove); `chan` and `shut` are a subscriber's channel and flag;
`conn` is a `GET /events` request: its handler, the connection, the backlog still to write,
and as history what reached the client; `last` is the ID EventSource would send; `log` is
the history of all events. Actions: `Publish`, `Deliver`, `RemoveDropped` (Publish, deliver,
removeSub), `Subscribe` (with `snapshotSinceLocked`), `WriteBacklog`, `Forward`, `Leave`,
`RemoveSub` (ServeSSE and drop), `ShutdownLock`, `ShutdownClose`, and what the outside does:
`Lose` (a connection) and `Restart` (the core, with an empty ring and fresh IDs).

An ID is only compared for equality, so it is drawn in the step that enters the ring, and
a resync frame has one that no ring holds. Payloads, timestamps and keepalives are left out.
The download publisher uses one topic only; the model has two, as the filter of the hub does.
`Relevant` is the loop of `snapshotSinceLocked` that keeps, in order, what a client asked for.

### EventClient

The web client over `EventHub`: every step of the hub, and with it what the client does.
`connected` is the provider's flag, `refetch` says that a refetch of the lists is due, and
`known` holds the events whose effect the client shows. A refetch returns the server's
state, hence the effect of all events so far.

### PixivSession

`token`, `expired`, `client`, `file` are the service's fields, the token inside the API
client in use, and the state file. `refreshMu` serialises every change of the session;
`op` is what its holder has done so far (by whom, at which step, with which refresh
token), so the field is free exactly when the mutex is. A refresh is four steps:
authenticate, publish to memory and client, save, and the answer; a logout clears memory,
client and file one after the other; `Reload` rebuilds the client at any moment, also in
the middle of a refresh; `Reboot` reads the file. `calls` are the requests that call
Pixiv: each captures the token, sends with the client, may be denied, waits for
`refreshMu` and decides whether it may refresh and retry. The first refresh of `Start` is
taken by the refresh loop. Expiry times, the OAuth exchange with its PKCE attempts and the
endpoints are left out. A save that fails after the token is live gives the caller an
error although the session changed (`service.go:354`); both outcomes of a save are in the
model, and the properties speak of the file only when its last write succeeded.

### ImageCache

`cached` is the directory, as the set of files in it: the images and the temporary files of writes in
progress. `cap`, `kick`, `armed` are `maxBytes`, the buffered channel and the debounce timer;
`manager` is where the goroutine of `run` stands, with what a sweep has read; `flight` is the single
flight of each image, `asks` a request that missed. Actions: `Miss`, `Join`, `Landed` (Serve and
`group.Do`); `FetchFails`, `WriteTemp`, `Rename`, `WriteFails`, `Store` (fetchAndStore, the two halves
of `atomicfile.Write`, `notify`); `Tick`, `Kicked`, `Debounced` (run); `ReadCap`, `List`, `ListFails`,
`Trim`, `TrimFails`, `TrimEnds` (sweep); `SetMax`, `SetNotify` (Reload).

What a set of files weighs is the constant `Bytes`. A listing may leave out a file that is written or
renamed meanwhile (`Elusive`). Which file is the oldest is left open, so the properties hold of every order
of removal. A directory that cannot be read ends a sweep without another look until the next kick or tick
(`ListFails`). A hit changes at most a modification time and is not an action: it is served from the open
file. A temporary file that a crash left behind is a file of the directory like another, and the model
starts without one. The HTTP client that a reload rebuilds is left out.

### Settings

`saved` is `settings.json`, `live` and `began` are `effView` and `effSnap`, `change` is the patch or reset
that holds `Manager.mu`, with what it is about to save, `applied` the configuration each service works
with. A layer is a function of the keys it sets. Actions: `Patch`, `ResetKeys`, `ResetAll` with
`Accepts` (validation), `Save`, `SaveFails`, `Swap`, `HookDone`, `HookFails`, `Return`
(validateAndPersist, applyLive); `View` (buildView, which changes nothing); `Ends` and `Starts` (the
process, as any build and under any variables). A start that is refused does not happen.

The validators, `Config.validate` among them, are the set `Invalid` of configurations that they
refuse; none looks at the channel. The channel is the one key whose default depends on the build. A
hook fails only when it has something to change. Masks, sources and the parsing of variables are left
out, and so is an edit of the file while the core runs. `chosen` is history: what the user has set and not
reset.

### Updater

`feed` is the list of releases, `running` and `disk` are the version of the process and of the binary
at its path, `status` the cached result, `check` and `apply` the calls in progress, `applying` the guard.
Actions: `Begin`, `Listed`, `Resolved`, `CheckFails`, `Recorded` (Check: the releases, then the channel,
then the status under the lock); `ApplyStart` to `SwapFails` (Apply); `Answered` (the handler, which
triggers the restart); `Relaunch`, `Stop` (the process); `SetChannel` (Reload); `Released`. A release is
its version, with its maturity and whether it has what an installation needs as constants (`Rank`,
`Installable`). The swap by the library is one step, which may fail with the old binary in place or with
none. Development builds, which never offer nor apply anything, release notes and archive formats are
left out.

### CoreServices

The hub, the session, the image proxy, the configuration manager and the updater side by side. They
share no state. The manager's hooks are calls into the others, and each of the others takes a reload
as a step of its own, at any moment (`Reload`, `SetMax`, `SetChannel`), so `service`, drawn at the start,
says which one moves while the others rest in one state each: a property of a service that holds there
holds of any interleaving of them. In `Settings` a service is only what it works with.

### CoreLease, CoreSupervisor, UpdateController, Desktop

`CoreLease` is the abstract specification: the data directory has at most one core, and
the shell lets go of it only when none is left. `DesktopProperties` maps it onto the
shell (`cores <- alive`, `held <- ~quitReady`).

`CoreSupervisor` is `core-supervisor.ts` with every await a step of its own: `start()` as
one launch of at most three tries (retire the old attempt, reserve a port, await
readiness, clean up), `stop()` and `terminate()` (ask, wait, kill, wait), and the events of
the child in between: exit with each of its meanings, closing pipes, the handshake, the
health answer. `UpdateController` is `update-controller.ts`: `check()`, `download()` and
`restartAndInstall()`, the snapshot sent to the page, the publication that is dropped while
the application closes, and the quit that is called off. `Desktop` is `main.ts`: one
window, its page, and the three ways to quit that share one `prepareQuit()`, composed with
the other two.

Abstractions: the snapshot state "rest" stands for idle, not available, available and
error; which file is cached is a yes or no to its verification; leaving after an
unprevented `before-quit` is one step; `whenReady` has run at the start. After a `stop()`
that failed the supervisor's `quitting` stays set, as in the code, so the retry link of
the failure page does nothing until the next close (`core-supervisor.ts:262`). The class of
a failure, the diagnostics, the OAuth window and the older one-phase install are left out.

### The web client: JobFeed to KeptPages

JavaScript runs one callback at a time, so an action is one callback, effect or continuation
after an await, and everything in between may come in any order.

- `JobFeed` is the core as the client sees it: the jobs of an illustration with their
  levels, the lists it answers with, the events it sends. A job goes from level to level, or is
  cancelled before its task is done and tells of the task and of itself. An event is sent in the
  step of the change: a client that hears of it later only asks later. `DownloadMirror` and
  `DownloadsPage` both extend it.
- `DownloadMirror`: sessions as React commits them, the effects that run later, the two list
  requests of a refresh, lookups, coalesced submissions and the store's entry.
- `DownloadsPage`: filter, epoch of the newest refetch, debounce, rows.
- `SelectionBatch`: the store of a selection and the batches that run on when the list is
  replaced, disabled or left.
- `BookmarkEdit`: the cached detail, the mutation with optimistic write, rollback and
  refetch, and the writer that saves one selection of tags at a time. The key of a mutation and of
  a detail holds the account, so the mutation that a session leaves behind is not followed.
- `Pager`: the frontier learned from each page, the pager made of it, the walk of a bookmark
  list towards a page whose cursor is unknown, the clamp, prefetch on intent, refreshes. The
  page that is fetched and its data are what the query's observer watches: a change of either is
  rendered and makes the effects that depend on them run again (`Remembered`).
- `UpdatePanel`: the two-phase bridge, over `UpdateController`: the first read, which may fail, and
  the snapshots, which the shell may also send with nothing new but an error or progress; how the
  shell quits is left to `Desktop`.
- `ViewerStage`: the reducer of the stage, whose state runs ahead of the frames that are
  mounted, and the load and decode of each image.
- `KeptPages`: `nextKeepAliveState()`, the scroller that all pages share with the late scroll
  event, the collection of unobserved query data, the memory of each section and the
  sidebar. A navigation is one step, since React renders, commits and runs the layout
  effects before the next event. Setting the scroller to a page's offset fires a scroll event of
  its own; it writes the offset that is there and is left out. `left` is history: the offset a
  page was left at.

`WebClient` puts them side by side. They share no state, so `part`, drawn at the start,
says which one moves while the others rest in one state each; a property of a part that
holds there holds of any interleaving of them.

Left out: byte progress, counts, messages and layout throughout; the older one-phase update
bridge and the polling of the server's self-update; the zoom layer, thumbnails, keyboard
ownership and the delayed loading indicator of the viewer (a key step is a turned page); a
page's own refresh; the visibility of a bookmark.

### MC modules

`MCPool`, `MCRestart`, `MCCrash`, `MCEdits`: which task belongs to which job, which names
coincide, which jobs are animations. `MCHub`, `MCClient`: one browser tab that asks for one
of two topics and may connect twice, two publishers; in `MCHub` also the session with two
accounts, the sizes of two images, the defaults and what the validators refuse, the maturity of
four releases. `MCDesktop`: two process IDs, one of which is free whenever a core starts.
`MCWeb`: the works, lists and URLs of the web client. They define constants
only; `BootOrder.cfg`, `StaleDelete.cfg`, `StaleStarted.cfg`, `SilentGap.cfg` and
`WalkLoops.cfg` are further configurations.

## 4. Runs

| Run | Instance | Checks |
| --- | --- | --- |
| `dl_pool` | 2 jobs of one artwork (2 pages and 1, one name shared), 2 workers, queue of 1, both cancellable | `NeverTwice`, `JobStatusSettles`, `TransactionalCleanup`, `LastTaskNews` |
| `dl_restart` | an animation with a sidecar and a work of the same name and format, one orderly stop and boot, fairness | `LivePathsDisjoint`, `OwnedMediaIsMine`, `CompletedFilesStay`, `DrainedStore`, `ShutdownCompletes` |
| `dl_crash` | an animation with a sidecar and an image, a crash and a stop at any step, one cancel | `NoStrandedTask`, `CancelDurable`, `StoredSettledForever` |
| `dl_edits` | one animation with a sidecar, a retry, cancel, remove, stop, two edits by the user, fairness | `ForeignSidecarKept`, `JobsSettle` |
| `core_services` | hub: 2 publishers, 3 events, a ring of 2, channels of 1, two connections, one restart; session: 2 accounts, 1 request, 4 tokens, one rebuilt client, one restart; images: 2, of size 1 and 2, with their temporary files, 2 requests, a cap of 2 or none with one change, 2 removals or listings that fail; settings: 4 keys (the channel, a proxy with a value that a validator refuses, a pinned and hidden one, a pinned and internal one), 3 values, 2 builds, a variable set or not, 2 services of which one may fail, 2 changes, one restart; updates: 4 releases (a beta, one that cannot be installed), 2 channels, the loop and 2 requests to apply, one release published, one switch, one stop | `LiveExactlyOnce`, `ReplayExact`, `NoDeadSubscriber`, `NoStreamHoldsTheDrain`, `RetriesAsSelf`, `SessionInStep`, `CapWatched`, `SettingsHold`, `AccountHeld`, `NeverOlder` |
| `desktop` | two process IDs, three tries per launch, both platforms' close behaviour, unbounded quits, checks and installations, fairness | `InstallerRunsAlone`, `ShownIsTrue`, `SnapshotBacked`, `OneCoreLease` (refinement), `QuitSettles`, `LaunchSettles` |
| `web` | the eight parts of the web client, see Bounds | `SessionScoped`, `PageFollows`, `CacheConverges`, `LastChoiceWins`, `LockHeld`, `PagerHonest`, `PanelFollows`, `StageHonest`, `KeptAsLeft`, `ModeStaysLeft` |
| `dl_stale_delete` | as `dl_pool` | violates `CompletedFilesStay` |
| `dl_stale_started` | as `dl_pool` | violates `NoStaleRunning` |
| `dl_boot_order` | as `dl_restart`, with a crash | violates `LivePathsDisjoint` |
| `hub_silent_gap` | the hub with the web client, 2 events, no restart | violates `NoSilentGap` |
| `walk_loops` | the pager of `web` with a list whose last page claims another, fairness | violates `WalkSettles` |

The type invariants (`TypeOK`, `HubTypeOK`, `DesktopTypeOK`, `ImageTypeOK`, `SettingsTypeOK`,
`UpdaterTypeOK` among them) and `NoSendAfterClose` are in no run: section 5 proves them for every instance.

What they show:

- `NeverTwice`: a task is at one place among senders, queue and workers; two workers on a
  task would rename over and delete the same files.
- `NoStrandedTask`: while the pool works, an unsettled task is always on its way, and
  "running" means a worker has it, also after a boot from an index written by a crash.
- `JobStatusSettles`: each task settles under one lock and the job is aggregated under
  another; when the workers are through, the status is the aggregate.
- `LivePathsDisjoint`, `OwnedMediaIsMine`, `CompletedFilesStay`: what the reservation of
  paths is for, final files and sidecars included.
- `TransactionalCleanup`: a failed or cancelled job at rest leaves no file, wherever its
  tasks were interrupted.
- `LastTaskNews`: the last task event is how the task ended.
- `CancelDurable`, `StoredSettledForever`: memory, disk and the Cancel calls in progress
  agree on how each task settled, across crashes.
- `DrainedStore`, `ShutdownCompletes`: a stop at any step ends, and its index has no
  running task and every submitted job that nobody may remove.
- `ForeignSidecarKept`: a sidecar the user put there is never overwritten or deleted.
- `JobsSettle`: every job in the list ends or is removed.
- `LiveExactlyOnce`: everything that entered the ring since a stream started reaches its
  client, is buffered, or is on its way exactly once, or the channel is closed.
- `ReplayExact`: a reconnect is answered by exactly what followed the given ID, or a resync;
  an ID of an older process counts as evicted.
- `NoDeadSubscriber`, and as a theorem `NoSendAfterClose`: a slow or vanished client neither stays
  registered nor brings the core down.
- `NoStreamHoldsTheDrain`: once Shutdown has closed its streams every handler has a closed channel to
  drain, a late subscriber's too, and with it always a step to take: a frame to write, an event to
  forward, or the way out. A frame's write is taken to end: a handler that is blocked in it
  because its client reads nothing (`sse.go:24`) is outside the property.
- `AccountHeld`: a refresh begun for one session never puts it back over a later login or
  logout, and a rejected login does not end the session that is there.
- `RetriesAsSelf`: a denied call is retried as the account it was made for, with another token.
- `SessionInStep`: when nothing changes the session its token is in memory, in the client,
  and in the file unless the last write failed.
- `OneCoreLease`: exits, restart requests, retries, quits and installers that cross each other
  never make two cores, nor leave one behind when the shell lets go.
- `InstallerRunsAlone`, `ShownIsTrue`, `SnapshotBacked`: nothing starts under the installer;
  outside a quit the window shows the state of the service; the update snapshot is backed by
  an operation in flight or a verified file, also after a quit that was called off.
- `QuitSettles`, `LaunchSettles`: a quit ends the application or puts the window back in
  service; a launch ends whatever its child does.
- `SessionScoped`: no job, submission or refresh of one user's session reaches the next one's.
- `PageFollows`: when all is handled the downloads page shows the core's jobs of its filter.
- `LockHeld`, `ModeStaysLeft`: a locked selection has a batch that will unlock it; no batch
  brings a selection mode back that has been left.
- `CacheConverges`, `LastChoiceWins`: once quiet, the cached bookmark is Pixiv's, also after a
  lost answer, and the last choice of tags is the one that was written.
- `PagerHonest`: never a page past the end of a list that does not change, never an end that no
  page showed.
- `PanelFollows`: at rest the panel shows the shell's update, with no spinner left behind; after a
  first read that failed, from the first snapshot on.
- `StageHonest`: what the viewer shows has been decoded and is the page asked for, unless it
  says that it loads or has failed.
- `KeptAsLeft`: the page of the URL is the only one shown and none is kept twice; a page that
  comes back has its data and its place, and the sidebar leads to the view that is kept.

- `CapWatched`: no kick is lost between a write, or a lowered cap, and a sweep that has read the
  directory or the cap before it; only after a removal or a listing that failed is the tick all there is.
- `SettingsHold`: a change that is refused, not saved, half applied or cut off leaves file, manager and
  services in agreement, but for a service whose reload failed (`SettingsInStep`); leaving out of the file
  what equals a default loses nothing under any build (`ChoiceKept`); and a start accepts the file at
  every moment (`BootsAgain`).
- `NeverOlder`: a request to apply never puts an older binary in the place of a newer one, whatever
  happened since the page asked and whatever was put there a moment ago.

Properties are restricted where the code gives no promise, and the restriction is part
of their statement: `TransactionalCleanup` and `LastTaskNews` where the process has not
crashed, the former of sidecars until the first stop (see "Also noted"); `CompletedFilesStay`
where nobody cancels, since `dl_stale_delete` shows the code does break it otherwise; `OwnedMediaIsMine` and `LivePathsDisjoint` without a crash
or an edit followed by a boot (`dl_boot_order`); `ForeignSidecarKept` up to the user's second edit, with which he could
replace the very sidecar the task wrote; `NeverPast`, a part of `PagerHonest`, for a list
that has not changed; `CacheConverges` when the last refetch succeeded; `KeptAsLeft` leaves
the offset of a page open when it was left before its last scroll event came.

### Findings

1. *A cancelled job's worker can destroy a later job's file* (`dl_stale_delete`). Cancel
   frees the paths of the job at once, because `reservedPathsLocked` skips terminal
   tasks, while a worker that is past its last look at the context may still rename its
   body over the path, and then deletes it (`manager.go:899`).
2. *A job can stay "running" for clients after it was cancelled* (`dl_stale_started`).
   `leaseTask` publishes `job.started` after the lock, so it can follow
   `job.cancelled`; the client relies on the last job event.
3. *After a crash two live tasks can share a path* (`dl_boot_order`). `Start` resolves
   collisions walking the newest job first, from an empty reservation set. An orderly stop is
   enough when the user places a file at a queued task's path before the next start.

4. *A client can miss events without knowing* (`hub_silent_gap`). `connected` is set by the
   first `onopen` and stays set while EventSource reconnects, so the client does not refetch
   then; if it had heard no event yet it also sends no `Last-Event-ID`, and the hub answers
   with neither replay nor resync. `docs/ARCHITECTURE.md` says that clients refetch on
   reconnect. The same gap opens when two publishers deliver in the opposite order of the
   ring and the connection is lost between the two.
5. *The walk to a bookmark page can go on for ever* (`walk_loops`). A last page whose
   continuation points at nothing: the empty page truncates the frontier and with it the
   cursor that led there, the page before is taken from the cache, says "more" again and
   puts the cursor back. `user-page.tsx:328` says that "an over-shot page can't loop
   forever".

Also noted, without a run:

- `types.go` calls the aggregate "worst-case-wins (cancelled > failed > running > ...)",
  while `aggregateStatus` lets a failed task wait for its running and queued siblings. The
  comment inside the function says so.
- After a stop, a sidecar that a task wrote itself and cannot read again on its retry is given up
  (`metadata.go:115-122`: "A conflicting or unreadable file cannot be claimed for cleanup"). When
  the job then fails or is cancelled the sidecar stays; of media files this cannot happen.
- Settings form (`use-config-form.ts`): a reset sets `pendingDiscardRef`, and when its view
  equals the one already there (a refetch brought it first, or two resets overlap) the flag
  stays set and discards a later edit at the next view (`:230`, `:262`, against `:101-105`).
  Replacing a sensitive value that was set, as `pixiv.proxy`, gives the same masked view, so
  the equality check of `use-config.ts:82` skips the reconcile and the saved field stays
  unsaved on the page. Answers to a PATCH, a RESET and a GET may be adopted out of order.
- Configuration (`manager.go:422-428`): `View` reads the file before the live snapshot and
  without the lock, so a patch in between gives a view of two moments, where `manager.go:93` calls them
  "mutually consistent".
- Configuration (`manager.go:345`): a patch is validated with the variables of the process merged over
  it. A bad value of a key that a variable overrides is saved, and a start without that variable
  fails: `BootsAgain` holds for the variables that were set, not for others. `manager.go:122-125` says that
  the validators prevent "a 'settings save succeeded but next boot crashes' footgun".
- Image proxy (`imgcache.go:157`, `:172`): the look at the disk comes before `group.Do` and is not repeated
  in it, so a request that missed, but joins only when the flight of the others has ended, fetches what is
  on disk by then. `imgcache.go:77-79` says "exactly once per burst".
- Updater (`update.go:132`): `Reload` keeps the cached status, so a beta stays offered on the stable channel
  until the next check, and Apply refuses it. `checker.go:114-115` says that Check "never advertises an
  update Apply would immediately refuse".
- After a swap whose answer is on its way, a stop or a crash of the core runs the new binary as well;
  the channel's default, when the user chose none, is then that of the new build.
- Download mirror (`download-state-provider.tsx:54`): a refresh served before the stream opened swallows the
  one the opening asks for, and an answer served before an event may be adopted after it: what changed in
  between stays unknown until the next event of the job or a resync.
- Naming preview (`naming-preview-context.tsx:75-86`): going back to the body that was fetched
  last returns without a new sequence number, so the answer for the body in between is still
  adopted.
- Login: a `refresh()` of the status that began at mount may be adopted after the login's answer.

### Bounds

Two jobs, two workers and two or three tasks are the smallest pool in which a job has
siblings, a path has two claimants, both workers are busy and a task waits in the queue.
`QSize` 1 makes the queue full with a sender behind it. `MaxSuffix` 2 leaves a free
suffix for each claimant, so the 9999th is never reached. `MaxCrashes` and `MaxStops` 1
put a restart between any two steps; after it the process runs as before, so a second
one adds only a repetition. `MaxEdits` 2 is a deletion and a placement. `MaxRetries` 1
reaches a backoff and its last attempt. In the hub a ring of 2 and 3 events make it wrap, so
that an ID is retained, the newest, or evicted; a channel of 1 is full after one event; two
connections are a drop and a reconnect, with both handlers alive at once; two publishers
hold one subscriber in their snapshots at the same time. `MCSymmetry` exchanges publishers
and requests, which no definition tells apart; the run has no liveness property.

Session: two accounts, so that one can log in while the other's refresh or call is under way;
four tokens issued are two logins and two refreshes; one request, one rebuilt client and one
restart between any two steps.

Image proxy: a cap of 2 holds either image and never both, so every second write is over it; with
two requests one joins, or misses late; two failing removals make a sweep end over the cap. Sizes are
whole numbers, and the low-water mark of a cap of 2 is 1, so a sweep removes more than it must.

Settings: a channel that each build has a different default for, a key at once live and refusable,
and pinned keys beyond the page's reach are the kinds of keys that the code tells apart. Two changes
are one that is undone or overtaken by the other; one restart changes build and variables.

Updater: a stable release, a newer one, a beta of the one after it and that one, which cannot be
installed, make each comparison fail and succeed; two requests meet at the guard, and the second may
come after the swap; the channel switches once and one release appears at any step.

Desktop: two process IDs are enough for a second core beside the first; there is no other
bound (561,750 states): the supervisor's three tries are the code's, and quits, checks,
downloads and installations repeat without limit.

Web client: two jobs of an illustration, one of which may be old; two changes, or one and a gap
in the stream;
three sessions (loading, a user, another); three illustrations, two lists, two requests and two
batches at a time; two tag selections and the empty one, four actions; lists of three pages,
two moves, one change of the list; eight snapshots of the shell; four turns over a work of two
pages with three refreshed versions of it (another image, a page less, an image without URL);
six URLs of which two are the user's own sections, one is a second page of another and one only
redirects, two kept pages instead of eight, a time-to-live of 1 and a collection at 2 instead of
25 and 30 minutes, three navigations or scrolls. That is enough for a page to be left, evicted
or expired, and come back. A larger instance of each part adds repetitions of the
same overlaps. `WalkLoops.cfg` sets `Dangling`, which lets the last page claim a continuation.

Each bound is a constant, checked in the guard of the action it limits. `CHECK_DEADLOCK` is on,
except for `MCWeb`: a page at which nobody clicks any more and where nothing is on its way
stops. Elsewhere the system stutters only in a state where everything has ended, which the
next-state relation names (`Rest` in `DownloadManager`, `Wait` in `EventHub`, `Ended` in `Desktop`).

### Fairness

*Downloads.* `FairSpec` makes every worker step, sender, handler continuation and shutdown
weakly fair: they are goroutines, which the Go scheduler runs, and each blocks on nothing but
the queue, its HTTP client (which has a timeout: the outcomes are an answer, an error or
the interruption) or the context. There is no fairness for what the user does, for a
crash, or for a fetch succeeding.

*Desktop.* `FairDSpec` makes weakly fair what a timer of the supervisor bounds (`Timely`), the
closing of the pipes of a process that has exited, the end of `prepareQuit()`, and the
continuation that follows it. Neither the user, nor a core that gets ready or exits, nor the
installer is fair.

*Pager.* For `walk_loops` the requests are answered and the effects run (weak fairness); a page
older than the client's `staleTime` is fetched again whenever it is the one shown (strong
fairness for `Revalidated`, since the walk leaves the page again and again). The walk does not
end even so.

## 5. Proofs

Eight modules hold theorems. For the downloads the assumptions are `PoolAssumption` (a finite
set of tasks, each of one job, walked in a total order; sentinel values that are not tasks or
jobs) and `BoundAssumption` (bounds are naturals, the queue has a place). Nothing is assumed
about how many jobs, tasks and workers there are, which names coincide, or how often the process
crashes. The hub assumes `HubAssumption` (each request is one client's, the ring and the channels
have a place), the session that nobody is not an account and that a request is not called as one
of the other holders of the mutex (`AccountsAssumption`, `CallersAssumption`), the desktop that
no process has the number that means none (`NoPidAssumption`). The image proxy assumes that what a
directory holds is the sum of its parts (`FilesAssumption`, `CapsAssumption`, `BytesAssumption`); the
settings that defaults cover every key, that there is a service, and that no validator looks at the
channel (`KeysAssumption`, `ServicesAssumption`, `EnvironmentsAssumption`, `ChannelAssumption`; the validators
of `cmd/server/app.go` look at the templates and the proxy, `Config.validate` at the format of
animations); the updater that versions are ordered as numbers (`VersionsAssumption`). In the web client old jobs are at one of
the levels there are (`FeedAssumption`), a selection of tags is none of the values that stand for
something else (`TagsAssumption`), lists have a number of pages (`PagerAssumption`), works are
non-empty sequences of sources (`VersionsAssumption`), lists show illustrations
(`ShownAssumption`), and the section of a URL is told by its path, but for the user's own path;
a page is kept for less time than its data (`KeptAssumption`).

| Module | Theorem | States |
| --- | --- | --- |
| `DownloadSettleProofs` | `TypeCorrect` | `Spec => []TypeOK` |
| | `SettleCorrect` | `Spec => []SettleInv` |
| | `CancelIsDurable` | `Spec => []CancelDurable` |
| | `SettledIsForever` | `Spec => StoredSettledForever` |
| | `OnceCorrect` | `Spec => []OnceInv` |
| | `TasksOnce` | `Spec => []NeverTwice` |
| | `PlaceCorrect` | `Spec => []PlaceInv` |
| | `NoneStranded` | `Spec => []NoStrandedTask` |
| | `RestingJobsAgree` | `Spec => []JobStatusSettles` |
| | `ShutdownDrains` | `Spec => []DrainedStore` |
| | `LastNewsIsTheEnd` | `Spec => []LastTaskNews` |
| `DownloadCleanProofs` | `EndsCorrect` | `Spec => []EndInv` |
| | `FilesAccounted` | `Spec => [](ToldInv /\ CleanInv)` |
| | `CleanupIsComplete` | `Spec => []TransactionalCleanup` |
| `DownloadPathProofs` | `JobsStayEnded` | `Spec => []JobInv` |
| | `PathsCorrect` | `Spec => [](PathInv /\ Unrecorded)` |
| | `PathsDisjoint` | `Spec => [](Calm => LivePathsDisjoint)` |
| | `OwnedIsMine` | `Spec => [](Calm => OwnedMediaIsMine)` |
| | `CompletedStay` | `Spec => [](Calm => CompletedFilesStay)` |
| | `FirstCorrect` | `Spec => []FirstInv` |
| | `FirstDisjoint` | `Spec => [](FirstRun => LivePathsDisjoint)` |
| | `ForeignCorrect` | `Spec => []ForeignInv` |
| | `ForeignSpared` | `Spec /\ []Spared => ForeignSidecarKept` |
| `HubProofs` | `HubTypeCorrect` | `Spec => []HubTypeOK` |
| | `NoDeadSubscriberAlways` | `Spec => []NoDeadSubscriber` |
| | `NoSendAfterCloseAlways` | `Spec => NoSendAfterClose` |
| | `DrainsAlways` | `Spec => []NoStreamHoldsTheDrain` |
| | `LiveExactlyOnceAlways` | `Spec => []LiveExactlyOnce` |
| | `ReplayExactAlways` | `Spec => []ReplayExact` |
| `DesktopProofs` | `DesktopTypeCorrect` | `DSpec => []DesktopTypeOK` |
| | `LeaseImplemented` | `DSpec => OneCoreLease` |
| | `SnapshotBackedAlways` | `DSpec => []SnapshotBacked` |
| | `InstallerAlone` | `DSpec => []InstallerRunsAlone` |
| | `ShownIsTrueAlways` | `DSpec => []ShownIsTrue` |
| `SessionProofs` | `AccountHeldAlways` | `ZSpec => AccountHeld` |
| | `RetriesAsSelfAlways` | `ZSpec => []RetriesAsSelf` |
| | `SessionInStepAlways` | `ZSpec => []SessionInStep` |
| `WebProofs` | `SessionScopedAlways` | `WSpec => []SessionScoped` |
| | `PageFollowsAlways` | `WSpec => []PageFollows` |
| | `PanelFollowsAlways` | `WSpec => []PanelFollows` |
| | `CacheConvergesAlways`, `LastChoiceWinsAlways` | `WSpec => []CacheConverges`, `WSpec => []LastChoiceWins` |
| | `PagerHonestAlways` | `WSpec => []PagerHonest` |
| | `StageHonestAlways` | `WSpec => []StageHonest` |
| | `LockHeldAlways` | `WSpec => []LockHeld` |
| | `ModeStaysLeftAlways` | `WSpec => ModeStaysLeft` |
| | `KeptAsLeftAlways` | `WSpec => []KeptAsLeft` |
| `ServiceProofs` | `ImageTypeCorrect` | `ISpec => []ImageTypeOK` |
| | `WatchCorrect` | `ISpec => []CapWatched` |
| | `SettingsTypeCorrect` | `SSpec => []SettingsTypeOK` |
| | `InStepCorrect` | `SSpec => []SettingsInStep` |
| | `ChoiceCorrect` | `SSpec => []ChoiceKept` |
| | `BootsCorrect` | `SSpec => []BootsAgain` |
| | `SettingsCorrect` | `SSpec => []SettingsHold` |
| | `UpdaterTypeCorrect` | `USpec => []UpdaterTypeOK` |
| | `NeverOlderCorrect` | `USpec => NeverOlder` |
| | `ApplyOwnedCorrect` | `USpec => []ApplyOwned` |

*SettleInv.* `CancelDurable` is about the index on disk and the cancels that returned; it
is not inductive, because a save writes the memory. So the invariant says that the
memory agrees with every settled task on disk (`MemoryAgrees`), that a job under Cancel
or whose Cancel returned has no open task in memory (`CancelSettlesMemory`), and none on
disk from Cancel's save on (`CancelSettlesDisk`). It needs that a job ID that was not
handed out is known to nobody (`FreshJobs`) and that a process that is down has no calls
in progress (`DownIsEmpty`). The step is one lemma about all actions that change task
records (a terminal record never changes, `Settled`), one for the saves, and one for the
boot, which resets only open tasks.

*OnceInv.* `NeverTwice` is about tasks held before they are settled; to be inductive the
invariant counts a worker until it lets go of its task (`WorkerOnce`, `Apart`), and says
that a task whose job was not yet handed to a sender, and every task of a process that is
down, is nowhere (`Unsent`, `DownIsIdle`). A task enters a sender in two actions only,
`SubmitFinish` and `Boot`, where this makes it the only occurrence; every other action
moves it from one place to the next. The proof has one step per action and uses
`SettleInv` for `FreshJobs`.

*PlaceInv.* `NoStrandedTask` says that an unsettled task is somewhere on its way. It is inductive
together with what each stage of a worker says of its task (`InStage`: it executes a running task,
or one that Cancel settled under it; on its way out the task has settled, or is left for the next
boot), with `Placed` (a running task has a worker that executes it, a queued one a place in a
sender or the queue until the shutdown) and with `Untold` (nobody has touched the tasks of a job
that was not submitted, on disk either). `JobStatusSettles` and `NoneLeftRunning`, the first half of
`DrainedStore`, are conjuncts of the same invariant: an aggregation that has still to come has its
worker, although the two critical sections of `finalizeTask` are apart. All this builds on `OnceInv`:
that no two workers have one task lets a lemma speak of *the* worker of a task.

*IndexInv.* The second half of `DrainedStore`, `NoneForgotten`, is about the disk after a stop. Before
it, the memory is what has to hold the submitted jobs, and every save, the last one of the shutdown
too, writes the whole memory; a boot reads it back. So the invariant speaks of the memory while the
process is up and of the disk while it is down, where no crash came in between the two.

*ToldInv.* `LastTaskNews` is about a task that has settled and whom nobody works on any more. As
long as the process is neither asked to stop nor dies, a settled task either was announced as it
ended or somebody owes its clients that event: the worker that has it (`WorkerOwes`) or a Cancel in
progress (`CancelOwes`). `CancelHolds` says that what such a Cancel settled stays cancelled, and
so does its job, which a second Cancel then refuses.

*EndInv, CleanInv.* `TransactionalCleanup` is about a job at rest; what must be said of a job that
moves is who knows of each file. A file is in its task's record (`Owns`), or the worker that has just
renamed, encoded or written it has still to record it (`Making`); that is `Accounted`. When a job
ends, each of its files must have somebody who will delete it (`Owed`): the Cancel that collected it,
the worker whose task was cancelled under it (`Deletes`), or the step that settles the job. `EndInv`
is what makes these enough: only a Cancel settles a task under its worker, and it settles all tasks of
the job, so a worker that finds its task settled also finds its context cancelled and cleans up; and a
job that has ended has no open task, so nobody writes for it again. `Converting` says
that a conversion starts from an archive the task owns and drops it before the animation is recorded.
`AtRest` carries all this over a stop and a boot, where the records on disk are all that is left.
`CleanInv` claims it only while there was no crash and no edit.

*JobInv, PathInv.* `LivePathsDisjoint`, `OwnedMediaIsMine` and `CompletedFilesStay` hang together:
a collision is resolved against the disk and against the open tasks, so a completed job's files
are safe from a later job only because they are on disk, and they are on disk only because no
other task writes or deletes at their paths. `PathInv` says all of it at once. `Separate`: open tasks
claim no common path, their archives and sidecars included. `Mine`: what is on disk at an open
task's paths is its own, so a rename replaces nothing of anybody else. `Records`: a completed task's
record names all its files, and an open one that has media is one with a conversion or a sidecar
still to come. `Stored`: what the records own is on disk, but for the archive of a conversion that
is encoded (`Encoded`). `AtWork` says what a worker at each stage has made, and `OneSettles` that
whoever is about to delete, when a job failed, deletes that job's files only, and that nobody else
is about to. Over a stop the same is said of the records on disk (`PathsOf`, `StoredAtRest`), which
is what `Boot` resolves collisions from: it walks the newest job first, and no path that it keeps for
an older one is given away, since the records were `Separate` when they were saved. This
needs `JobInv`: the status of a job that has ended is what its tasks add up to for good, and a job that
is no longer in the list has no open task on its way, so `reservedPathsLocked`, which looks at the
list only, forgets nobody.

The three theorems are about a `Calm` past: no crash, no edit and no cancel of an open task (a cancel
of a job that has none does nothing). For `CompletedFilesStay` and `OwnedMediaIsMine` that is not a
convenience: a cancelled job's worker deletes what it no longer owns (finding 1). A crash breaks all three,
since the index on disk is then older than the disk (finding 3). Nothing else is excluded: any
number of jobs, coinciding names, workers, failures, retries, removals, stops and boots.

*FirstInv.* For `LivePathsDisjoint` the calm is a convenience as long as the process has not
restarted: `FirstDisjoint` allows cancels and edits until the first stop or crash. `FirstInv` says
why. A submit chooses its suffix under the lock, against the claims of every open task; from there
on what a task claims may only shrink, since a worker keeps the suffix and changes the extension from
that of the archive to that of the converted file. The one step that would widen a claim is
`reuseMedia` falling back from the converted file to the archive, and in the first run it finds
nothing to fall back from: no queued or leased task has media (`NoMedia`). So the two theorems divide
the cases between them: any number of boots without a cancel or an edit, any number of cancels and
edits without a boot. With a boot and an edit the property is false: a file that the user places at
the path of a queued task, while the core is down, makes the boot move that task by a suffix, onto
the path of an older task that has its archive but not yet its converted file. TLC finds this in 24
steps when `dl_restart` is given one edit; it is finding 3 without the crash. With a boot and a
cancel, and no edit, TLC finds nothing for two jobs, but the proof loses its ground, since the worker
of a cancelled job may delete an archive that the record of a restarted task names.

*ForeignInv.* `ForeignSidecarKept` is about the file that the user's first edit placed. A worker replaces
no such file, since `writeMetadata` writes only where nothing or its own export is; but files are
deleted by path, from records, so what must be said of the user's path is that it is `Unclaimed`: no
record of a job that may still fail has its sidecar there, in memory or on disk, no worker is about to
record one, and nobody is about to delete it. That holds when the user places the file, because he
finds nothing there and up to then `PathInv` says that every recorded sidecar is on disk (`Stored`,
`StoredAtRest`, `AtWork`); afterwards a claim arises only from a write that succeeded, and what a job's
end condemns is what was recorded while it could still fail (`JobInv`). Between the two, the edit is
what ends `Calm`; from there on `Spared` is enough: stops and boots, but no crash and no cancel of an
open task. Under a cancel a worker may delete a sidecar that another task has recorded after a
restart; the user could then place his own there, and that task's job would delete it as it fails.

*SubsInv.* `NoDeadSubscriber` says that whoever is registered is served or about to be
removed. It is inductive with `Unmade` (a request that was not made is known to nobody and
its channel is open, so a new subscriber starts clean) and `Placed` (`Shutdown` takes every
subscriber out before it closes the first). `NoSendAfterClose` follows step by step from the
types: a closed channel is only read. Both are about `EventHub`'s own specification, which
`core_services` runs with the other services beside it.

*DrainInv.* After `Shutdown` no subscriber is registered (`Placed`), so `NoStreamHoldsTheDrain` asks what
has become of each handler's. `DrainInv` follows it: it is registered, or among those that `Shutdown` has
still to close, or its channel is closed. A publisher removes only what it has closed itself, a handler
closes before it removes, and a late subscriber gets a closed channel, so nothing leaves the hub open.

*LineInv.* Both properties of the hub are about a client's line: what it was sent, what is in the
backlog of its handler and what is buffered for it. `RingInv` says that the ring shows the end
of the log: two entries less than `Cap` apart have different places modulo `Cap`, so an event
written does not destroy one that still counts. `FlightInv` keeps the events of publishers apart.
`HeardInv` says, of a subscriber, that its line begins with a resync or with exactly the relevant
events that followed its `Last-Event-ID` (`Replayed`), and that each relevant event logged since
`Subscribe` is in the line or with a publisher that has it as a target, and not twice (`Once`).
`Publish` extends the log and the targets, `Deliver` moves an event from a publisher to the line,
and a full channel ends what the invariant says of its subscriber, whose channel is then closed.
The type of the recursive function `Relevant` goes by a least counterexample: `WFMin` over
`NatLessThanWellFounded` is a statement about sets, so it can be used where an induction theorem
cannot (`Least`, `UpTo`).

*Desktop.* The refinement needs `CoreInv`: a process that runs is the remembered attempt's, a
launch and a stop that are past a termination have none, and a finished `stop()` keeps
launches from spawning. With it every step of the shell is a `Start`, `End`, `LetGo`,
`Resume` or stutter of the lease. `SnapshotBacked` is inductive with `OfferInv` (a verified
file belongs to an offer, and no operation overlaps the ones it excludes), and
`InstallerRunsAlone` with `PreparedOwns` (an installer that took over keeps the finished quit
until it fails). `ShownIsTrue` follows the window through every step (`ShownInv`): a
supervisor that was not told to stop has a port exactly when its core is ready, which is what a new
window goes by; one whose stop failed rests in "failed"; and the shell is quitting as long as it
waits for a stop, so the window need not follow it then.

*ZInv.* What holds while `refreshMu` is free has to be said of every step of its holder:
`OpInv` relates memory, client and file to the holder's token and step, `CallInv` ties a
waiting or retried call to the token it was denied with, and `Issued` says that every
token in use is one of those handed out, so that the next one is new.

*The web client.* Each part of `WebClient` has an invariant of its own in `WebProofs`. The parts
hold no common state, and the ones at rest are in their initial state, so an invariant that holds
of a part's specification holds of `WSpec`, and so does its property.

- `MirrorInv` (`SessionScoped`): a list request or a submission of the session that is on the page is
  the only one of its kind and was announced by the flag that shows it (`Announced`), which no older
  one clears; an entry of the store belongs to the session on the page, or to the one whose
  effects have still to run (`EntryOwned`).
- `PageInv` (`PageFollows`): at most one refetch counts, and it is of the filter shown (`OneNewest`);
  unless the debounce runs or an event that matters has not been read (`Stirring`), its answer, or
  the rows when there is none, have the statuses of the core (`UpToDate`).
- `PanelInv` (`PanelFollows`): the operations of the controller exclude each other and an installation
  is what it shows (`Alone`); no snapshot is newer than the last one sent and one of that number is
  the truth, and the last one is on its way or shown, unless the page has heard nothing and its first
  read is open or has failed (`NewsInv`); a spinner has its call or a snapshot that says so (`Spinners`).
- `BookInv` (`CacheConverges`, `LastChoiceWins`): but for a mutation that owns the cache, the cached
  bookmark and a refetch's answer are Pixiv's (`Truthful`); the writer saves exactly while its mutation runs
  (`MutOfWriter`), knows what is saved (`Confirmed`), and the last choice is queued, being saved, or
  saved (`ChoiceKept`).
- `PagerInv` (`PagerHonest`): what is known of a list lies below its ceiling (`Tidy`); of a list that has
  not changed nothing untrue has been learned (`Steady`); the end of a list was shown by a page that
  is cached, or the effect that will correct it is due (`Backed`).
- `StageInv` (`StageHonest`): the viewer's reducer names frames that React may not have mounted yet.
  `StageFresh` says that a mounted frame has a number the reducer has given and that the candidate has the
  newest, so that no image left from before can count for it; the rest says that the frame on
  display was decoded, that a candidate is the page asked for, and what each phase stands for.
- `SelInv`: `LockHeld` is inductive. `ModeStaysLeft` is not a consequence of one step's guard, since
  the end of a batch may write the mode: it needs `HoldsMode`, that what is selected is in the mode
  and that the batch which holds the lock with the selection untouched found it so.
- `KeptInv` (`KeptAsLeft`): every page has a number of its own that is not given again
  (`NumberedPages`), so an offset saved for a page is never taken for another's; what was collected
  behind a page has been there longer than a page is kept (`DataLast`), so a page that still is
  kept finds its data; and the last URL of a section is of that section (`UrlsInSection`), which a page
  that comes back under another URL of the same key does not change.

*SweepInv.* `CapWatched` says that somebody will look at a directory over its cap. It is not enough that a
sweep is in progress: it may have read the cap before it was lowered, or listed the directory before the
write. So the invariant speaks of the times when nobody has told the manager to sweep or is about to
(`Owed`), and says that what a sweep has read is then still good: it has the current cap, and each file of
the directory, the temporary ones of writes apart, is among those it counted and, unless a removal
or a listing failed, among those it has still to consider. A write or a change of the cap makes the manager be owed
before it can end, and a kick that is taken arms the timer, whose sweep reads everything again. When the
manager comes to rest, the additive `Bytes` gives the cap from what the sweep counted.

*SettingsInv.* `ChangeInv` follows the change that holds the mutex: what it will save has been accepted as
any build, since no validator sees the only key whose default differs, and means the same as what the
user chose; from the save on the file is that; the snapshot is the file's except between save and swap, and
each service has the snapshot once its hook was run. A restart may come between any two of these, and a
start takes everything from the file. `ChoiceKept` and `BootsAgain` are conjuncts, because `Save` moves
them from the change to the file.

*GuardInv.* `NeverOlder` compares with what is on disk, while the code compares with what runs. The two are
the same as long as nothing was swapped in; after a swap the guard stays set and no call is on its way
but those that have ended, until the process has ended too. `ApplyOwned` adds that this end is coming: the
guard is set only while somebody applies or the restart was triggered (`GuardOwned`), so a failure never
leaves it set, and a binary that was put in place never waits for a page that has gone.

### Only model-checked

- Liveness (`JobsSettle`, `ShutdownCompletes`, `QuitSettles`, `LaunchSettles`): beyond the prover.
  Every safety property of a passing run is a theorem, with the restrictions named next.
- What the theorems about the disk leave out: `OwnedMediaIsMine` and `ForeignSidecarKept` where
  an open task was cancelled, `LivePathsDisjoint` where one was cancelled and the process restarted,
  and `ForeignSidecarKept` after a crash.

## 6. Not modelled

- `Reload` of the download manager swaps the client and the retry policy of later tasks, and
  touches no state above. A failed save of the index is logged and ignored
  (`manager.go:573`): the file is then older than the memory until the next save.
- Of the configuration: an edit of the file while the core runs, which the next patch takes over, what
  a view reads, and the parsing of its layers. Of the image cache: hits. Of the updater: how a release
  is verified and unpacked. The HTTP API's request parsing and the OAuth windows carry no state that
  others interleave with.
- In the web client: settings form, login and connectivity panels, naming preview, follow
  button. Each is one request at a time; where reading them showed a disagreement it is noted
  in section 4.
- A logout, which tears the event stream down and starts a new client, is not an action of
  `EventClient`; `DownloadMirror` has the sessions.
- Views, translations, generated API code, build and release scripts, and platform glue
  (`sysproxy`, `browser`, `runtimepath`) have no shared mutable state.
