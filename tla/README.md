# TLA+ models of ImagePadServer

ImagePadServer takes images, videos, music, URLs and live streams (OBS over
RTMP, AirPlay), converts them to HLS with ffmpeg and serves them to players and
browsers. It is one Go process with many goroutines, a directory tree as its
only database, and external processes (ffmpeg, MediaMTX, a browser, a tunnel)
it starts, kills and waits for. What is hard in it is not the conversion of a
frame but who may write what when: a queue whose worker shares fields with the
handlers, files whose names several requests share, a favorites directory that
must survive a crash between any two copies, a revision number that is supposed
to tell browsers apart.

This directory holds models of that part, checked with TLC, and theorems about
them, checked with TLAPS. `PROJECT.json` maps every definition to the lines it
models and lists the runs, the mutants, the hazards, the disagreements found
and the theorems.

## Inventory

Paths are below `src/internal/` unless they start with `src/`.

| Component | State it keeps | Operations | What is hard | What makes it correct |
|---|---|---|---|---|
| Conversion queue (`video/publisher.go`) | per output directory a list of jobs, a `running` flag, the `activeHLS` slot, a context per run | enqueue (preempts the running job), cancel, worker loop, external HLS begin/end, reset, the library's Clear | the worker reads and writes job fields without the mutex; stopping and starting the worker are separate critical sections; the slot has no lock; files are deleted without asking the queue | one worker; done means a tree written to its end; nothing unfinished is dropped; the slot tells the truth; it comes to rest |
| Conversion watchers (`server/server.go` `watchConversion`) | a goroutine per job | poll, list the files, copy them into the library | list and copies are not atomic with the queue, nor with the deletions of Clear | only finished encodes reach the library, and they do unless they are removed |
| Media library (`library/store.go`, `library/nico_prepared.go`) | history, current item, published revision, `media/`, `converted/`, `favorites/` with `favorites.json` | publish, queue, select, favorite, convert, commit recordings and exports, clear, restart | several file operations per step, the process may die between them, a copy may fail half-way | an entry has its file; a favorite survives a restart with its flags; converted means restorable |
| Publication revision (`server/server.go`, `library/nico_prepared.go`, `server/ui_script_history_controller.go`) | `publishedRevision`; revision and list in each browser; expected revision in each export | poll, toggle with 409, export with a conflict check | each read takes the mutex anew; zero means "unknown" | a view whose revision stands is current; an export never overwrites |
| Ingest handlers (`server/ingest_status.go`, `server/server.go`, `server/audio_ingest.go`, `server/niconico_upload.go`) | one `ingest.active` slot; local variables; shared file names | upload, URL, queued URL, commented niconico video, select, queue a history item, clear | one goroutine per request; handlers read the current item back after another may have replaced it | the slot is single and always released; media is converted under its own id |
| OBS receiver and recording (`obsrtmp/manager.go`, `server/server.go` callbacks, `server/airplay_route.go`) | listener generation, current session, endpoint and URL, publishing flags, the reconnect timer; the item the server shows | start, stop, restart, rekey, arm, disarm; accept, endpoint, finalize, clean up; the callbacks | a revoked listener runs on beside its successor; every callback is made without the mutex; a timer that fires as it is stopped | a revoked listener changes nothing; the item shown only moves forward; a time-out ends its own wait |
| Public RTSP address (`server/server.go` `publishRTSPReady`, `upnp/upnp.go`) | `rtspReadySeq`, `rtspMap`; the router's table | map, install, replace, close; show and withdraw the URL | mapping takes seconds; handles are closed without the mutex; the router knows ports, not handles | no forwarded port without somebody to close it; none after its stream |
| MediaMTX (`obsrtmp/mediamtx.go`) | the relay process, its readers | start, reload, stop | an external process | – |
| Direct AirPlay delivery (`obsrtmp/direct_*.go`, `obsrtmp/rtsp_gate.go`, `airplay/source_clock_*.go`, `airplaycontract/delivery_generation.go`) | delivery generations with their ledger, the gate's connections, a backend per generation; the publisher process, its generation, what is retiring | change the settings, restore them, recover after a crash, retry, stop | three goroutines, two sessions that may end, and processes whose end may not be confirmed; a change that fails half-way is undone | one publisher; a change takes effect in one step and is answered truly; nothing of a candidate is left when it is given up |
| Radio and playlist programs (`obsrtmp/radio.go`, `video/radio_render.go`, `playlist/store.go`, `server/music_playlist.go`) | program, position, persisted playlist with a revision | switch, advance, edit, roll back | edits while a program renders | a switch happens at a boundary; the persisted revision is the one shown |
| GPU sidecar and rings (`video/shared_ring.go`, `video/playlist_gpu_*.go`, `video/gpu_sidecar_process.go`) | ring slots, scheduler lanes, sidecar generation | acquire, commit, release, restart of the sidecar | a dead sidecar holds slots | a slot has one owner; a frame is read after it was committed |
| Child processes (`video/process_registry.go`, `voicevoxruntime/`, `tunnel/`) | registered processes, readiness | start, register, stop, restart with back-off | registration races with shutdown | nothing is left running |
| Browser pool (`nicorender/browser_pool.go`) | the active lease, flags of the acquisition and of Close, a lease's flags, the browser's contexts | acquire, release, close; job and owner contexts that are canceled | four parties may release one lease; calls to the browser are made without the mutex and may fail after they have had their effect; waiting on a channel that is replaced | one lease at a time, cleaned once; nothing of one job stays for the next; the connection is closed last; Close ends |
| Niconico workers (`server/niconico_worker_session.go`, `nicoexportworker/`, `nicoexportbudget/`) | the current worker session, its deadline and its count of jobs; the process | run a job, reuse or replace the session, fail, complete, retire | timers and the owner's context retire sessions while jobs take them; a process may say anything, nothing, or be gone | a job keeps its session; no process is left to itself; idle means idle |
| Niconico rendering (`nicorender/render.go`) | frames of one export | render | – | – |
| Pairing and shares (`server/pairing.go`, `server/share_state.go`) | tokens, share links | issue, redeem, expire | – | a token is used once |
| Application lifecycle (`app/`) | everything above | start, stop, wipe | order of stopping | – |
| Everything else (audio analysis, visualizers, layout, X posts, yt-dlp, tray, images, native compositors, build) | no state of interest | – | signal processing, external tools | – |

### How they interact

* A request goroutine takes the ingest slot, writes files of the media
  directory, calls the `Store` (mutex per call), and enqueues a conversion with
  a path and an id it has read from the `Store` before.
* The queue's worker goroutine runs ffmpeg on that path. For each job the server
  also starts a `watchConversion` goroutine, which polls `QueueStatus` and calls
  `Store.MarkConverted`.
* OBS and AirPlay call back into the server, which calls the same `Store`
  operations with a session's id, repeatedly. The receiver also tells the server
  when an RTSP endpoint is ready or gone; the server maps its ports on the router
  in a goroutine of its own and gives the URL back to the receiver.
* Browsers poll the state (revision, then history) and send toggles with the
  revision they have seen. Exports read the revision, render for minutes and
  commit against it.
* A change of the delivery settings runs in a transaction of the direct session,
  which hands a candidate to the AirPlay manager's monitor and waits; the monitor
  has it validated by a worker, which drains the gate, and commits it by a call
  back into the direct session. The end of the AirPlay receiver stops the direct
  session, and the other way round the end of the direct session ends the wait.
* The server runs export jobs one at a time in a worker process, which it keeps
  for the jobs of one identity. The worker keeps one browser for its session:
  rendering leases it from the pool, the session or the end of its context closes
  the pool.
* A restart, clean or not, wipes the workspace (`media/`, `converted/`) and
  loads `favorites.json`.

## Plan

Order of work; each step is a component module, its proofs module and at most
two runs.

1. *done* `ConversionQueue`, `ConversionPublish`, `ConversionQueueProofs`.
2. *done* `MediaLibrary`, `PublishRevision`, `MediaLibraryProofs`.
3. *done* `MediaIngest`, `MediaIngestProofs`.
4. *done* `ObsSessions` (abstract), `ObsReceiver`, `ObsReceiverProofs`: the
   receiver and its callbacks.
5. *done* `RtspPublication`, `RtspPublicationProofs`: the public address, built
   on `ObsSessions`.
6. *done* `LeaseSlot` (abstract), `BrowserPool`, `BrowserPoolProofs`.
7. *done* `WorkerSession`, `WorkerSessionProofs`: the worker processes that own
   the pools.
8. *done* `DeliveryPromise` (abstract), `DeliverySwitch`, `DirectDelivery`,
   `DirectDeliveryProofs`: changing the delivery of a running AirPlay session.
   Still to come: its recordings and their probes, and its start, which shares
   the `Manager` with `ObsReceiver`.
9. Playlist store and radio programs: persisted revision, roll-back, switch.
10. Shared ring and GPU scheduler; process registry; tunnel loop; pairing.

Every safety invariant and every action property that a passing run checks is a
theorem now. Planned next: that the initial states of the runs that begin with a
queue in use or a library in a scene satisfy the inductive invariants for every
choice of constants, and the theorems of the components that are still to come.

## Modules

### ConversionQueue

The list of jobs is a set with arrival numbers (the code only prepends and
filters). `items`, `running`, `mu` are `queueState`; `status`, `preempted`,
`ctx` are the fields of a `queueJob`; `wpc`/`wjob` are the program counter and
the job of each worker goroutine; `active` is the directory's entry of the
`activeHLS` sync.Map; `output` is the HLS tree of each media id, and `swept` the
ids whose tree somebody else has begun to remove since its encode began.

`enqueueConversion` is `EnqueueLock`, `EnqueuePreempt`, `EnqueueUnlock`, and
`CancelConversion` is `CancelLock`, `CancelTest`, `CancelWrite`,
`CancelUnlock`: both hold the mutex throughout, but test a job's status and
write it in two steps, because the worker does not take the mutex. Every
`W…` action is a point of `state.run` or `runQueueJob` at which the worker
touches something shared. `stopActive`, `RemoveGenerated`,
`BeginExternalHLS` and `EndExternalHLS` are `Reset…` and `…External`.

`Clear` is the part of `Store.Clear` (`library/store.go:936`) that concerns the
queue: every upload by URL and every clearing of what is published deletes all
files of the media directory but those of the history, and so the tree of a
running encode or of a result that no watcher has copied yet. Nobody asks the
queue; `clearPublication` cancels the current id first (`CancelLock`),
`handleClear` nobody. The deletions come one by one, outside every mutex, and
their errors are dropped, as in `removeGenerated`: `Remove` lets any part of a
tree stay. ffmpeg does not notice. It writes the rest and the playlist, and
`finalizeHLSPlaylist` looks at the playlist only, so that the job is done over a
tree that lacks files: `output` is "complete" and the id is `swept`. Only a run
that begins the tree anew takes the id out of `swept`.

Abstractions: ffmpeg is one action that ends well, or badly with or without
files; the fallback from a hardware to a software encoder, which removes the
tree and begins it anew, is part of it. That `Clear` may delete the source of an
encode is covered by an encode that fails. Torn
reads of a Go string (a data race in the letter of the memory model) are not
modelled: a racing read returns the old or the new status. `CancelQueue` and
`PublishStillImageForID` are called from tests only and left out.

### ConversionPublish

Adds one `watchConversion` goroutine per job. `WatchPoll` is the tick that finds
the job over, `WatchList` `GeneratedFiles`; `MarkConverted` is `WatchCopy`, the
look at every listed file and the first copies, and `WatchMark`, the rest of
them and the effect on the flag and the tree. `found` is what the watcher has
listed and copied so far amounts to: a whole tree, a torn one (files were
missing when it listed them), or a partial one (an encoder was at work). A file
that is missing once it has been listed makes `MarkConverted` fail. A job pruned
from the list before its tick is not seen again until the six-hour deadline
(`WatchExpire`). Left out: `MarkConverted` also fails when the item has left the
history, or the disk is full; a selection from the history copies the tree of a
converted item back into the media directory (`library/store.go:659`), which for
one job per media id is after its watcher has ended.

### MediaLibrary

One variable per field of `Store` and per directory. Operations that only
change memory and files of their own are one action: the mutex is held and no
crash in between can be told apart afterwards, because a restart wipes them.
`SetFavorite` and `MarkConverted` also write under `favorites/`, which a
restart keeps: they are one action per file operation (`FavoriteFile`,
`FavoriteTree`, …, `MarkFlag`, `MarkFavorite`), and `Restart` may strike
between any two. With `Faults`, a copy, a rename or a save may fail (`Fail`,
and the second disjunct of the saving actions). `favorites.json` is written to
a temporary file and renamed, so it is never half-written.

`Restart` stands for a crash and for a clean end: the wiping that `Reset` does
on the way out is done again by `NewStore`. `CommitRecording` is one step as well,
although for a favorite it renames the file to a backup and then the staged one
to its place (`library/store.go:1143`): only sessions do it, of which no crash
property speaks. What `MarkConverted` copies counts as whole here; when it is
not is the business of `ConversionPublish`. Thumbnails, sizes, titles, the text
of `state.json` and the metadata updates of the history are left out: no
property depends on them.

### PublishRevision

Extends the library with browsers and exports. `PollRevision`/`PollHistory` and
`ReplyHistory`/`ReplyRevision` are the two reads behind a state answer and
behind the answer to a toggle, in the order the code makes them; `Accept` is
the comparison in `handleHistoryPublish`, `Write` the `SetPublished` that
follows it in another critical section. Of the list a browser shows, the model
keeps the published items. `polled` and `basis` are ghosts; the data of a
request or an export that is over are put back to their initial values.

### MediaIngest

One process per HTTP request, of one of nine kinds, each with its own sequence
of steps (`Planned`). The mapping of steps to code is by handler: the slot
(`Claim`, `Await`, `Receive`, `Seize`, `Finish`), `clearPublication`
(`StartClear`, `Forget`, `Sweep`), publishing (`ReadPrevious`, `Displace`,
`SetCurrentInfo`, `CopyImage`, `SetCurrent`, `ReadBack`), queueing
(`AddHistory`, `QueueItem`), selecting (`Select`, `CheckSelected`,
`ReadSelected`), the niconico export (`Analyze`, `CommitPrepared`) and
`Enqueue`. What a file holds is represented by the media its bytes came from.

Abstractions: the conversion is one action here (its interleavings are
`ConversionQueue`'s subject), any pending job may run, as after a preemption;
images have one extension; the history limit is not modelled (it is in
`MediaLibrary`); selected items are videos; audio behind a URL takes the path
of a video behind a URL, without the analysis; X-post and prepared niconico
uploads, thumbnails and share links are left out.

### BrowserPool and LeaseSlot

`LeaseSlot` says what rendering relies on: a lease is reserved, granted and
over; only one is held at a time; once the slot is shut nothing is granted, not
even what is reserved already; the slot is taken down only when it is free.

`BrowserPool` is the code. `apc` is where each call of `Acquire` is, `rpc` where
each call of `Release` is (by its caller and its lease), `cpc` where each call
of `Close` is; the other variables are the fields of `BrowserPool` and
`BrowserLease`. The mutex is not a variable: each action is one critical section
or one thing done between two. `Acquire` is `Acquire`, `Call`, `CallReturns`,
`CallFails`, `Rollback`, `Judge`, `FailAcquire`, `Settle`; `Release` is
`TryRelease`, `Clean`, `Dispose`, `FinishLease`; `Close` is `Close`,
`CloseDrain`, `CloseReleased`, `CloseControl`, `CloseFinish`, `CloseAwait`.
`p.changed` is the set `waiting` of those who hold the channel that is not
closed yet: `signalLocked` empties it. `p.broken` is represented by `p.closed`,
which is set with it and never cleared.

`contexts` is the browser's own state, which the code cannot see: a call to
create a context may fail after it took effect, with or without naming the
context in its error. A cleanup that times out leaves it unknown as well.

The refinement maps a lease to "new" before `Acquire` has reserved the slot, to
"over" once `lease.released` is set, to "granted" from the moment `Acquire` has
settled, to "reserved" otherwise; `shut` is `closed`; `down` is the connection's
end. A withdrawn lease goes from "reserved" to "over" without being granted.

Abstractions: what a lease registers for its cleanup is one bounded step; the
calls to the browser are their outcomes; the worker calls `Acquire` again only
with a new lease, so a lease is acquired once; calls of `Acquire` that find the
slot taken fail without an effect and are no step.

### ObsReceiver and ObsSessions

`ObsSessions` says what the rest of the server may rely on: one session is
connected at a time, sessions are numbered upwards, an endpoint and a URL belong
to the connected session, and whoever makes a callback does nothing else until
it returns. It promises nothing about when a callback runs, nor that every
session whose endpoint was offered is told to be over: `Revoke` forgets it.

`ObsReceiver` is the code. A listener goroutine is named by its listener
generation, a session by its media generation (`mediaGen`, `idOf`). `listener`
and `running` are what `ownsListenerGenerationLocked` compares; `canceled` the
listeners whose context has ended; `loop` where each listener is, with the id,
the session and the armed flag its round keeps in locals. `current` with
`announced` is `m.current`; `endpoint`, `url`, `connected`, `publishing`,
`continuous`, `runtime` the fields that several goroutines write; `timer` is
`publishDisconnectTimer` and `due` the timers whose goroutine may still run;
`caller` an HTTP handler or the time-out; `shown` with `phase` what the server
believes of the OBS item (`obsCallbackGeneration`, and the state of its entry).

Each action is one critical section of `Manager.mu`, or a callback made after it
was released. `Start`, `Stop`, `Restart`, `SetStreamKey`, `StartPublishing`,
`Disarm` and the rest are the handlers; `LoopTop` to `Failed` are `loop` with
one round of `runOneWithContract`: `Setup`, `Accept`, `WaitEnds`, `LoopOnStart`,
`SetEndpoint`, `LoopOnReady`, `Finalize`, `LoopOnDone`, `MarkDone`, `Cleanup`,
`LoopOnRTSPDone`, `Leave`. A restart waits eight seconds for the listener at
most, so `StartAgain` does not depend on the old listener's end. `TimerRuns` is
the goroutine of a reconnect time-out, with `handleAirPlayReconnectTimeout`.

Abstractions: ffmpeg, MediaMTX and the HLS relay are outcomes of a round; the
recording's file is left out, its commit is not (`CommitStart`, `CommitDone`,
under `obsCommitMu`); settings other than the key do not matter; direct AirPlay
sessions, which share the `Manager`, are not modelled.

### RtspPublication

Extends `ObsSessions` with the server's part. `publisher` is where each
`publishRTSPReady` is; `newest` stands for `rtspReadySeq` (the number itself is
never compared but for equality); `rtspMap` is the mapping the server holds;
`closing` the handle a goroutine has taken out of the server's hands and is about
to close; `checked` who is between the test and the number in
`handleRTSPReady`; `router` the ports the router forwards, which no code can see.
Ports of one session are one entry, because they are mapped and unmapped
together. `TCPMapping.Close` marks the handle closed before it asks the router
(`upnp/upnp.go:103`), every caller drops its error and nobody tries again; an
entry whose AddPortMapping was carried out but not confirmed is left as well.
The ghost `stranded` holds the sessions for whose ports that happened
(`CloseHandle`, `MapPorts`) and which were not mapped or deleted since.
`Unreliable` bounds the sessions it may happen to; the proofs take any set.
`revoked` is a ghost: the newest session when the receiver was last stopped.
The music radio publishes through the same variables; only one source is
modelled.

Because `ObsReceiver` implements `ObsSessions`, and the module uses nothing else
of the receiver, what holds here holds for the composition as far as the
receiver's steps are concerned; the steps of the server are those that
`ObsReceiver` calls `ServerStep`.

### WorkerSession

`job` is `run` for the one job that holds `runMu`; `session` the fields of each
`nicoWorkerSession`; `due` the idle timers whose goroutine may still run, named
by the session and the number of jobs it had served; `retirer` the goroutine
that retires a session; `closing` the progress of `closeAndWait`, which whoever
calls it shares (`closeOnce`); `process`, `worker` and `output` are the process,
what it is about, and the messages nobody has read yet. `Ensure` to `Return` are
`ensureSession`, `run`, `completeJob` and `failSession`; `RetireIdle`, `Retired`
and `RetireCurrent` are the goroutines of the timers and of the owner's context.

Abstractions: hello and ready are one message, and so are cleanup and ready;
what a message says is usable or not; a time-out of the process is its silence
(the code has none for a job); a process that is gone closes no pipe, as in the
code, where the reader is closed by `closeAndWait`. `start` and `close` are
called from tests only and left out.

### DirectDelivery, DeliverySwitch and DeliveryPromise

`DeliveryPromise` says what the one who changes the delivery settings may rely
on: those of before are in force until, in one step, those asked for are; the
answer "applied" is given in the second case and only there; a restoration and
a recovery bring no new settings.

`DeliverySwitch` is the direct session: `active`, `planOf` and `ledger` are the
delivery generations (`DeliveryLedger`; an allocated generation and a prepared
one are told apart by nobody), `pending` and `held` are `c.pending` and its
`commitDrain`, `draining` and `conn` the gate and its router, `backend` the
MediaMTX process of each generation, `direct` the session's context and its end.
Its operators are the methods of `directDeliveryCoordinator` under its mutex:
`Reserve` prepares a generation, `BeginDrain`, `HoldDrain` and `AbortDrain` are
the two sides of the wait in `prepareDirectCommit`, `Commit` the critical section
that moves gate, ledger and contract together, `Abandon` is `abortLocked`.

`DirectDelivery` adds who calls them. `tx` is the transaction, of a change, of
the restoration after it or of a recovery (`Change` to `Abort`); `mon` the
monitor of `source_clock_session.go`, with `published`, `running`, `retiring`
and `lastExit` its local variables: `Take` to `Answer` are
`executePlannedDelivery`, `SeesExit` to `Leaves` the other cases of its loop and
`finishMonitor`. `worker` is the goroutine in which `Validate` runs; it holds
the candidate's mutex, and the coordinator's from `Drain` to its end
(`CandidateFree`, `CoordinatorFree`). `proc` is what only the operating system
knows of the publishers, `completion` what the observer was told. A stop that
times out leaves the process running (`StopOld`, `Cleanup`, `Unconfirmed`) and,
but at the very end, retiring. A validation that is not joined keeps its
candidate from being given up by the monitor (`FinishFailed`).

Abstractions: every wait has a time-out, which is an outcome of the step; the
proofs that media flow (watermarks, probes, readiness files) succeed or fail;
the recovery's budget, attempts in a stretch of time, is a refusal that
may always happen; the ends of a receiver (stop, exit, no signal) are one; a
backend does not die by itself (the code then fails the route, and the change
with it); a request for the settings in force, which only reads, and sessions
without a ledger, whose publisher restarts by itself, are left out. The second
branch of `StartBackend` that fails covers every error after the process may
have started.

### Proof modules

`ConversionQueueProofs`, `MediaLibraryProofs`, `MediaIngestProofs`,
`BrowserPoolProofs`, `ObsReceiverProofs`, `RtspPublicationProofs`,
`WorkerSessionProofs` and `DirectDeliveryProofs` extend the component and TLAPS.
Two extend more: `ConversionQueueProofs` extends `ConversionPublish`, the queue
with its watchers, and `MediaLibraryProofs` extends `MCPublishRevision`, the
library with browsers and exports and with the scenes of its run.
The `MC…` modules only name the instances for TLC, except `MCPublishRevision`,
which runs two scenes in one instance: in one, a browser and an export work
beside the library, whose file operations succeed; in the other, one of the
media is an OBS recording, and file operations fail. `SharedHistoryIsServable`
and its companions are the library's properties in the first.

## Runs

| Run | Shows | Bounds |
|---|---|---|
| ConversionSlots | one worker per queue; no unfinished job falls off the list; the `activeHLS` entry names a live owner; done means written to its end | 2 jobs (symmetric) that join a converted one, whose watcher alone runs, none cancelable, both cleared at any time, 2 streams (symmetric), 1 reset, list limit 1, 2 goroutine identities (symmetric) |
| ConversionLive | displaced encodes are under a cancelled context; what reaches the library is whole, or torn by a removal; a preempted job is retried; the queue settles; what is done is marked | 2 jobs with their watchers, one cancelable, the other cleared at any time, 1 goroutine identity, fairness |
| ConversionResumed | *violation*: a canceled job runs after all | 2 jobs, both cancelable |
| ConversionLostWakeup | *violation*: a queued job stays pending with no worker | 2 jobs, nothing canceled, fairness |
| LibraryShared | entries have files; favorites are durable and end by unfavoriting only; converted trees are whole; a polled revision vouches for the polled list; an export commits over the published set it started from; the recording being played is not pruned | 2 media (symmetric), history limit 1, revision up to 2, a browser and an export, restarts at any point; or an OBS session, failing file operations, repeated favorites |
| MediaIngestSafety | the slot has an owner and is single; queued URLs are converted from their own bytes | 3 requests, every combination of the nine kinds, 1 stored item |
| MediaIngestSelects | *violation*: a conversion is made from another item's bytes | 2 selections, 2 stored items |
| BrowserPoolShared | the pool implements `LeaseSlot`; no context stays behind; the connection is closed last; `lease.done` is closed once; Close ends, a canceled job gives up its lease | 2 leases, 2 callers of Close (one waits for the owner's context), fairness |
| ObsReceiverShared | a revoked listener changes nothing; the item shown moves forward; a time-out ends its own wait; the receiver implements `ObsSessions` | a handler, a time-out, 3 listeners, 2 sessions |
| RtspPublicationRaces | a forwarded port has a holder, or its deletion failed; a mapping ends with its stream | 1 handler, 2 listeners, 2 publications under way (both symmetric), 2 sessions, the router fails for the first |
| WorkerSessionRetires | a job keeps its session; no orphan; idle means idle; a shutdown ends the last process | 4 calls, 2 identities, 2 sessions, 3 jobs a session, fairness |
| DirectDeliveryRaces | one publisher at a time; no connection to the old route after a commit; a candidate is given up when nothing of it is left; the three parties implement `DeliveryPromise`; a change is answered | 2 settings, 3 generations, 1 process that dies by itself, fairness |

Why the bounds are enough. A queue needs two jobs for a preemption, three and a
limit of one for a finished job to be pruned, which is why `ConversionSlots`
starts with a third that has been converted (`UsedInit`, a state that `PubSpec`
reaches); a second goroutine identity so that a
second worker could exist (`ConversionLive` has one because `OneWorker` proves
that a second is never used). The limit of the history is one, so that the
second item prunes.
Revisions only are compared for equality: two changes after the first reading
suffice for a stale one. Three requests let one hold the slot, one race it and
one disturb the shared state. Two leases are a stale one and a newer one, two
callers of Close are the first and one that waits for it, and either lease has
four releasers. Three listeners are a revoked one, its successor and the one
after a restart of that; two sessions are the old and the new, with whose
callbacks, endpoint and timer everything else can be confused. Two publications
under way are one that comes late and one that overtakes it; the router fails for
the first session, so that what is left of it meets the second. A worker session
that serves three jobs at most has an idle period that follows another one, so
that the timer of the first can come in the second; the fourth call finds the
session full or replaced, and the second session is its successor. Three
delivery generations are the one in force, the candidate of a change, and the
one of its restoration, of a recovery or of the next change but one; one crash
is enough for a recovery, and processes that are asked to end do so in any way
besides. Symmetry is used where no liveness is checked: goroutine
identities, external streams, random media ids of one kind, requests (whose
kinds are chosen in the initial state).

`CHECK_DEADLOCK FALSE` everywhere: every job is enqueued at most once, every
request made at most once and the revision is bounded, so each instance ends in
a state with nothing left to do; the real program waits for more input there.

The type invariants are not checked by runs: those of the modules with a proofs
module are theorems (`Typing`, `TypeCorrect`, `RtspTypeCorrect`).

The properties, by run (each is stated, with a comment, in the module named in
`PROJECT.json`; \* marks liveness):

* ConversionSlots: `SingleWorker`, `UnfinishedIsListed`, `SlotNamesLiveOwner`,
  `DoneMeansComplete`
* ConversionLive: `DisplacedEncodeIsCancelled`, `ConvertedIsComplete`,
  `PreemptedIsRetried`\*, `QueueSettles`\*, `DoneIsMarked`\*
* ConversionResumed: `CanceledNeverResumed`
* ConversionLostWakeup: `PendingIsTakenUp`\*
* LibraryShared: `SharedHistoryIsServable`, `SharedFavoritesAreDurable`,
  `SharedConvertedIsWhole`, `PolledViewIsCurrent`, `CurrentRecordingIsServable`,
  `SharedFavoriteIsKept`, `ExportIsUnraced`
* MediaIngestSafety: `SlotHasOwner`, `ExclusiveIngest`, `QueuedIsOwn`
* MediaIngestSelects: `ConvertedIsOwn`
* BrowserPoolShared: `NoStrayContext`, `ControlIsLast`, `DoneIsClosedOnce`,
  `ImplementsLeaseSlot`, `CloseEnds`\*, `CanceledJobEnds`\*
* ObsReceiverShared: `RevokedLoopIsInert`, `ShownMovesForward`, `TimeoutIsOwn`,
  `KeepsPromise`
* RtspPublicationRaces: `MappingHasHolder`, `MappingEndsWithRound`
* WorkerSessionRetires: `JobHasItsSession`, `NoOrphan`, `IdleIsIdle`,
  `ShutdownEndsWorkers`\*
* DirectDeliveryRaces: `OnePublisher`, `OldRouteIsSilent`, `ReleaseIsSafe`,
  `KeepsDeliveryPromise`, `RequestsAreAnswered`\*

Each property has a mutant: an operator beside the definition it replaces,
marked *Mutant*, that changes it as a plausible bug would and breaks the
property in the same run.

## Fairness

Only `ConversionLive`, `ConversionLostWakeup`, `BrowserPoolShared`,
`WorkerSessionRetires` and `DirectDeliveryRaces` assume any.

The conversion queue: the holder of the
mutex goes on (it never blocks while it holds it); a worker goroutine goes on
(ffmpeg ends on a finite source, the context kills it otherwise); the two steps
that acquire the mutex are strongly fair, because a Go `sync.Mutex` hands over
to a waiter after a millisecond (its starvation mode); a watcher's ticker
fires. Nobody is obliged to enqueue, cancel, begin or end a
stream, clear, or reset.

The browser pool: an acquisition, a release and a Close under way go on, because
every call to the browser has a deadline (20 s), a cleanup is abandoned after a
time-out, and none of them waits except for `p.changed`, `closeDone` or another
party that goes on. The goroutines that select on a context's end run once it
has ended. Nobody is obliged to acquire, to release when a job is through, to
cancel, or to call Close.

The worker sessions: the goroutine of a job goes on when it can, a timer fires,
the goroutine that waits for the owner's context runs once it has ended, and
`closeAndWait` ends because the process is killed after its time of grace.
Nothing is assumed of the process, which may never answer, nor of the contexts,
which may never end.

The delivery of a direct session: the transaction, the monitor and the worker of
a validation go on, because each of their waits (the stop of a process, the
proof of media, the drain, the stop of a backend) has a time-out in the code.
The monitor's `select` serves each of its cases, so a command is taken although
other cases are ready again and again (`WF_vars(Take)`). Nothing is assumed of
users, clients and processes.

## What is proved

For every number of jobs, workers, media, streams and requests, and every limit:

* `ConversionQueueProofs`
  * `Typing`: the type invariant.
  * `OneWorker`: at most one worker goroutine. The strengthening says that
    `running` holds whenever a worker is on, which is only cleared by that
    worker itself.
  * `HonestSlot`: the unlocked slot never names somebody who has left. It
    rests on `OneWorker`: with two workers the deferred delete of one could
    remove, and the store of the other resurrect, an entry.
  * `DisplacedEncodesEnd`: an encode whose job is not `running` any more has a
    cancelled context. The invariant `Leash` follows the context from its
    creation through the window in which the worker is still to set the status.
  * `DoneIsComplete`: with one job per media id, a job reported done stands for
    a tree that an encode wrote to its end; it is missing only where `Clear` or
    a reset has removed it since. The invariant (`DoneInv`) says that no run
    works for a job that is done, and that the tree of a job between its encode
    and its verdict is written or removed, and told so in `swept`.
  * `NoUnfinishedJobIsPruned`: pruning drops no pending or running job, except
    one whose media id handlers cancel. The invariant keeps track of what the
    holder of the mutex has tested (`victim`, `todo`), because the test and the
    write are apart.
  * `WorkerFindsItsJob`: whenever the list has a pending job, exactly one is the
    newest, so that `nextPending` has one answer. It justifies that the model
    keeps a set with positions of arrival where the code keeps a slice:
    `ArrivalInv` says that no two jobs have one position, because a new one is
    higher than the number of jobs before it.
  * `ListStaysShort`: every enqueuer leaves at most `Limit` finished jobs on the
    list, takes off finished ones only, and these are older than all that stay;
    nobody else takes a job off. `pruneLocked` admits a job whose place among
    the finished ones is within the limit; places differ (`PlacesDiffer`), so
    that what stays maps one-to-one into 1..`Limit`.
  * `PublishingIsOfQueue`: a behaviour of the queue with its watchers is one of
    the queue, so that all of the above holds of the composition.
  * `ConvertedIsWholeTree`: with one job per media id, the library never keeps a
    half-written tree as the converted copy, although poll, listing and copies
    are steps of their own and the queue preempts, cancels and prunes in between;
    a torn tree it keeps only where `Clear` or a reset has begun to remove it.
    `SeenDone` is the heart of it: a job that a watcher saw done, under the
    mutex, is nobody's victim, since whoever tests a job keeps the mutex until
    it has written it; so it stays done for ever, and by `DoneInv` no encoder is
    at work on its tree (`SweptStays`). It needs one job per media id for the
    reason given below.
  * `NoResultIsLost`, the part of `DoneIsMarked` that is safety: the watcher of a
    job that no handler may cancel does not give up on it. When it has ended and
    the job is done and still listed, the library has the complete copy, unless
    `Clear` or a reset has begun to remove the tree. A watcher ends when it sees
    the job over, finds no files, misses one, or has copied; `EndedIsOver` says
    that what it saw over was over for good (not a job about to be preempted or
    run again), and that files are missing only after a removal. A job that was pruned before the poll
    is the exception the statement names: nobody sees its result again.
* `MediaLibraryProofs`, for any media, history limit and revision bound
  * `Typing`: types, and that an operation under way is about an item that is
    still in the history.
  * `Servable`: without sessions and failing copies, a crash at any point leaves
    no entry without its file. The invariant `ServableInv` speaks about
    `favorites.json` too: what it lists has its file, except the item that is
    being unfavorited, because a restart turns its list into the history.
  * `FavoritesSurvive`: whenever the mutex is free a restart would bring back
    every favorite with its two flags. `ListedAreSaved` says so at every step,
    but for the converted flag of a favorite that is being marked, which is set
    one step before the save. `FavoritesEndByUnfavoriting`: no step, a restart
    in the middle of any operation included, makes an item stop being a favorite
    but the steps that unfavorite it.
  * `ConvertedRestores`: an item marked converted has a whole tree where
    `ConvertedPath` looks. `TreeInv` follows both copies: a tree in
    `favorites/converted` is partial only under the step that is making it
    (`FavoriteTreesAreWhole`), the workspace copy of a converted item that is no
    favorite is whole (`WorkTreesAreWhole`), and a copy under `favorites/` that
    is begun is of an item that was not saved there before (`CopiesAreNew`).
  * The three above assume that no session rewrites its id (`Live = {}`) and
    that file operations succeed (`Faults = FALSE`), and `ConvertedRestores`
    that neither `SetFavorite(true)` nor `MarkConverted` is repeated
    (`Repeats = FALSE`): each fails without, as the list of disagreements below
    says.
  * `RecordingStays`: the recording that is played from its history file stays
    in the history with its file, whatever fails and whoever rewrites what.
    `NewestIsKept`: what has just been added is never pruned.
  * `HistoryStaysShort`: a step that adds an item leaves at most `Limit` items
    that are neither favorites nor the recording being played, and drops only
    items older than these; also without assumptions.
  * `CompositionIsOfLibrary`: browsers and exports change the library by its own
    operations only; the theorems above carry over to `PublishRevision`.
  * `PolledIsCurrent` and `ExportsAreUnraced`, without assumptions: a polled
    revision that still stands vouches for the polled list, and an export
    commits over the published set it started from. A step of the library moves
    the revision, or is a restart, or changes the published set only by items
    that leave the history (`StepsVouch`, `FlagsStay`), and no id that has left
    is drawn again (`FreshInv`); `Viewed` and `Exported` carry this over the
    steps between the reading of the revision, of the history, and the commit.
    They hold for sessions, failing operations, browsers and exports together,
    where the run has the first two or the last two in a behaviour.
  * `SharedServable`, `SharedFavoritesSurvive`, `SharedFavoritesEnd`,
    `SharedConvertedRestores`: the same for the composition begun in the scenes
    that `LibraryShared` runs, for any media, clients and exports.
* `MediaIngestProofs`
  * `SlotIsOwned`: the slot is never left active by nobody. Every handler's
    step is shown to be one of four moves (`Permitted`).
  * `IngestIsExclusive`: unless an audio upload is among the requests, at most
    one handler goes by the slot; the strengthening is that whoever owes a
    release finds the slot taken.
  * `Typing`: what each handler has read and what it leaves in the Store and in
    the queue is of its type; in particular the current item is always one that
    clearing the media forgets.
  * `QueuedConvertsOwn`: when no history item is selected or queued, a queued URL
    is converted from its own bytes and under no other id. The invariant follows
    the bytes of a request through the two files that may hold them
    (`BytesAreOwn`), and says of every pair of an id and a file that a handler
    has read, the Store shows or the queue holds, that a queueing request is
    paired with its own history file only and never becomes current
    (`PairsAreOwn`).

* `BrowserPoolProofs`
  * `Typing`, and `DoneOnce`: `lease.done` is closed once. One invariant carries
    all of the module: the slot is held by the one lease that has begun and is
    not released (`HolderInv`); a lease has one cleaner at most and its flag
    `cleaning` stands for it (`ReleaseInv`); Close has shut the pool before it
    waits, and found the slot free before it goes on (`CloseInv`). None of the
    three is inductive without the others.
  * `ControlGoesLast`: the connection is closed under no acquisition and no
    cleanup.
  * `NoneStray`: a context other than the leased one implies that the pool is
    terminal or its owner gone. The strengthening says that a failure which may
    have left a context is terminal, or the pool is shut, before it is recorded.
  * `PoolImplementsSlot`: the refinement, one lemma per group of actions
    (`Slot…`), each mapping a step to a step of `LeaseSlot` or to a stutter.

* `ObsReceiverProofs`, for any handlers and any numbers of listeners and sessions
  * `TypeCorrect`: types; a session that is current or has a URL was accepted.
  * `RevokedLoopCorrect`: a revoked listener changes nothing of the `Manager`.
  * `ShownCorrect`: the item shown moves forward. It needs `DoneIsOver` (a
    session whose OnDone is being made is not current any more, so its OnStart
    can no longer commit) and `RecordedIsOver`.
  * `TimeoutCorrect`: a time-out ends its own wait; `TimerIsLatest` says that a
    timer that is set was set for the newest session.
  * `UrlCorrect`: a URL is shown only for the connected session.
  * `ReceiverKeepsPromise`: the refinement, one lemma per group of actions. The
    strengthening says who may speak of a session: only a listener that
    owns the receiver streams (`OwnerStreams`) and offers (`OwnerOffers`), and a
    goroutine that is busy makes no callback (`BusyCallsNothing`).
* `RtspPublicationProofs`
  * `RtspTypeCorrect`: types.
  * `HolderCorrect`: every forwarded port has a holder or is stranded: the
    server loses no handle, but what the router fails to delete stays. Nearly
    inductive: a goroutine that closes a handle does nothing else, so no handle
    is overwritten.
  * `EndsCorrect`: a mapping ends with its stream. `OfferedIsKnown` says that
    whoever speaks of the connected session does so after its endpoint was
    known, and `EndpointOfCurrent` that the endpoint is not withdrawn before.
* `WorkerSessionProofs`, for any number of calls, sessions and jobs
  * `TypeCorrect`: types.
  * `JobKeepsItsSession`, `NothingIsOrphaned`, `IdleCorrect`: the three safety
    properties of its run. They rest on who may end a session: the current one
    is started and nobody closes it (`CurrentIsFree`), no other session than
    the job's becomes current while it runs (`CurrentOfJob`), and if the job's
    is not current any more somebody retires it (`LostIsRetired`). A deadline
    is that of the idle period that is on (`DeadlineIsServed`), so that a timer
    goroutine which comes late finds another deadline. `ClosedIsGone` and the
    three parts about sessions that are being started close the induction.

* `DirectDeliveryProofs`, for any settings and any numbers of generations and crashes
  * `TypeCorrect`: types.
  * `PublishersAreSingle`, `RouteIsSilent`, `ReleasesAreSafe`: the three safety
    properties of its run. The invariant has five parts beside the types, none
    inductive alone.
    `CommandIsCurrent`: the command with the monitor is the transaction's; one
    without a transaction is the last of its session. `PublishersAreKnown`: which
    publisher may run while the monitor is where it is, none between the end of
    the old one and the start of the candidate. `ProcessesAreClaimed`: what runs,
    or has a completion, is the first publisher or that of a claimed candidate,
    and no completion confirms the end of what runs. `LedgerIsKept`: the active
    generation is committed, the pending one prepared, a claimed one allocated.
    `PlanIsAgreed`: the candidate carries what the transaction is for, and the
    settings in force are those of its beginning until the commit, which only
    the verdict can follow.
  * `DeliveryKeepsPromise`: the refinement, one lemma per group of actions. It
    needs that only `CommitCandidate` moves the plan in force, that it happens
    for the transaction's candidate, and that `Committed` cannot tell otherwise
    afterwards.

The assumptions are those named in the modules (`…Assumption`), which TLC
evaluates for every instance, and the hypotheses in the statements.

## What is only model-checked

Liveness (`PreemptedIsRetried`, `QueueSettles`, `DoneIsMarked`, `CloseEnds`,
`CanceledJobEnds`, `ShutdownEndsWorkers`, `RequestsAreAnswered`): fairness and
ENABLED are out of the prover's reach, so these hold for the instances of the
runs. The three runs that end in a violation are about statements that the code
refutes; `QueuedConvertsOwn` is what remains of one of them.

## Disagreements between the code and what it says of itself

Three have a run: a canceled conversion can be resumed (`ConversionResumed`), a
queued one can be left without a worker (`ConversionLostWakeup`), and selecting
two history items in a row can convert one's bytes under the other's id
(`MediaIngestSelects`). Each was found as a counterexample and followed in the
source. The others that came up while modelling have no run of their own;
the properties are stated so that they hold in spite of them:

* `Store.Clear` deletes the segments of a running encode, or of a finished one
  that is not copied yet, and the result is marked as converted without them
  (`library/store.go:943`, reached from `server/server.go:2089` and, by every
  upload by URL, from `server/server.go:1013`). The specification of the state
  says "不完全なコピー・外部ツール失敗・セグメント欠落を `Converted=true` または公開成功に
  してはならない" (`specifications/03_状態・保存・ライフサイクル.md:53`). In the model:
  `converted[m]` becomes "torn" sixteen steps into `PubSpec` with `Cleared`
  not empty. `DoneMeansComplete`, `ConvertedIsComplete` and `DoneIsMarked` say
  that this is the only way to an incomplete result. A reset of the workspace
  does the same when the encoder outlives the two seconds of `stopActive`.
* Two jobs for the same media id: the watcher of the first copies the tree while
  the second rewrites it (`server/server.go:2507`). The runs give each media id
  one job, and `DoneIsComplete`, `ConvertedIsWholeTree` and `NoResultIsLost`
  assume it.
* `MarkConverted` and `SetFavorite(true)` copy a tree into
  `favorites/converted/<id>` in place. A copy that fails half-way leaves the
  flag set over a partial tree (`library/store.go:817`); repeating either on a
  favorite and crashing in the middle does so after a restart
  (`library/store.go:698`). `ConvertedIsWhole` is checked with `Faults` and
  `Repeats` off.
* A crash between the two renames that put the recording of a session in the
  place of a favorite's file (`library/store.go:1143`) leaves the file under the
  name of a backup, which no restart looks for.
* A second write of a session's id replaces the history item without its
  favorite flag (`library/store.go:975`). `FavoriteIsKept` is checked without
  sessions.
* Unfavoriting an item whose workspace file is gone takes it out of the
  published set without a new revision (`library/store.go:714`).
* A toggle with revision 0 is not compared (`server/server.go:2675`), the
  comparison is not in the same critical section as the write, and the answer
  pairs the history with a revision read later (`server/server.go:2687`).
  `PolledViewIsCurrent` is about polled views only.
* An audio upload sets and clears the ingest slot without claiming it
  (`server/server.go:1443`). `ExclusiveIngest` is conditional on it.
* After publishing, the handlers ask the `Store` for the current id
  (`server/server.go:1612`): of two concurrent uploads one may be converted
  under the other's id. Two images share `current<ext>`, written outside the
  mutex (`library/store.go:186`).
* `handleUploadURL` clears the media directory before it asks for the slot
  (`server/server.go:1013`): a request answered with 409 has by then removed
  the download of the one that holds it.
* A shutdown during `Acquire` is meant to be no fault of the browser
  (`shutdownCancellationIsNonFaulting`, and the test
  `TestBrowserPoolCloseCancellationAtEachAcquireStageIsNonFaulting`, whose fake
  returns the context's error). The real connection is interrupted by a deadline
  of now (`nicorender/browser_pool.go:662`), so its call returns an i/o time-out,
  which is neither of the two errors the function recognises: Close then
  reports a broken pool. That a job canceled during `Acquire` makes the pool
  terminal is, on the other hand, intended
  (`TestBrowserPoolJobCancellationDuringTargetRemainsTerminal`).
* A queued commented niconico video polls for the ingest slot without a queue
  (`server/niconico_upload.go:60`): others may overtake it without end.
* An error of reading `favorites.json` is ignored at the start, and the next save
  overwrites the list with what is in memory (`library/store.go:1039`).
* The key, the latency and the end of a stream restart the receiver without
  closing the RTSP mapping (`server/server.go:2110`), and a revoked listener
  makes no OnRTSPDone: the router forwards the port until another session is
  published or the receiver is turned off.
  `docs/superpowers/specs/2026-06-29-public-rtsp-tcp-upnp-design.md:166` says
  "A router mapping exists only during an actively published RTSP session".
  `MappingEndsWithRound` is about sessions that no stop has cut off.
* Publishing a stream once more maps the same ports and then closes the previous
  handle, which deletes the entry just made (`server/server.go:633`): the URL
  stays shown, the port is shut. `MappingHasHolder` is about entries that exist.
* A deletion that the router refuses, or does not answer within six seconds, is
  not repeated (`upnp/upnp.go:113`): the handle counts as
  closed and the port stays forwarded until the same port is mapped again or
  `CleanupImagePadRTSPMappings` runs, at the end or at the next start of the
  program (`app/app.go:93`). `MappingHasHolder` names these entries (`stranded`)
  and claims nothing of them.
* A publication that finds its session gone closes the mapping and moves
  `rtspReadySeq` on (`server/server.go:639`): one of a newer session that is
  under way is discarded with it and not repeated.
* `handleOBSEnd` restarts the receiver, which revokes the listener's finalizer
  (`obsrtmp/manager.go:1738`): OnDone is not called, and the item stays live
  until something replaces it.
* After an error of the hardware encoder the round is repeated with the software
  encoder under the same session id, and removes the recording that was finished
  under it (`obsrtmp/manager.go:755`).
* A round reads whether publishing is armed when it begins, long before a stream
  connects (`obsrtmp/manager.go:736`): one that connects after disarming is
  reported to the library when it ends, though it was never published.
* A worker process that dies closes no pipe that the job reads: the job waits
  until its own context or the owner's ends
  (`server/niconico_worker_session.go:545`). The wait for hello and ready looks
  at the owner's context only (`server/niconico_worker_session.go:367`), and the
  jobs behind it wait for `runMu`. `ShutdownEndsWorkers` holds in spite of both.
* The error of an idle retirement is reported to the next job, which is not run
  (`server/niconico_worker_session.go:216`).
* A publisher that was just recovered and crashes before the monitor has taken in
  the end of that recovery is not recovered, and its status stays at running
  (`airplay/source_clock_session.go:837`; the end of the recovery is then of
  another generation and changes nothing, `:1385`). A manual retry is refused
  because the status says running, and a failed change of the settings reports
  that the delivery is being maintained (`airplay/source_clock_reconfigure.go:343`),
  which `src/airplay-stability-repair-plan.md:287` forbids
  ("旧publisher終了済みなのに「旧配信を維持」と報告しない"). No property speaks of the
  status.
* A manual retry that is pending when a recovery hands over its candidate makes
  the recovery fail, and a generation is recovered once
  (`airplay/source_clock_reconfigure.go:287`).
* When the video view of a claimed candidate cannot be prepared
  (`airplay/source_clock_session.go:1166`), no completion is recorded, although
  the contract asks for "an explicit not-started or exit-confirmed publisher
  completion" (`airplaycontract/delivery_candidate.go:24`): the candidate cannot
  be given up, and the session accepts no further change. The third case of
  `StartCandidate` is this; `ReleaseIsSafe` holds, and the change is answered.
* A process whose end is not confirmed has the same effect, on purpose.
* `DirectRepresentativeRecording` takes the outcome of the highest generation
  that was registered, a candidate that was given up included
  (`obsrtmp/direct_publish.go:946`), where its comment speaks of the committed
  one (`:839`). Recordings are not modelled.
* `useOrCreateVideoThumbnail` passes the two paths of `copyFile` in the other
  order than its other callers; thumbnails are not modelled.

## Not modelled

The components without a module in `PROJECT.json`, with the reason for each:
those of the open steps of the plan are still to come. Of the modelled ones, the
start of a direct AirPlay session and the music radio share the receiver's and
the address's variables with what is modelled; the recordings of a direct session
and a backend that dies under it are left out; and the external programs (ffmpeg,
MediaMTX, the browser, the worker process) are what the code sees of them. A
large part of the repository is outside for good: signal processing, layout,
image and network I/O, desktop integration and the native compositors have no
state a model checker could say anything about.
