--------------------------- MODULE ConversionQueue ---------------------------
(***************************************************************************)
(* The HLS conversion queue of internal/video/publisher.go.                *)
(*                                                                         *)
(* Every output directory has one queueState: a list of jobs (newest       *)
(* first), a mutex and a "running" flag.  Enqueuing a job preempts the one *)
(* that is running and starts the worker goroutine when none is running.   *)
(* The worker takes the mutex to pick a job and to clear "running", but it *)
(* reads and writes the fields of the job it runs WITHOUT the mutex; the   *)
(* operations that do hold the mutex therefore test a status in one step   *)
(* and overwrite it in another, and the worker may move in between.        *)
(*                                                                         *)
(* The list is represented by the set of its members and by the order of   *)
(* their arrival: the code only ever prepends to it and filters it.        *)
(***************************************************************************)
EXTENDS Naturals, FiniteSets

CONSTANTS
  Jobs,        \* conversion jobs that may be enqueued, each at most once
  Media,       \* media ids: history items of the library
  MediaOf,     \* the media id each job converts (QueueItem.MediaID)
  Replaced,    \* the media ids whose conversion a handler may cancel
  Workers,     \* goroutine identities available to "go state.run"
  Streams,     \* external HLS sessions (OBS, AirPlay) sharing the directory
  Limit,       \* argument of pruneLocked
  Resets,      \* whether the workspace is reset while the queue is in use
  Cleared,     \* the media ids whose files Store.Clear may come upon
  NoJob        \* the nil job / the empty activeHLS slot

ASSUME ConversionQueueAssumption ==
  /\ MediaOf \in [Jobs -> Media]
  /\ Replaced \subseteq Media
  /\ Cleared \subseteq Media
  /\ IsFiniteSet(Jobs)
  /\ Limit \in Nat \ {0}
  /\ Resets \in BOOLEAN
  /\ NoJob \notin Jobs \cup Streams
  /\ Jobs \cap Streams = {}

VARIABLES
  items,      \* jobs in queueState.items
  arrival,    \* arrival[j]: position at which j was prepended (0: never)
  status,     \* QueueItem.Status ("unborn" before it is enqueued)
  preempted,  \* queueJob.Preempted
  ctx,        \* the context that queueJob.Cancel cancels
  running,    \* queueState.running
  mu,         \* queueState.mu: "free", or the step its holder is at
  victim,     \* the job the holder of mu has tested and is about to write
  todo,       \* jobs the canceling holder of mu has still to visit
  wpc,        \* program counter of each worker goroutine
  wjob,       \* the job each worker goroutine has picked
  active,     \* activeHLS[outDir]
  stream,     \* life of each external HLS session
  reset,      \* program counter of RemoveGenerated
  output,     \* the HLS tree of each media id in the output directory
  swept       \* media ids whose tree others have begun to remove since its
              \* encode began: files may be missing from it

queueVars  == <<items, arrival, running, mu, victim, todo>>
jobVars    == <<status, preempted, ctx>>
workerVars == <<wpc, wjob>>
slotVars   == <<active, stream, reset>>
fileVars   == <<output, swept>>
vars == <<items, arrival, status, preempted, ctx, running, mu, victim, todo,
          wpc, wjob, active, stream, reset, output, swept>>

Statuses == {"unborn", "pending", "running", "done", "error", "canceled"}
Unfinished == {"pending", "running"}

(* Steps of state.run and runQueueJob.                                     *)
WorkerPCs == {"off", "next", "quit", "picked", "starting", "armed",
              "launched", "encode", "finalize", "failed", "requeue",
              "finishDone", "finishError", "finishCanceled",
              "closing", "leaving", "deleting"}

(* Steps at which the worker owns a context it created for this run.       *)
InRun == {"armed", "launched", "encode", "finalize", "failed", "requeue",
          "finishDone", "finishError", "finishCanceled", "closing",
          "leaving", "deleting"}

(* Steps at which the run is registered in activeHLS.                      *)
Registered == InRun \ {"armed"}

(* Mutant: the context is not canceled.                                    *)
NoCancel(j) == ctx' = [ctx EXCEPT ![j] = @]

(* context.CancelFunc: it has an effect on a live context only.            *)
CancelCtx(j) ==
  ctx' = [ctx EXCEPT ![j] = IF @ = "live" THEN "cancelled" ELSE @]

-----------------------------------------------------------------------------
(* enqueueConversion, in the three steps between which the worker, who does *)
(* not take the mutex to change a job, may move.                           *)

(* Lock, prepend the job and test the others for a running one.            *)
EnqueueLock(j) ==
  /\ mu = "free"
  /\ status[j] = "unborn"
  /\ items' = items \cup {j}
  /\ arrival' = [arrival EXCEPT ![j] = Cardinality({k \in Jobs : status[k] # "unborn"}) + 1]
  /\ status' = [status EXCEPT ![j] = "pending"]
  /\ \/ /\ \E k \in items : status[k] = "running" /\ victim' = k
        /\ mu' = "preempt"
     \/ /\ \A k \in items : status[k] # "running"
        /\ mu' = "enqueue"
        /\ UNCHANGED victim
  /\ UNCHANGED <<preempted, ctx, running, todo, workerVars, slotVars, fileVars>>

(* preemptRunningLocked: put the tested job back to pending and cancel it. *)
EnqueuePreempt ==
  /\ mu = "preempt"
  /\ preempted' = [preempted EXCEPT ![victim] = TRUE]
  /\ status' = [status EXCEPT ![victim] = "pending"]
  /\ CancelCtx(victim)
  /\ victim' = NoJob
  /\ mu' = "enqueue"
  /\ UNCHANGED <<items, arrival, running, todo, workerVars, slotVars, fileVars>>

(* Mutant: unfinished jobs count against the limit like finished ones.     *)
PrunedByAge ==
  {j \in items : Cardinality({k \in items : arrival[k] >= arrival[j]}) <= Limit}

(* pruneLocked: above the limit, keep every unfinished job and the newest  *)
(* Limit finished ones.                                                    *)
Pruned ==
  IF Cardinality(items) <= Limit THEN items
  ELSE {j \in items :
          \/ status[j] \in Unfinished
          \/ Cardinality({k \in items : /\ status[k] \notin Unfinished
                                        /\ arrival[k] >= arrival[j]}) <= Limit}

(* Mutant: every enqueued job gets a goroutine.                            *)
StartAlways == \E w \in Workers : wpc[w] = "off" /\ wpc' = [wpc EXCEPT ![w] = "next"]

(* The worker goroutine is started unless one is running.                  *)
StartWorker ==
  \/ /\ running
     /\ UNCHANGED wpc
  \/ /\ ~running
     /\ \E w \in Workers : wpc[w] = "off" /\ wpc' = [wpc EXCEPT ![w] = "next"]

(* Prune, start the worker, unlock.                                        *)
EnqueueUnlock ==
  /\ mu = "enqueue"
  /\ items' = Pruned
  /\ StartWorker
  /\ running' = TRUE
  /\ mu' = "free"
  /\ UNCHANGED <<arrival, jobVars, victim, todo, wjob, slotVars, fileVars>>

-----------------------------------------------------------------------------
(* CancelConversion(outDir, id): visit every job of the media id; a job    *)
(* found pending or running is marked canceled and its context canceled.   *)

CancelLock(m) ==
  /\ mu = "free"
  /\ m \in Replaced
  /\ todo' = {j \in items : MediaOf[j] = m}
  /\ todo' # {}
  /\ mu' = "cancel"
  /\ UNCHANGED <<items, arrival, jobVars, running, victim, workerVars, slotVars, fileVars>>

CancelTest(j) ==
  /\ mu = "cancel" /\ victim = NoJob
  /\ j \in todo
  /\ todo' = todo \ {j}
  /\ \/ status[j] \in Unfinished /\ victim' = j
     \/ status[j] \notin Unfinished /\ UNCHANGED victim
  /\ UNCHANGED <<items, arrival, jobVars, running, mu, workerVars, slotVars, fileVars>>

CancelWrite ==
  /\ mu = "cancel" /\ victim # NoJob
  /\ preempted' = [preempted EXCEPT ![victim] = FALSE]
  /\ status' = [status EXCEPT ![victim] = "canceled"]
  /\ CancelCtx(victim)
  /\ victim' = NoJob
  /\ UNCHANGED <<items, arrival, running, mu, todo, workerVars, slotVars, fileVars>>

CancelUnlock ==
  /\ mu = "cancel" /\ victim = NoJob /\ todo = {}
  /\ mu' = "free"
  /\ UNCHANGED <<items, arrival, jobVars, running, victim, todo, workerVars, slotVars, fileVars>>

-----------------------------------------------------------------------------
(* state.run and runQueueJob, by worker goroutine w.                       *)

Goto(w, pc) == wpc' = [wpc EXCEPT ![w] = pc]

(* Keep the queue, the jobs, the slot or the files as they are.            *)
KeepQueue  == UNCHANGED <<items, arrival, running, mu, victim, todo>>
KeepRun    == KeepQueue /\ UNCHANGED <<wjob, stream, reset>>

(* Mutant: canceled jobs are candidates too.                               *)
IsNotOver(j) == status[j] \notin {"done", "error"}

(* nextPending: under the mutex, the newest pending job of the list.       *)
IsPending(j) == status[j] = "pending"

Newest(j) == \A k \in items : IsPending(k) => arrival[k] <= arrival[j]

WNext(w) ==
  /\ wpc[w] = "next" /\ mu = "free"
  /\ \/ \E j \in items : /\ IsPending(j) /\ Newest(j)
                         /\ wjob' = [wjob EXCEPT ![w] = j]
                         /\ Goto(w, "picked")
     \/ /\ \A j \in items : ~IsPending(j)
        /\ Goto(w, "quit")
        /\ UNCHANGED wjob
  /\ KeepQueue /\ UNCHANGED <<jobVars, slotVars, fileVars>>

(* The mutex is released before it is taken again to clear "running".      *)
WQuit(w) ==
  /\ wpc[w] = "quit" /\ mu = "free"
  /\ running' = FALSE
  /\ Goto(w, "off")
  /\ UNCHANGED <<items, arrival, mu, victim, todo, jobVars, wjob, slotVars, fileVars>>

(* The unlocked test at the head of runQueueJob.                           *)
WCheck(w) ==
  /\ wpc[w] = "picked"
  /\ \/ status[wjob[w]] = "canceled" /\ Goto(w, "next") /\ wjob' = [wjob EXCEPT ![w] = NoJob]
     \/ status[wjob[w]] # "canceled" /\ Goto(w, "starting") /\ UNCHANGED wjob
  /\ KeepQueue /\ UNCHANGED <<jobVars, slotVars, fileVars>>

(* A fresh context, then the "running" status, then the activeHLS entry.   *)
WArm(w) ==
  /\ wpc[w] = "starting"
  /\ ctx' = [ctx EXCEPT ![wjob[w]] = "live"]
  /\ preempted' = [preempted EXCEPT ![wjob[w]] = FALSE]
  /\ Goto(w, "armed")
  /\ KeepRun /\ UNCHANGED <<status, active, fileVars>>

WStart(w) ==
  /\ wpc[w] = "armed"
  /\ status' = [status EXCEPT ![wjob[w]] = "running"]
  /\ active' = wjob[w]
  /\ Goto(w, "launched")
  /\ KeepRun /\ UNCHANGED <<preempted, ctx, fileVars>>

(* EnsureFFmpeg may fail; ffmpeg does not start under a canceled context,  *)
(* and begins a tree of its own when it does.                              *)
WLaunch(w) ==
  /\ wpc[w] = "launched"
  /\ \/ Goto(w, "finishError") /\ UNCHANGED fileVars
     \/ ctx[wjob[w]] = "cancelled" /\ Goto(w, "failed") /\ UNCHANGED fileVars
     \/ /\ ctx[wjob[w]] = "live"
        /\ output' = [output EXCEPT ![MediaOf[wjob[w]]] = "partial"]
        /\ swept' = swept \ {MediaOf[wjob[w]]}
        /\ Goto(w, "encode")
  /\ KeepRun /\ UNCHANGED <<jobVars, active>>

(* ffmpeg ends.  It does not notice that others have removed files of its  *)
(* tree, and writes the rest and the playlist; but the fallback encoder    *)
(* after a failed hardware encoder has begun afresh.  When it failed, the  *)
(* tree is partial or, after a failed hardware encoder, removed.           *)
WEncodeEnds(w) ==
  /\ wpc[w] = "encode"
  /\ \/ /\ output' = [output EXCEPT ![MediaOf[wjob[w]]] = "complete"]
        /\ swept' \in {swept, swept \ {MediaOf[wjob[w]]}}
        /\ Goto(w, "finalize")
     \/ /\ \E left \in {"partial", "absent"} :
             output' = [output EXCEPT ![MediaOf[wjob[w]]] = left]
        /\ Goto(w, "failed")
        /\ UNCHANGED swept
  /\ KeepRun /\ UNCHANGED <<jobVars, active>>

(* finalizeHLSPlaylist fails when the playlist has been removed; it does   *)
(* not look at the segments.                                               *)
WFinalize(w) ==
  /\ wpc[w] = "finalize"
  /\ Goto(w, IF output[MediaOf[wjob[w]]] = "absent" THEN "finishError" ELSE "finishDone")
  /\ KeepRun /\ UNCHANGED <<jobVars, active, fileVars>>

(* Mutants: a killed ffmpeg counts as a finished one; a preempted job is   *)
(* not told from a canceled one.                                           *)
VerdictOfKilled(w) == IF ctx[wjob[w]] = "cancelled" THEN "finishDone" ELSE "finishError"
VerdictOfAny(w) == IF ctx[wjob[w]] = "cancelled" THEN "finishCanceled" ELSE "finishError"

(* The unlocked test of ctx.Err() and of Preempted after a failed encode.  *)
Verdict(w) ==
  IF ctx[wjob[w]] # "cancelled" THEN "finishError"
  ELSE IF preempted[wjob[w]] THEN "requeue" ELSE "finishCanceled"

WFailed(w) ==
  /\ wpc[w] = "failed"
  /\ Goto(w, Verdict(w))
  /\ KeepRun /\ UNCHANGED <<jobVars, active, fileVars>>

(* The requeue assignments, or finishQueueJob with its status argument.    *)
Outcome == [requeue |-> "pending", finishDone |-> "done",
            finishError |-> "error", finishCanceled |-> "canceled"]

WSettle(w) ==
  /\ wpc[w] \in DOMAIN Outcome
  /\ status' = [status EXCEPT ![wjob[w]] = Outcome[wpc[w]]]
  /\ preempted' = [preempted EXCEPT ![wjob[w]] = @ /\ wpc[w] # "requeue"]
  /\ Goto(w, "closing")
  /\ KeepRun /\ UNCHANGED <<ctx, active, fileVars>>

(* The deferred cleanup: cancel the context, then load the slot, compare,  *)
(* and, in a step of its own, delete the entry.                            *)
WClose(w) ==
  /\ wpc[w] = "closing"
  /\ CancelCtx(wjob[w])
  /\ Goto(w, "leaving")
  /\ KeepRun /\ UNCHANGED <<status, preempted, active, fileVars>>

(* Mutant (first): the entry is left in the slot.                          *)
WLeaveEntry(w) ==
  /\ wpc[w] = "leaving"
  /\ Goto(w, "next") /\ wjob' = [wjob EXCEPT ![w] = NoJob]
  /\ KeepQueue /\ UNCHANGED <<jobVars, slotVars, fileVars>>

WLeave(w) ==
  /\ \/ /\ wpc[w] = "leaving" /\ active = wjob[w]
        /\ Goto(w, "deleting") /\ UNCHANGED <<active, wjob>>
     \/ /\ \/ wpc[w] = "leaving" /\ active # wjob[w] /\ UNCHANGED active
           \/ wpc[w] = "deleting" /\ active' = NoJob
        /\ Goto(w, "next") /\ wjob' = [wjob EXCEPT ![w] = NoJob]
  /\ KeepQueue /\ UNCHANGED <<jobVars, stream, reset, fileVars>>

WorkerStep(w) ==
  \/ WNext(w) \/ WQuit(w) \/ WCheck(w) \/ WArm(w) \/ WStart(w) \/ WLaunch(w)
  \/ WEncodeEnds(w) \/ WFinalize(w) \/ WFailed(w) \/ WSettle(w) \/ WClose(w)
  \/ WLeave(w)

-----------------------------------------------------------------------------
(* Other writers of activeHLS and of the generated files.                  *)

KeepWork == KeepQueue /\ UNCHANGED <<status, preempted, workerVars>>

(* BeginExternalHLS overwrites the slot; EndExternalHLS loads, compares    *)
(* and deletes.  A stream may begin and end again.                         *)
BeginExternal(s) ==
  /\ stream[s] = "idle"
  /\ stream' = [stream EXCEPT ![s] = "live"]
  /\ active' = s
  /\ KeepWork /\ UNCHANGED <<ctx, reset, fileVars>>

EndExternal(s) ==
  /\ \/ /\ stream[s] = "live" /\ active = s
        /\ stream' = [stream EXCEPT ![s] = "ending"] /\ UNCHANGED active
     \/ /\ \/ stream[s] = "live" /\ active # s /\ UNCHANGED active
           \/ stream[s] = "ending" /\ active' = NoJob
        /\ stream' = [stream EXCEPT ![s] = "idle"]
  /\ KeepWork /\ UNCHANGED <<ctx, reset, fileVars>>

(* A removal of generated files drops the errors of os.Remove: of each of  *)
(* the trees anything may stay, or nothing.                                *)
Remove(ids) ==
  LET present == {m \in ids : output[m] # "absent"} IN
    \E gone \in SUBSET present :
      /\ output' = [m \in Media |-> IF m \in gone THEN "absent" ELSE output[m]]
      /\ swept' = swept \cup present

(* Store.Clear, called by every upload by URL and by the clearing of what  *)
(* is published, removes every file of the directory that is not of the    *)
(* history, whichever job is writing it or waits for its watcher, and      *)
(* without the mutex of the queue or of the library.                       *)
Clear(m) ==
  /\ Remove({m})
  /\ KeepWork /\ UNCHANGED <<ctx, slotVars>>

(* RemoveGenerated: stopActive loads the slot, cancels its owner, waits    *)
(* for Done or two seconds, deletes the slot whoever owns it by then, and  *)
(* the files are removed.                                                  *)
ResetCancel ==
  /\ Resets /\ reset = "idle"
  /\ IF active = NoJob THEN reset' = "remove" ELSE reset' = "wait"
  /\ IF active \in Jobs THEN CancelCtx(active) ELSE UNCHANGED ctx
  /\ KeepWork /\ UNCHANGED <<active, stream, fileVars>>

ResetDelete ==
  /\ reset = "wait"
  /\ active' = NoJob
  /\ reset' = "remove"
  /\ KeepWork /\ UNCHANGED <<ctx, stream, fileVars>>

ResetRemove ==
  /\ reset = "remove"
  /\ Remove(Media)
  /\ reset' = "done"
  /\ KeepWork /\ UNCHANGED <<ctx, active, stream>>

-----------------------------------------------------------------------------
Init ==
  /\ items = {} /\ arrival = [j \in Jobs |-> 0]
  /\ status = [j \in Jobs |-> "unborn"]
  /\ preempted = [j \in Jobs |-> FALSE]
  /\ ctx = [j \in Jobs |-> "none"]
  /\ running = FALSE /\ mu = "free" /\ victim = NoJob /\ todo = {}
  /\ wpc = [w \in Workers |-> "off"] /\ wjob = [w \in Workers |-> NoJob]
  /\ active = NoJob /\ stream = [s \in Streams |-> "idle"] /\ reset = "idle"
  /\ output = [m \in Media |-> "absent"] /\ swept = {}

(* The steps of whoever holds the mutex: it never blocks while holding it. *)
LockHolder ==
  \/ EnqueuePreempt \/ EnqueueUnlock
  \/ (\E j \in Jobs : CancelTest(j)) \/ CancelWrite \/ CancelUnlock

(* Those who take files away without asking the queue.                     *)
Removal ==
  ResetCancel \/ ResetDelete \/ ResetRemove \/ \E m \in Cleared : Clear(m)

Next ==
  \/ \E j \in Jobs : EnqueueLock(j)
  \/ \E m \in Media : CancelLock(m)
  \/ LockHolder
  \/ \E w \in Workers : WorkerStep(w)
  \/ \E s \in Streams : BeginExternal(s) \/ EndExternal(s)
  \/ Removal

(* Goroutines are scheduled, sync.Mutex does not starve a waiter, and      *)
(* ffmpeg, on a finite source, ends; nobody is obliged to enqueue.         *)
Fairness ==
  /\ WF_vars(LockHolder)
  /\ \A w \in Workers : /\ WF_vars(WorkerStep(w))
                        /\ SF_vars(WNext(w)) /\ SF_vars(WQuit(w))

Spec == Init /\ [][Next]_vars
FairSpec == Spec /\ Fairness

-----------------------------------------------------------------------------
(* Properties.                                                             *)

(* Type correctness of the queue, its jobs, its workers and the slot.      *)
TypeOK ==
  /\ items \subseteq Jobs
  /\ arrival \in [Jobs -> Nat]
  /\ status \in [Jobs -> Statuses]
  /\ preempted \in [Jobs -> BOOLEAN]
  /\ ctx \in [Jobs -> {"none", "live", "cancelled"}]
  /\ running \in BOOLEAN
  /\ mu \in {"free", "preempt", "enqueue", "cancel"}
  /\ victim \in Jobs \cup {NoJob}
  /\ todo \subseteq Jobs
  /\ wpc \in [Workers -> WorkerPCs]
  /\ wjob \in [Workers -> Jobs \cup {NoJob}]
  /\ active \in Jobs \cup Streams \cup {NoJob}
  /\ stream \in [Streams -> {"idle", "live", "ending"}]
  /\ reset \in {"idle", "wait", "remove", "done"}
  /\ output \in [Media -> {"absent", "partial", "complete"}]
  /\ swept \subseteq Media

(* The handshake over the "running" flag, set by an enqueuer and cleared   *)
(* by the worker in another critical section than the one that found the   *)
(* list empty, never puts two workers on one queue: two ffmpeg processes   *)
(* never write into the output directory at once.                          *)
SingleWorker ==
  \A v, w \in Workers : wpc[v] # "off" /\ wpc[w] # "off" => v = w

(* An encode that goes on for a job which has been displaced, put back to  *)
(* pending by a newer job or canceled by a handler, is under a canceled    *)
(* context: it ends soon and does not hold the newer job up.               *)
DisplacedEncodeIsCancelled ==
  \A w \in Workers :
    wpc[w] = "encode" /\ status[wjob[w]] # "running" => ctx[wjob[w]] = "cancelled"

(* The unlocked stores, compares and deletes on activeHLS may lose an      *)
(* entry, but never leave one behind: what the status API reports as       *)
(* converting or live really is.                                           *)
SlotNamesLiveOwner ==
  /\ active \in Jobs => \E w \in Workers : wjob[w] = active /\ wpc[w] \in Registered
  /\ active \in Streams => stream[active] # "idle"

(* A job is reported done only over an HLS tree that an encode has written *)
(* to its end, although the next job may preempt it at any step of its     *)
(* encode or of its completion.  Such a tree is missing only where Clear   *)
(* or a reset has removed it since its encode began.                       *)
DoneMeansComplete ==
  \A j \in Jobs :
    status[j] = "done" =>
      \/ output[MediaOf[j]] = "complete"
      \/ output[MediaOf[j]] = "absent" /\ MediaOf[j] \in swept

(* Pruning never drops a job that still has to run or is running, unless   *)
(* a handler may cancel it: the queue view and CancelConversion, which     *)
(* walk the list, can reach it.  (A canceled job may be dropped before its *)
(* worker, that has tested it earlier, sets it running: see                *)
(* CanceledNeverResumed.)                                                  *)
UnfinishedIsListed ==
  \A j \in Jobs :
    status[j] \in Unfinished /\ MediaOf[j] \notin Replaced => j \in items

(* What the comment of CancelConversion promises: a canceled job "can      *)
(* never be resumed".                                                      *)
CanceledNeverResumed ==
  [][\A j \in Jobs : status[j] = "canceled" => status'[j] \notin Unfinished]_vars

(* A queued conversion is eventually taken up by the worker, or canceled.  *)
PendingIsTakenUp ==
  \A j \in Jobs : status[j] = "pending" ~> status[j] # "pending"

(* A job sent back to pending by a newer one is converted after all,       *)
(* unless it is canceled by a handler or by a reset of the workspace.      *)
PreemptedIsRetried ==
  \A j \in Jobs :
    preempted[j] ~> \/ status[j] \in {"done", "error"}
                    \/ MediaOf[j] \in Replaced \/ reset # "idle"

(* The queue comes to rest: preemptions, cancellations and retries do not  *)
(* keep a worker busy for ever.                                            *)
QueueSettles == <>[](\A w \in Workers : wpc[w] = "off")
=============================================================================
