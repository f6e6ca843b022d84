-------------------------- MODULE ConversionPublish --------------------------
(***************************************************************************)
(* The conversion queue together with what becomes of its results: for     *)
(* every job the server starts a goroutine, watchConversion                *)
(* (internal/server/server.go), that polls the queue and, once the job is  *)
(* done, copies the HLS tree of the media id into the library              *)
(* (Store.MarkConverted, internal/library/store.go).  The poll, the        *)
(* listing of the files, and the first and the last copy are steps of      *)
(* their own: in between the queue goes on, and Store.Clear or a reset may *)
(* remove the files.                                                       *)
(***************************************************************************)
EXTENDS ConversionQueue

VARIABLES
  watch,      \* the goroutine watchConversion(job): where it is
  found,      \* what the files it listed, and has copied so far, amount to
  converted   \* the copy behind HistoryItem.Converted of each media id

pubVars == <<watch, found, converted>>
allVars == <<vars, pubVars>>

(* What a listing of the files of a tree amounts to.                       *)
Tree(m) ==
  IF output[m] = "complete" /\ m \in swept THEN "torn" ELSE output[m]

(* A listed file may be missing by the time it is looked at.               *)
MayBeMissing(m) == output[m] = "absent" \/ m \in swept

To(j, step) == watch' = [watch EXCEPT ![j] = step]

(* The handler starts the goroutine after the job has been enqueued.       *)
WatchStart(j) ==
  /\ watch[j] = "none" /\ status[j] # "unborn"
  /\ To(j, "polling")
  /\ UNCHANGED <<vars, found, converted>>

(* Mutant: a job that is running is taken for one that is done.            *)
PollEarly(j) ==
  /\ watch[j] = "polling" /\ mu = "free" /\ j \in items
  /\ \/ status[j] \in {"running", "done"} /\ To(j, "done")
     \/ status[j] \in {"error", "canceled"} /\ To(j, "ended")
  /\ UNCHANGED <<vars, found, converted>>

(* A tick that finds the job over.  QueueStatus takes the queue's mutex    *)
(* and shows listed jobs only: a job pruned before the tick is never seen  *)
(* again.                                                                  *)
WatchPoll(j) ==
  /\ watch[j] = "polling" /\ mu = "free" /\ j \in items
  /\ \/ status[j] = "done" /\ To(j, "done")
     \/ status[j] \in {"error", "canceled"} /\ To(j, "ended")
  /\ UNCHANGED <<vars, found, converted>>

(* GeneratedFiles lists whatever is there; nothing there ends the watch.   *)
WatchList(j) ==
  /\ watch[j] = "done"
  /\ found' = [found EXCEPT ![j] = Tree(MediaOf[j])]
  /\ To(j, IF found'[j] = "absent" THEN "ended" ELSE "listed")
  /\ UNCHANGED <<vars, converted>>

(* MarkConverted fails, leaving the old copy, when a listed file is        *)
(* missing.                                                                *)
WatchFails(j) ==
  /\ MayBeMissing(MediaOf[j])
  /\ To(j, "ended")
  /\ found' = [found EXCEPT ![j] = "absent"]
  /\ UNCHANGED converted

(* What it copies is what it listed, unless the tree is being written.     *)
Copied(j) == IF output[MediaOf[j]] = "partial" THEN "partial" ELSE found[j]

(* It looks at every listed file and begins to copy.                       *)
WatchCopy(j) ==
  /\ watch[j] = "listed"
  /\ \/ WatchFails(j)
     \/ /\ output[MediaOf[j]] # "absent"
        /\ found' = [found EXCEPT ![j] = Copied(j)]
        /\ To(j, "copying")
        /\ UNCHANGED converted
  /\ UNCHANGED vars

(* Mutant: the copy is announced by a goroutine that failed to make it.    *)
MarkNothing(j) ==
  /\ watch[j] = "copying"
  /\ To(j, "ended")
  /\ UNCHANGED <<vars, found, converted>>

(* It copies the rest, all of which it may have copied already, and puts   *)
(* the copy in place.                                                      *)
WatchMark(j) ==
  /\ watch[j] = "copying"
  /\ \/ WatchFails(j)
     \/ /\ converted' = [converted EXCEPT ![MediaOf[j]] = Copied(j)]
        /\ To(j, "ended")
        /\ found' = [found EXCEPT ![j] = "absent"]
  /\ UNCHANGED vars

(* The six-hour deadline.                                                  *)
WatchExpire(j) ==
  /\ watch[j] = "polling" /\ j \notin items
  /\ To(j, "ended")
  /\ UNCHANGED <<vars, found, converted>>

PubInit ==
  /\ Init
  /\ watch = [j \in Jobs |-> "none"]
  /\ found = [j \in Jobs |-> "absent"]
  /\ converted = [m \in Media |-> "none"]

Watcher(j) ==
  \/ WatchStart(j) \/ WatchPoll(j) \/ WatchList(j) \/ WatchCopy(j)
  \/ WatchMark(j) \/ WatchExpire(j)

PubNext ==
  \/ Next /\ UNCHANGED pubVars
  \/ \E j \in Jobs : Watcher(j)

(* The watchers are goroutines driven by a ticker; the queue is as fair as *)
(* it is on its own.                                                       *)
PubFairness ==
  /\ WF_allVars(LockHolder /\ UNCHANGED pubVars)
  /\ \A w \in Workers :
       /\ WF_allVars(WorkerStep(w) /\ UNCHANGED pubVars)
       /\ SF_allVars(WNext(w) /\ UNCHANGED pubVars)
       /\ SF_allVars(WQuit(w) /\ UNCHANGED pubVars)
  /\ \A j \in Jobs : /\ WF_allVars(WatchStart(j)) /\ SF_allVars(WatchPoll(j))
                     /\ WF_allVars(WatchList(j)) /\ WF_allVars(WatchCopy(j))
                     /\ WF_allVars(WatchMark(j))

PubSpec == PubInit /\ [][PubNext]_allVars
FairPubSpec == PubSpec /\ PubFairness

(* "Readers must never observe a half-populated HLS tree" behind the       *)
(* Converted flag (MarkConverted): what the library keeps as converted is  *)
(* the output of an encode that ended well.  Files are missing from it     *)
(* only where Clear or a reset removed them from under the encode or the   *)
(* watcher; specifications/03 forbids that too, and the code does not.     *)
ConvertedIsComplete ==
  \A m \in Media :
    converted[m] \in {"none", "complete"} \/ (converted[m] = "torn" /\ m \in swept)

(* A conversion that is done reaches the library: its media becomes        *)
(* restorable, unless the job is taken back to the queue, a handler may    *)
(* cancel it, the queue has pruned it, or others have removed files of its *)
(* tree before they were copied.  (The watcher of a job that was canceled  *)
(* and runs all the same, see CanceledNeverResumed, has ended.)            *)
DoneIsMarked ==
  \A j \in Jobs : status[j] = "done" ~>
    \/ converted[MediaOf[j]] = "complete"
    \/ status[j] # "done" \/ j \notin items
    \/ MediaOf[j] \in Replaced \cup swept
=============================================================================
