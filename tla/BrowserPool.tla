----------------------------- MODULE BrowserPool -----------------------------
(***************************************************************************)
(* The browser pool of internal/nicorender/browser_pool.go: one dedicated  *)
(* browser, one lease at a time.  A lease is acquired in several calls to  *)
(* the browser made without the mutex; it is released by its job, by the   *)
(* goroutine that watches the job's context, by Acquire itself when the    *)
(* pool was closed meanwhile, and by Close, any of them at once.           *)
(*                                                                         *)
(* Who finds the pool in a state that must pass first waits on p.changed,  *)
(* a channel that signalLocked closes and replaces: the waiters are the    *)
(* set of those who hold the channel that is not closed yet.               *)
(***************************************************************************)
EXTENDS Naturals

CONSTANTS
  Leases,    \* calls of Acquire that find the slot free
  NoLease,   \* nil
  Closers,   \* goroutines that call Close
  Owner      \* the one among them that waits for the owner's context

ASSUME BrowserPoolAssumption ==
  /\ NoLease \notin Leases
  /\ Owner \in Closers
  /\ Closers \cap {"acquirer", "job", "watcher"} = {}

VARIABLES
  active, acquiring, closed, closing, closeFinished,  \* fields of BrowserPool
  apc,        \* where Acquire is, for each lease
  calling,    \* leases with a call of Acquire to the browser under way
  fault,      \* why an Acquire fails, then whether that is terminal
  released, cleaning,  \* fields of BrowserLease, as sets of leases
  failed,     \* lease.cleanupErr
  doneClosed, \* how often close(lease.done) was executed
  rpc,        \* where each call of Release is
  cpc,        \* where each call of Close is
  waiting,    \* who waits on p.changed
  jobDone, ownerDone,  \* canceled contexts
  contexts,   \* leases whose context exists in the browser
  control     \* the connection to the browser: "open" or "closed"

poolVars == <<active, acquiring, closed, closing, closeFinished>>
acquireVars == <<apc, calling, fault>>
leaseVars == <<released, cleaning, failed, doneClosed>>
contextVars == <<jobDone, ownerDone>>
browserVars == <<contexts, control>>
vars == <<poolVars, acquireVars, leaseVars, rpc, cpc, waiting, contextVars, browserVars>>

(* A call of Release: who makes it, for which lease.                       *)
Who == {"acquirer", "job", "watcher"} \cup Closers
Calls == Who \X Leases

(* The calls of Acquire to the browser, in their order.                    *)
Stages == {"context", "target", "page", "prepare"}
After == [context |-> "target", target |-> "page", page |-> "prepare", prepare |-> "settle"]

(* Type correctness; a lease is not being cleaned any more once released.  *)
TypeOK ==
  /\ active \in Leases \cup {NoLease}
  /\ acquiring \in BOOLEAN /\ closed \in BOOLEAN
  /\ closing \in BOOLEAN /\ closeFinished \in BOOLEAN
  /\ apc \in [Leases -> Stages \cup {"off", "rollback", "judge", "fail", "settle",
                                     "granted", "refused"}]
  /\ calling \subseteq {l \in Leases : apc[l] \in Stages}
  /\ fault \in [Leases -> {"none", "canceled", "other", "benign", "terminal"}]
  /\ released \subseteq Leases /\ failed \subseteq Leases
  /\ cleaning \subseteq Leases \ released
  /\ doneClosed \in [Leases -> Nat]
  /\ rpc \in [Calls -> {"off", "try", "clean", "dispose", "finish", "over"}]
  /\ cpc \in [Closers -> {"off", "drain", "release", "control", "finish", "await", "over"}]
  /\ waiting \subseteq Calls \cup Closers
  /\ jobDone \subseteq Leases /\ ownerDone \in BOOLEAN
  /\ contexts \subseteq Leases
  /\ control \in {"open", "closed"}

(* Mutant: those who wait are not told.                                    *)
Silence == UNCHANGED waiting

(* signalLocked.                                                           *)
Signal == waiting' = {}

-----------------------------------------------------------------------------
(* Acquire.                                                                *)

AcquireGoto(l, step) == apc' = [apc EXCEPT ![l] = step]
KeepRelease == UNCHANGED <<leaseVars, rpc, cpc, contextVars>>

(* The slot is reserved before any call to the browser.                    *)
Acquire(l) ==
  /\ apc[l] = "off"
  /\ ~closed /\ ~ownerDone /\ active = NoLease /\ ~acquiring
  /\ active' = l /\ acquiring' = TRUE
  /\ AcquireGoto(l, "context")
  /\ Signal
  /\ UNCHANGED <<closed, closing, closeFinished, calling, fault, browserVars>>
  /\ KeepRelease

(* callCtx: the job's context, canceled by the owner's and by Close too.   *)
Canceled(l) == l \in jobDone \/ ownerDone \/ closing

(* Each call starts under a live context only.                             *)
Call(l) ==
  /\ apc[l] \in Stages /\ l \notin calling
  /\ \/ /\ ~Canceled(l) /\ calling' = calling \cup {l}
        /\ UNCHANGED <<apc, fault>>
     \/ /\ Canceled(l)
        /\ fault' = [fault EXCEPT ![l] = "canceled"]
        /\ AcquireGoto(l, IF apc[l] = "context" THEN "judge" ELSE "rollback")
        /\ UNCHANGED calling
  /\ UNCHANGED <<poolVars, waiting, browserVars>> /\ KeepRelease

CallReturns(l) ==
  /\ l \in calling
  /\ calling' = calling \ {l}
  /\ AcquireGoto(l, After[apc[l]])
  /\ contexts' = IF apc[l] = "context" THEN contexts \cup {l} ELSE contexts
  /\ UNCHANGED <<poolVars, fault, waiting, control>> /\ KeepRelease

(* A call fails.  The browser may have created the context all the same,   *)
(* and the error may name it; what it does not name is not rolled back.    *)
CallFails(l) ==
  /\ l \in calling
  /\ calling' = calling \ {l}
  /\ \E why \in {"canceled", "other"} :
       /\ why = "canceled" => Canceled(l)
       /\ fault' = [fault EXCEPT ![l] = why]
  /\ IF apc[l] = "context"
       THEN \/ contexts' = contexts \cup {l} /\ AcquireGoto(l, "rollback")
            \/ contexts' \in {contexts, contexts \cup {l}} /\ AcquireGoto(l, "judge")
       ELSE AcquireGoto(l, "rollback") /\ UNCHANGED contexts
  /\ UNCHANGED <<poolVars, waiting, control>> /\ KeepRelease

(* disposeContext, and closing the page session before it: it succeeds, or *)
(* fails or times out with the context there or gone.                      *)
Rollback(l) ==
  /\ apc[l] = "rollback"
  /\ AcquireGoto(l, "judge")
  /\ \/ contexts' = contexts \ {l} /\ UNCHANGED fault
     \/ /\ contexts' \in {contexts, contexts \ {l}}
        /\ fault' = [fault EXCEPT ![l] = "other"]
  /\ UNCHANGED <<poolVars, calling, waiting, control>> /\ KeepRelease

(* Mutant: every cancellation is harmless, the job's own too.              *)
CanceledIsBenign(l) == fault[l] = "canceled"

(* shutdownCancellationIsNonFaulting: a cancellation by a shutdown, with a *)
(* clean rollback, is not the browser's fault.                             *)
NonFaulting(l) == fault[l] = "canceled" /\ (closed \/ closing \/ ownerDone)

Judge(l) ==
  /\ apc[l] = "judge"
  /\ fault' = [fault EXCEPT ![l] = IF NonFaulting(l) THEN "benign" ELSE "terminal"]
  /\ AcquireGoto(l, "fail")
  /\ UNCHANGED <<poolVars, calling, waiting, browserVars>> /\ KeepRelease

CloseDone(l) == doneClosed' = [doneClosed EXCEPT ![l] = @ + 1]

(* failAcquire.  The error in p.broken is represented by p.closed, which   *)
(* is set with it and never cleared.                                       *)
FailAcquire(l) ==
  /\ apc[l] = "fail"
  /\ closed' = (closed \/ fault[l] = "terminal")
  /\ active' = IF active = l THEN NoLease ELSE active
  /\ acquiring' = FALSE
  /\ released' = released \cup {l}
  /\ CloseDone(l) /\ Signal
  /\ AcquireGoto(l, "refused")
  /\ UNCHANGED <<closing, closeFinished, calling, fault, cleaning, failed, rpc,
                 cpc, contextVars, browserVars>>

(* Mutant: the lease is handed out to whoever got this far.                *)
NeverWithdrawn(l) == FALSE

(* The pool was closed while the lease was being acquired.                 *)
Withdrawn(l) == closed \/ active # l

(* A lease that is withdrawn is released again by Acquire.                 *)
Settle(l) ==
  /\ apc[l] = "settle"
  /\ acquiring' = FALSE /\ Signal
  /\ \/ ~Withdrawn(l) /\ AcquireGoto(l, "granted") /\ UNCHANGED rpc
     \/ /\ Withdrawn(l) /\ AcquireGoto(l, "refused")
        /\ rpc' = [rpc EXCEPT ![<<"acquirer", l>>] = "try"]
  /\ UNCHANGED <<active, closed, closing, closeFinished, calling, fault, leaseVars,
                 cpc, contextVars, browserVars>>

Acquiring(l) ==
  \/ Call(l) \/ CallReturns(l) \/ CallFails(l) \/ Rollback(l) \/ Judge(l)
  \/ FailAcquire(l) \/ Settle(l)

-----------------------------------------------------------------------------
(* Release, by whoever calls it.                                           *)

ReleaseGoto(c, step) == rpc' = [rpc EXCEPT ![c] = step]
KeepOthers == UNCHANGED <<acquireVars, cpc, contextVars>>

(* Mutant: nobody watches the job's context.                               *)
OnlyTheJob(who, l) == who = "job"

(* The job is through with its lease, or its context is canceled.          *)
MayRelease(who, l) == who = "job" \/ l \in jobDone

StartRelease(who, l) ==
  /\ apc[l] = "granted" /\ rpc[<<who, l>>] = "off"
  /\ MayRelease(who, l)
  /\ ReleaseGoto(<<who, l>>, "try")
  /\ UNCHANGED <<poolVars, leaseVars, waiting, browserVars>> /\ KeepOthers

(* Mutant: a lease that is being cleaned counts as stale at once.          *)
StaleOrClaimed(l) == active # l \/ l \in released \/ l \in cleaning

Stale(l) == active # l \/ l \in released

(* Mutant: it is cleaned again.                                            *)
NeverClaimed(l) == FALSE

Claimed(l) == l \in cleaning

(* A stale lease is refused; one that is being cleaned is waited for; the  *)
(* first caller cleans it.                                                 *)
TryRelease(c) ==
  /\ rpc[c] = "try" /\ c \notin waiting
  /\ \/ Stale(c[2]) /\ ReleaseGoto(c, "over") /\ UNCHANGED <<cleaning, waiting>>
     \/ /\ ~Stale(c[2]) /\ Claimed(c[2])
        /\ waiting' = waiting \cup {c} /\ UNCHANGED <<cleaning, rpc>>
     \/ /\ ~Stale(c[2]) /\ ~Claimed(c[2])
        /\ cleaning' = cleaning \cup {c[2]} /\ ReleaseGoto(c, "clean")
        /\ UNCHANGED waiting
  /\ UNCHANGED <<poolVars, released, failed, doneClosed, browserVars>> /\ KeepOthers

(* runLeaseCleanupBounded: stoppers and closers end, well or not, or time  *)
(* out; after a time-out the context is not disposed of.                   *)
Clean(c) ==
  /\ rpc[c] = "clean"
  /\ \/ ReleaseGoto(c, "dispose") /\ UNCHANGED failed
     \/ /\ \E step \in {"dispose", "finish"} : ReleaseGoto(c, step)
        /\ failed' = failed \cup {c[2]}
  /\ UNCHANGED <<poolVars, released, cleaning, doneClosed, waiting, browserVars>> /\ KeepOthers

Dispose(c) ==
  /\ rpc[c] = "dispose"
  /\ ReleaseGoto(c, "finish")
  /\ \/ contexts' = contexts \ {c[2]} /\ UNCHANGED failed
     \/ contexts' \in {contexts, contexts \ {c[2]}} /\ failed' = failed \cup {c[2]}
  /\ UNCHANGED <<poolVars, released, cleaning, doneClosed, waiting, control>> /\ KeepOthers

End(l) == released' = released \cup {l} /\ cleaning' = cleaning \ {l}

(* finishLease: a failed cleanup makes the pool terminal.                  *)
FinishLease(c) ==
  /\ rpc[c] = "finish"
  /\ ReleaseGoto(c, "over")
  /\ closed' = (closed \/ c[2] \in failed)
  /\ active' = IF active = c[2] THEN NoLease ELSE active
  /\ End(c[2]) /\ CloseDone(c[2]) /\ Signal
  /\ UNCHANGED <<acquiring, closing, closeFinished, failed, browserVars>>
  /\ KeepOthers

Releasing(c) == TryRelease(c) \/ Clean(c) \/ Dispose(c) \/ FinishLease(c)

-----------------------------------------------------------------------------
(* Close.                                                                  *)

CloseGoto(c, step) == cpc' = [cpc EXCEPT ![c] = step]
KeepLeases == UNCHANGED <<acquireVars, leaseVars, contextVars>>

(* Once no acquisition is under way the lease that is held is released.    *)
ReleaseActive(c) ==
  /\ ~acquiring
  /\ IF active = NoLease THEN CloseGoto(c, "control") /\ UNCHANGED rpc
     ELSE CloseGoto(c, "release") /\ ReleaseGoto(<<c, active>>, "try")

(* The first call closes the pool and cancels the acquisition; the others  *)
(* wait for it.                                                            *)
Close(c) ==
  /\ cpc[c] = "off"
  /\ c = Owner => ownerDone
  /\ \/ /\ ~closing /\ ~closeFinished
        /\ closed' = TRUE /\ closing' = TRUE
        /\ \/ ReleaseActive(c) /\ waiting' = {}
           \/ acquiring /\ CloseGoto(c, "drain") /\ waiting' = {c} /\ UNCHANGED rpc
     \/ /\ closing /\ CloseGoto(c, "await")
        /\ UNCHANGED <<closed, closing, waiting, rpc>>
     \/ /\ ~closing /\ closeFinished /\ CloseGoto(c, "over")
        /\ UNCHANGED <<closed, closing, waiting, rpc>>
  /\ UNCHANGED <<active, acquiring, closeFinished, browserVars>> /\ KeepLeases

CloseDrain(c) ==
  /\ cpc[c] = "drain" /\ c \notin waiting
  /\ \/ ReleaseActive(c) /\ UNCHANGED waiting
     \/ acquiring /\ waiting' = waiting \cup {c} /\ UNCHANGED <<cpc, rpc>>
  /\ UNCHANGED <<poolVars, browserVars>> /\ KeepLeases

CloseReleased(c) ==
  /\ cpc[c] = "release"
  /\ \E l \in Leases : rpc[<<c, l>>] = "over"
  /\ CloseGoto(c, "control")
  /\ UNCHANGED <<poolVars, rpc, waiting, browserVars>> /\ KeepLeases

(* The connection is closed and the browser, with its contexts, is ended   *)
(* if it can be.                                                           *)
CloseControl(c) ==
  /\ cpc[c] = "control"
  /\ control' = "closed" /\ contexts' \in {{}, contexts}
  /\ CloseGoto(c, "finish")
  /\ UNCHANGED <<poolVars, rpc, waiting>> /\ KeepLeases

CloseFinish(c) ==
  /\ cpc[c] = "finish"
  /\ closing' = FALSE /\ closeFinished' = TRUE
  /\ CloseGoto(c, "over") /\ Signal
  /\ UNCHANGED <<active, acquiring, closed, rpc, browserVars>> /\ KeepLeases

(* <-closeDone.                                                            *)
CloseAwait(c) ==
  /\ cpc[c] = "await" /\ closeFinished
  /\ CloseGoto(c, "over")
  /\ UNCHANGED <<poolVars, rpc, waiting, browserVars>> /\ KeepLeases

Closing(c) ==
  \/ CloseDrain(c) \/ CloseReleased(c) \/ CloseControl(c) \/ CloseFinish(c)
  \/ CloseAwait(c)

-----------------------------------------------------------------------------
(* The owner and the jobs.                                                 *)

KeepPool == UNCHANGED <<poolVars, acquireVars, leaseVars, rpc, cpc, waiting, browserVars>>

CancelJob(l) ==
  /\ apc[l] # "off" /\ jobDone' = jobDone \cup {l}
  /\ UNCHANGED ownerDone /\ KeepPool

CancelOwner == ownerDone' = TRUE /\ UNCHANGED jobDone /\ KeepPool

Init ==
  /\ active = NoLease /\ acquiring = FALSE
  /\ closed = FALSE /\ closing = FALSE /\ closeFinished = FALSE
  /\ apc = [l \in Leases |-> "off"] /\ calling = {}
  /\ fault = [l \in Leases |-> "none"]
  /\ released = {} /\ cleaning = {} /\ failed = {}
  /\ doneClosed = [l \in Leases |-> 0]
  /\ rpc = [c \in Calls |-> "off"] /\ cpc = [c \in Closers |-> "off"]
  /\ waiting = {} /\ jobDone = {} /\ ownerDone = FALSE
  /\ contexts = {} /\ control = "open"

Next ==
  \/ \E l \in Leases : Acquire(l) \/ Acquiring(l) \/ CancelJob(l)
  \/ \E who \in {"job", "watcher"}, l \in Leases : StartRelease(who, l)
  \/ \E c \in Calls : Releasing(c)
  \/ \E c \in Closers : Close(c) \/ Closing(c)
  \/ CancelOwner

Spec == Init /\ [][Next]_vars

(* Calls to the browser and cleanups have deadlines, goroutines are        *)
(* scheduled; nobody is obliged to acquire, to release, to cancel or to    *)
(* call Close, except the goroutines that wait for a context.              *)
Fairness ==
  /\ \A l \in Leases : WF_vars(Acquiring(l)) /\ WF_vars(StartRelease("watcher", l))
  /\ \A c \in Calls : WF_vars(Releasing(c))
  /\ \A c \in Closers : WF_vars(Closing(c))
  /\ WF_vars(Close(Owner))

FairSpec == Spec /\ Fairness

-----------------------------------------------------------------------------
(* Properties.                                                             *)

(* A context whose fate is unknown never stays behind in a browser that    *)
(* goes on to serve other jobs: as long as the pool would grant a lease,   *)
(* the only context is that of the lease that is held.                     *)
NoStrayContext ==
  ~closed /\ ~ownerDone => contexts \subseteq {active}

(* The connection outlives everybody who uses it: when Close has closed    *)
(* it, no acquisition and no cleanup is under way, whoever began it.       *)
ControlIsLast ==
  control = "closed" =>
    /\ ~acquiring /\ active = NoLease
    /\ \A c \in Calls : rpc[c] \notin {"clean", "dispose", "finish"}

(* The job, the watcher of its context, Acquire and Close may release a    *)
(* lease at the same time: lease.done is closed once (closing a closed     *)
(* channel would end the process).                                         *)
DoneIsClosedOnce == \A l \in Leases : doneClosed[l] <= 1

(* Shutting down comes to an end, whoever is acquiring or releasing.       *)
CloseEnds == closing ~> closeFinished

(* A job that is canceled gives its lease up, at whatever step it is.      *)
CanceledJobEnds == \A l \in Leases : l \in jobDone ~> l \in released

(* The pool is the lease slot that its callers rely on.                    *)
Stage(l) ==
  IF apc[l] = "off" THEN "new"
  ELSE IF l \in released THEN "over"
  ELSE IF apc[l] = "granted" THEN "granted" ELSE "reserved"

Slot == INSTANCE LeaseSlot WITH
  stage <- [l \in Leases |-> Stage(l)], shut <- closed, down <- control = "closed"

ImplementsLeaseSlot == Slot!Spec
=============================================================================
