------------------------ MODULE ConversionQueueProofs ------------------------
(***************************************************************************)
(* Proofs about ConversionQueue, for any number of jobs, media ids,        *)
(* goroutines and streams, and about ConversionPublish, which composes it  *)
(* with the watchers.  Typing comes first; every invariant after it is     *)
(* shown inductive relative to typing and to the ones before it.           *)
(***************************************************************************)
EXTENDS ConversionPublish, FiniteSetTheorems, WellFoundedInduction, TLAPS

(* The number of jobs enqueued so far, the position of a new arrival, is a *)
(* natural number because there are finitely many jobs.                    *)
LEMMA ArrivalIsNatural ==
  Cardinality({k \in Jobs : status[k] # "unborn"}) \in Nat
<1>1. IsFiniteSet({k \in Jobs : status[k] # "unborn"})
  <2>1. {k \in Jobs : status[k] # "unborn"} \subseteq Jobs
    OBVIOUS
  <2> QED
    BY <2>1, FS_Subset, ConversionQueueAssumption
<1> QED
  BY <1>1, FS_CardinalityType

(* Every reachable state is well typed.                                    *)
LEMMA TypeInit == Init => TypeOK
<1> SUFFICES ASSUME Init PROVE TypeOK
  OBVIOUS
<1>1. items \subseteq Jobs /\ todo \subseteq Jobs /\ running \in BOOLEAN
  BY DEF Init
<1>2. arrival \in [Jobs -> Nat] /\ status \in [Jobs -> Statuses]
  BY DEF Init, Statuses
<1>3. preempted \in [Jobs -> BOOLEAN] /\ ctx \in [Jobs -> {"none", "live", "cancelled"}]
  BY DEF Init
<1>4. wpc \in [Workers -> WorkerPCs] /\ wjob \in [Workers -> Jobs \cup {NoJob}]
  BY DEF Init, WorkerPCs
<1>5. /\ stream \in [Streams -> {"idle", "live", "ending"}]
      /\ output \in [Media -> {"absent", "partial", "complete"}]
      /\ swept \subseteq Media
  BY DEF Init
<1> QED
  BY <1>1, <1>2, <1>3, <1>4, <1>5 DEF Init, TypeOK

(* Every step keeps the types.                                             *)
LEMMA TypeNext == TypeOK /\ [Next]_vars => TypeOK'
<1> SUFFICES ASSUME TypeOK, [Next]_vars PROVE TypeOK'
  OBVIOUS
<1> USE ConversionQueueAssumption
<1> USE DEF TypeOK, Statuses, WorkerPCs, CancelCtx, Goto, KeepRun, KeepQueue, KeepWork,
            queueVars, jobVars, workerVars, slotVars, fileVars
<1>1. ASSUME NEW j \in Jobs, EnqueueLock(j) PROVE TypeOK'
  <2>1. arrival' \in [Jobs -> Nat]
    BY <1>1, ArrivalIsNatural DEF EnqueueLock
  <2>2. status' \in [Jobs -> Statuses] /\ items' \subseteq Jobs
    BY <1>1 DEF EnqueueLock
  <2>3. victim' \in Jobs \cup {NoJob} /\ mu' \in {"free", "preempt", "enqueue", "cancel"}
    BY <1>1 DEF EnqueueLock
  <2> QED
    BY <1>1, <2>1, <2>2, <2>3 DEF EnqueueLock
<1>2. CASE EnqueuePreempt
  BY <1>2 DEF EnqueuePreempt
<1>3. CASE EnqueueUnlock
  <2>1. Pruned \subseteq Jobs
    BY DEF Pruned
  <2>2. wpc' \in [Workers -> WorkerPCs]
    BY <1>3 DEF EnqueueUnlock, StartWorker
  <2> QED
    BY <1>3, <2>1, <2>2 DEF EnqueueUnlock, StartWorker
<1>4. ASSUME NEW m \in Media, CancelLock(m) PROVE TypeOK'
  BY <1>4 DEF CancelLock
<1>5. ASSUME NEW j \in Jobs, CancelTest(j) PROVE TypeOK'
  BY <1>5 DEF CancelTest
<1>6. CASE CancelWrite
  BY <1>6 DEF CancelWrite
<1>7. CASE CancelUnlock
  BY <1>7 DEF CancelUnlock
<1>8. ASSUME NEW w \in Workers, WorkerStep(w) PROVE TypeOK'
  <2>1. CASE WNext(w)
    BY <2>1 DEF WNext, IsPending
  <2>2. CASE WQuit(w)
    BY <2>2 DEF WQuit
  <2>3. CASE WCheck(w)
    BY <2>3 DEF WCheck
  <2>4. CASE WArm(w)
    BY <2>4 DEF WArm
  <2>5. CASE WStart(w)
    BY <2>5 DEF WStart
  <2>6. CASE WLaunch(w)
    BY <2>6 DEF WLaunch
  <2>7. CASE WEncodeEnds(w)
    BY <2>7 DEF WEncodeEnds
  <2>8. CASE WFinalize(w)
    BY <2>8 DEF WFinalize
  <2>9. CASE WFailed(w)
    BY <2>9 DEF WFailed, Verdict
  <2>10. CASE WSettle(w)
    <3>1. Outcome[wpc[w]] \in Statuses
      BY <2>10 DEF WSettle, Outcome
    <3> QED
      BY <2>10, <3>1 DEF WSettle
  <2>11. CASE WClose(w)
    BY <2>11 DEF WClose
  <2>12. CASE WLeave(w)
    BY <2>12 DEF WLeave
  <2> QED
    BY <1>8, <2>1, <2>2, <2>3, <2>4, <2>5, <2>6, <2>7, <2>8, <2>9, <2>10, <2>11, <2>12
    DEF WorkerStep
<1>9. ASSUME NEW s \in Streams, BeginExternal(s) \/ EndExternal(s) PROVE TypeOK'
  BY <1>9 DEF BeginExternal, EndExternal
<1>10. CASE Removal
  BY <1>10 DEF Removal, ResetCancel, ResetDelete, ResetRemove, Clear, Remove
<1>11. CASE UNCHANGED vars
  BY <1>11 DEF vars
<1> QED
  BY <1>1, <1>2, <1>3, <1>4, <1>5, <1>6, <1>7, <1>8, <1>9, <1>10, <1>11
  DEF Next, LockHolder

(* Typing holds of every behaviour of the conversion queue.                *)
THEOREM Typing == Spec => []TypeOK
<1>1. Init => TypeOK
  BY TypeInit
<1>2. TypeOK /\ [Next]_vars => TypeOK'
  BY TypeNext
<1> QED
  BY <1>1, <1>2, PTL DEF Spec

-----------------------------------------------------------------------------
(* The handshake over "running": whoever finds it FALSE under the mutex    *)
(* knows that no worker is left, because a worker that is not off keeps it *)
(* TRUE until the very step at which it leaves.                            *)
Handshake ==
  /\ SingleWorker
  /\ \A w \in Workers : wpc[w] # "off" => running

(* A step of worker w that does not leave the queue moves w's counter only,*)
(* between steps at which w is not off.                                    *)
LEMMA WorkerStepMoves ==
  ASSUME TypeOK, NEW w \in Workers, WorkerStep(w), ~WQuit(w)
  PROVE  /\ wpc[w] # "off"
         /\ \A v \in Workers : v # w => wpc'[v] = wpc[v]
         /\ running' = running
<1> USE DEF TypeOK, Goto, KeepRun, KeepQueue
<1> CASE WNext(w) \/ WCheck(w) \/ WArm(w) \/ WStart(w)
  BY DEF WNext, IsPending, WCheck, WArm, WStart
<1> CASE WLaunch(w) \/ WEncodeEnds(w) \/ WFinalize(w) \/ WFailed(w)
  BY DEF WLaunch, WEncodeEnds, WFinalize, WFailed, Verdict
<1> CASE WSettle(w) \/ WClose(w) \/ WLeave(w)
  BY DEF WSettle, Outcome, WClose, WLeave
<1> QED
  BY DEF WorkerStep

(* Every step keeps the handshake over the running flag.                   *)
LEMMA HandshakeNext == TypeOK /\ Handshake /\ [Next]_vars => Handshake'
<1> SUFFICES ASSUME TypeOK, Handshake, [Next]_vars PROVE Handshake'
  OBVIOUS
<1> USE DEF Handshake, SingleWorker
<1>1. ASSUME NEW j \in Jobs, EnqueueLock(j) PROVE Handshake'
  BY <1>1 DEF EnqueueLock, workerVars
<1>2. CASE EnqueuePreempt
  BY <1>2 DEF EnqueuePreempt, workerVars
<1>3. CASE EnqueueUnlock
  <2>1. CASE running
    BY <1>3, <2>1 DEF EnqueueUnlock, StartWorker
  <2>2. CASE ~running
    <3>1. \A v \in Workers : wpc[v] = "off"
      BY <2>2
    <3>2. PICK w \in Workers : wpc' = [wpc EXCEPT ![w] = "next"]
      BY <1>3, <2>2 DEF EnqueueUnlock, StartWorker
    <3> QED
      BY <1>3, <3>1, <3>2 DEF EnqueueUnlock, StartWorker, TypeOK
  <2> QED
    BY <2>1, <2>2
<1>4. ASSUME NEW m \in Media, CancelLock(m) PROVE Handshake'
  BY <1>4 DEF CancelLock, workerVars
<1>5. ASSUME NEW j \in Jobs, CancelTest(j) PROVE Handshake'
  BY <1>5 DEF CancelTest, workerVars
<1>6. CASE CancelWrite \/ CancelUnlock
  BY <1>6 DEF CancelWrite, CancelUnlock, workerVars
<1>7. ASSUME NEW w \in Workers, WorkerStep(w) PROVE Handshake'
  <2>1. CASE WQuit(w)
    BY <2>1 DEF WQuit, Goto, TypeOK
  <2>2. CASE ~WQuit(w)
    BY <1>7, <2>2, WorkerStepMoves
  <2> QED
    BY <2>1, <2>2
<1>8. ASSUME NEW s \in Streams, BeginExternal(s) \/ EndExternal(s) PROVE Handshake'
  BY <1>8 DEF BeginExternal, EndExternal, KeepWork, KeepQueue, workerVars
<1>9. CASE Removal
  <2>1. UNCHANGED <<wpc, running>>
    BY <1>9 DEF Removal, ResetCancel, ResetDelete, ResetRemove, Clear, KeepWork, KeepQueue,
                workerVars
  <2> QED
    BY <2>1
<1>10. CASE UNCHANGED vars
  BY <1>10 DEF vars
<1> QED
  BY <1>1, <1>2, <1>3, <1>4, <1>5, <1>6, <1>7, <1>8, <1>9, <1>10 DEF Next, LockHolder

(* The flag handshake of enqueueConversion and state.run never puts two    *)
(* workers on one queue, whatever the number of enqueuers.                 *)
THEOREM OneWorker == Spec => []SingleWorker
<1>1. Init => Handshake
  BY DEF Init, Handshake, SingleWorker
<1>2. TypeOK /\ Handshake /\ [Next]_vars => Handshake'
  BY HandshakeNext
<1>3. Handshake => SingleWorker
  BY DEF Handshake
<1> QED
  BY <1>1, <1>2, <1>3, Typing, PTL DEF Spec

-----------------------------------------------------------------------------
(* activeHLS: an entry is only ever lost to a racing delete.               *)

(* No step leaves an entry of a gone owner in the slot.                    *)
LEMMA SlotNext == TypeOK /\ SlotNamesLiveOwner /\ [Next]_vars => SlotNamesLiveOwner'
<1> SUFFICES ASSUME TypeOK, SlotNamesLiveOwner, [Next]_vars PROVE SlotNamesLiveOwner'
  OBVIOUS
<1> USE ConversionQueueAssumption
<1> USE DEF SlotNamesLiveOwner, Registered, InRun
<1>1. ASSUME NEW j \in Jobs, EnqueueLock(j) \/ CancelTest(j) PROVE SlotNamesLiveOwner'
  BY <1>1 DEF EnqueueLock, CancelTest, workerVars, slotVars
<1>2. CASE EnqueuePreempt \/ CancelWrite \/ CancelUnlock
  BY <1>2 DEF EnqueuePreempt, CancelWrite, CancelUnlock, workerVars, slotVars
<1>3. CASE EnqueueUnlock
  BY <1>3 DEF EnqueueUnlock, StartWorker, slotVars, TypeOK
<1>4. ASSUME NEW m \in Media, CancelLock(m) PROVE SlotNamesLiveOwner'
  BY <1>4 DEF CancelLock, workerVars, slotVars
<1>5. ASSUME NEW w \in Workers, WorkerStep(w) PROVE SlotNamesLiveOwner'
  <2> USE DEF TypeOK, Goto, KeepRun, KeepQueue, slotVars
  <2>1. CASE WNext(w) \/ WQuit(w)
    BY <2>1 DEF WNext, IsPending, WQuit
  <2>2. CASE WCheck(w) \/ WArm(w)
    BY <2>2 DEF WCheck, WArm
  <2>3. CASE WStart(w)
    <3>1. active' = wjob'[w] /\ wpc'[w] \in Registered /\ active' \notin Streams
      BY <2>3 DEF WStart
    <3> QED
      BY <3>1
  <2>4. CASE WLaunch(w) \/ WEncodeEnds(w)
    BY <2>4 DEF WLaunch, WEncodeEnds
  <2>5. CASE WFinalize(w) \/ WFailed(w)
    BY <2>5 DEF WFinalize, WFailed, Verdict
  <2>6. CASE WSettle(w) \/ WClose(w)
    BY <2>6 DEF WSettle, Outcome, WClose
  <2>7. CASE WLeave(w)
    BY <2>7 DEF WLeave
  <2> QED
    BY <1>5, <2>1, <2>2, <2>3, <2>4, <2>5, <2>6, <2>7 DEF WorkerStep
<1>6. ASSUME NEW s \in Streams, BeginExternal(s) \/ EndExternal(s)
      PROVE  SlotNamesLiveOwner'
  BY <1>6 DEF BeginExternal, EndExternal, KeepWork, workerVars, TypeOK
<1>7. CASE Removal
  BY <1>7 DEF Removal, ResetCancel, ResetDelete, ResetRemove, Clear, KeepWork, workerVars,
              slotVars
<1>8. CASE UNCHANGED vars
  BY <1>8 DEF vars
<1> QED
  BY <1>1, <1>2, <1>3, <1>4, <1>5, <1>6, <1>7, <1>8 DEF Next, LockHolder

(* activeHLS never names a run or a stream that is over, although it is    *)
(* stored, compared and deleted without a lock by unrelated goroutines.    *)
THEOREM HonestSlot == Spec => []SlotNamesLiveOwner
<1>1. Init => SlotNamesLiveOwner
  BY ConversionQueueAssumption DEF Init, SlotNamesLiveOwner
<1>2. TypeOK /\ SlotNamesLiveOwner /\ [Next]_vars => SlotNamesLiveOwner'
  BY SlotNext
<1> QED
  BY <1>1, <1>2, Typing, PTL DEF Spec

-----------------------------------------------------------------------------
(* The leash on a displaced encode: from the moment a run has its context, *)
(* the context exists, and between the "running" status and the end of the *)
(* encode the status changes only together with the context's end.         *)
Busy == WorkerPCs \ {"off", "next", "quit"}

Leash ==
  \A w \in Workers :
    /\ wpc[w] \in Busy => wjob[w] \in Jobs
    /\ wpc[w] \in InRun => ctx[wjob[w]] # "none"
    /\ wpc[w] \in {"launched", "encode"} /\ status[wjob[w]] # "running"
         => ctx[wjob[w]] = "cancelled"

(* Every step keeps displaced encodes under a cancelled context.           *)
LEMMA LeashNext == TypeOK /\ SingleWorker /\ Leash /\ [Next]_vars => Leash'
<1> SUFFICES ASSUME TypeOK, SingleWorker, Leash, [Next]_vars PROVE Leash'
  OBVIOUS
<1> USE ConversionQueueAssumption
<1> USE DEF Leash, Busy, InRun, WorkerPCs, TypeOK, CancelCtx
<1>1. ASSUME NEW j \in Jobs, EnqueueLock(j) \/ CancelTest(j) PROVE Leash'
  BY <1>1 DEF EnqueueLock, CancelTest, workerVars, jobVars
<1>2. CASE EnqueuePreempt \/ CancelWrite \/ CancelUnlock
  BY <1>2 DEF EnqueuePreempt, CancelWrite, CancelUnlock, workerVars, jobVars
<1>3. CASE EnqueueUnlock
  BY <1>3 DEF EnqueueUnlock, StartWorker, jobVars
<1>4. ASSUME NEW m \in Media, CancelLock(m) PROVE Leash'
  BY <1>4 DEF CancelLock, workerVars, jobVars
<1>5. ASSUME NEW w \in Workers, WorkerStep(w) PROVE Leash'
  <2> USE DEF SingleWorker, Goto, KeepRun, KeepQueue, jobVars
  <2>1. CASE WNext(w) \/ WQuit(w)
    BY <2>1 DEF WNext, IsPending, WQuit
  <2>2. CASE WCheck(w) \/ WArm(w)
    BY <2>2 DEF WCheck, WArm
  <2>3. CASE WStart(w)
    BY <2>3 DEF WStart
  <2>4. CASE WLaunch(w) \/ WEncodeEnds(w)
    BY <2>4 DEF WLaunch, WEncodeEnds
  <2>5. CASE WFinalize(w) \/ WFailed(w)
    BY <2>5 DEF WFinalize, WFailed, Verdict
  <2>6. CASE WSettle(w)
    BY <2>6 DEF WSettle, Outcome
  <2>7. CASE WClose(w) \/ WLeave(w)
    BY <2>7 DEF WClose, WLeave
  <2> QED
    BY <1>5, <2>1, <2>2, <2>3, <2>4, <2>5, <2>6, <2>7 DEF WorkerStep
<1>6. ASSUME NEW s \in Streams, BeginExternal(s) \/ EndExternal(s) PROVE Leash'
  BY <1>6 DEF BeginExternal, EndExternal, KeepWork, workerVars
<1>7. CASE Removal
  <2>1. UNCHANGED <<status, wpc, wjob>>
    BY <1>7 DEF Removal, ResetCancel, ResetDelete, ResetRemove, Clear, KeepWork, workerVars
  <2>2. ctx' = ctx \/ (active \in Jobs /\ CancelCtx(active))
    BY <1>7 DEF Removal, ResetCancel, ResetDelete, ResetRemove, Clear
  <2> QED
    BY <2>1, <2>2
<1>8. CASE UNCHANGED vars
  BY <1>8 DEF vars
<1> QED
  BY <1>1, <1>2, <1>3, <1>4, <1>5, <1>6, <1>7, <1>8 DEF Next, LockHolder

(* The leash holds in every reachable state.                               *)
LEMMA LeashHolds == Spec => []Leash
<1>1. Init => Leash
  BY DEF Init, Leash, Busy, InRun
<1>2. TypeOK /\ SingleWorker /\ Leash /\ [Next]_vars => Leash'
  BY LeashNext
<1> QED
  BY <1>1, <1>2, Typing, OneWorker, PTL DEF Spec

(* An encode whose job was preempted or canceled runs under a canceled     *)
(* context, so the newer job it was displaced for does not wait for it.    *)
THEOREM DisplacedEncodesEnd == Spec => []DisplacedEncodeIsCancelled
<1>1. Leash => DisplacedEncodeIsCancelled
  BY DEF Leash, DisplacedEncodeIsCancelled
<1> QED
  BY <1>1, LeashHolds, PTL

-----------------------------------------------------------------------------
(* Where every media id is converted by one job only, a run that has not   *)
(* settled yet is not reported as done, and a run that is about to be has  *)
(* left a tree behind that is complete unless others have removed it.      *)
OneJobPerMedia == \A i, j \in Jobs : MediaOf[i] = MediaOf[j] => i = j

Unsettled == {"picked", "starting", "armed", "launched", "encode", "finalize",
              "failed", "requeue", "finishDone", "finishError", "finishCanceled"}

Written(m) == output[m] = "complete" \/ (output[m] = "absent" /\ m \in swept)

DoneInv ==
  /\ \A j \in Jobs : status[j] = "done" => Written(MediaOf[j])
  /\ \A w \in Workers :
       /\ wpc[w] \in Unsettled => status[wjob[w]] # "done"
       /\ wpc[w] \in {"finalize", "finishDone"} => Written(MediaOf[wjob[w]])

(* A removal says of every tree it touches that it did.                    *)
LEMMA RemovalIsTold ==
  ASSUME TypeOK, Removal, NEW m \in Media, Written(m)
  PROVE  Written(m)'
<1> USE DEF Written, TypeOK
<1>1. CASE ResetCancel \/ ResetDelete
  BY <1>1 DEF ResetCancel, ResetDelete, fileVars
<1>2. ASSUME NEW ids, ids \subseteq Media, Remove(ids) PROVE Written(m)'
  BY <1>2 DEF Remove
<1>3. CASE ResetRemove
  BY <1>2, <1>3 DEF ResetRemove
<1>4. CASE \E k \in Cleared : Clear(k)
  BY <1>2, <1>4, ConversionQueueAssumption DEF Clear
<1> QED
  BY <1>1, <1>3, <1>4 DEF Removal

(* Every step keeps what done means; media ids are not shared here.        *)
LEMMA DoneNext ==
  ASSUME OneJobPerMedia
  PROVE  TypeOK /\ SingleWorker /\ Leash /\ DoneInv /\ [Next]_vars => DoneInv'
<1> SUFFICES ASSUME TypeOK, SingleWorker, Leash, DoneInv, [Next]_vars PROVE DoneInv'
  OBVIOUS
<1> USE ConversionQueueAssumption
<1> USE DEF DoneInv, TypeOK, Unsettled, Leash, Busy, WorkerPCs
<1> USE DEF jobVars, workerVars, slotVars, fileVars
<1>0. ASSUME UNCHANGED fileVars PROVE \A m \in Media : Written(m)' <=> Written(m)
  BY <1>0 DEF Written
<1>1. ASSUME NEW j \in Jobs, EnqueueLock(j) \/ CancelTest(j) PROVE DoneInv'
  <2>1. \A k \in Jobs : status'[k] = "done" <=> status[k] = "done"
    BY <1>1 DEF EnqueueLock, CancelTest
  <2> QED
    BY <1>0, <1>1, <2>1 DEF EnqueueLock, CancelTest
<1>2. CASE EnqueuePreempt \/ CancelWrite \/ CancelUnlock
  BY <1>0, <1>2 DEF EnqueuePreempt, CancelWrite, CancelUnlock
<1>3. CASE EnqueueUnlock
  BY <1>0, <1>3 DEF EnqueueUnlock, StartWorker
<1>4. ASSUME NEW m \in Media, CancelLock(m) PROVE DoneInv'
  BY <1>0, <1>4 DEF CancelLock
<1>5. ASSUME NEW w \in Workers, WorkerStep(w) PROVE DoneInv'
  <2> USE DEF SingleWorker, Goto, KeepRun, KeepQueue
  <2>1. CASE WNext(w) \/ WQuit(w)
    BY <1>0, <2>1 DEF WNext, IsPending, WQuit
  <2>2. CASE WCheck(w) \/ WArm(w)
    BY <1>0, <2>2 DEF WCheck, WArm
  <2>3. CASE WStart(w)
    BY <1>0, <2>3 DEF WStart
  <2>4. CASE WLaunch(w) \/ WEncodeEnds(w)
    <3>1. wjob[w] \in Jobs /\ MediaOf[wjob[w]] \in Media /\ status[wjob[w]] # "done"
      BY <2>4 DEF WLaunch, WEncodeEnds
    <3>2. \A j \in Jobs : j # wjob[w] => MediaOf[j] # MediaOf[wjob[w]]
      BY <3>1 DEF OneJobPerMedia
    <3>3. \A m \in Media : m # MediaOf[wjob[w]] => (Written(m)' <=> Written(m))
      BY <2>4, <3>1 DEF WLaunch, WEncodeEnds, Written
    <3>4. wpc'[w] \in {"finalize", "finishDone"} => Written(MediaOf[wjob[w]])'
      BY <2>4, <3>1 DEF WLaunch, WEncodeEnds, Written
    <3>5. status' = status /\ wjob' = wjob /\ \A v \in Workers : v # w => wpc'[v] = "off"
      BY <2>4 DEF WLaunch, WEncodeEnds
    <3> QED
      BY <3>1, <3>2, <3>3, <3>4, <3>5
  <2>5. CASE WFinalize(w)
    BY <1>0, <2>5 DEF WFinalize
  <2>6. CASE WFailed(w)
    BY <1>0, <2>6 DEF WFailed, Verdict
  <2>7. CASE WSettle(w)
    BY <1>0, <2>7 DEF WSettle, Outcome
  <2>8. CASE WClose(w) \/ WLeave(w)
    BY <1>0, <2>8 DEF WClose, WLeave, CancelCtx
  <2> QED
    BY <1>5, <2>1, <2>2, <2>3, <2>4, <2>5, <2>6, <2>7, <2>8 DEF WorkerStep
<1>6. ASSUME NEW s \in Streams, BeginExternal(s) \/ EndExternal(s) PROVE DoneInv'
  BY <1>0, <1>6 DEF BeginExternal, EndExternal, KeepWork
<1>7. CASE Removal
  <2>1. UNCHANGED <<status, wpc, wjob>>
    BY <1>7 DEF Removal, ResetCancel, ResetDelete, ResetRemove, Clear, KeepWork
  <2>2. \A m \in Media : Written(m) => Written(m)'
    BY <1>7, RemovalIsTold
  <2> QED
    BY <2>1, <2>2
<1>8. CASE UNCHANGED vars
  BY <1>0, <1>8 DEF vars
<1> QED
  BY <1>1, <1>2, <1>3, <1>4, <1>5, <1>6, <1>7, <1>8 DEF Next, LockHolder

(* What done means in every behaviour of the queue.                        *)
LEMMA DoneHolds ==
  ASSUME OneJobPerMedia
  PROVE  Spec => []DoneInv
<1>1. Init => DoneInv
  BY DEF Init, DoneInv, Unsettled
<1>2. TypeOK /\ SingleWorker /\ Leash /\ DoneInv /\ [Next]_vars => DoneInv'
  BY DoneNext
<1> QED
  BY <1>1, <1>2, Typing, OneWorker, LeashHolds, PTL DEF Spec

(* With one job per media id, a job that is reported done stands for an    *)
(* HLS tree that an encode wrote to its end, however often it was          *)
(* preempted, canceled and run again; whatever Clear and the reset remove  *)
(* and whenever they do, nothing else takes that tree away.                *)
THEOREM DoneIsComplete ==
  ASSUME OneJobPerMedia
  PROVE  Spec => []DoneMeansComplete
<1>1. DoneInv => DoneMeansComplete
  BY DEF DoneInv, DoneMeansComplete, Written
<1> QED
  BY <1>1, DoneHolds, PTL

-----------------------------------------------------------------------------
(* What no handler may cancel.  The job of a run stays unfinished until    *)
(* the run settles, unless a handler cancels it; the holder of the mutex   *)
(* cancels nothing else, and what it preempts is on the list.              *)
Kept == {j \in Jobs : MediaOf[j] \notin Replaced}

ListInv ==
  /\ UnfinishedIsListed
  /\ mu \in {"free", "enqueue"} => victim = NoJob
  /\ mu = "preempt" => victim \in items
  /\ mu = "cancel" => todo \cap Kept = {} /\ victim \notin Kept
  /\ \A w \in Workers :
       wpc[w] \in Unsettled /\ wjob[w] \in Kept => status[wjob[w]] \in Unfinished

(* Every step keeps the unfinished jobs that nobody may cancel listed.     *)
LEMMA ListNext ==
  TypeOK /\ SingleWorker /\ Leash /\ ListInv /\ [Next]_vars => ListInv'
<1> SUFFICES ASSUME TypeOK, SingleWorker, Leash, ListInv, [Next]_vars PROVE ListInv'
  OBVIOUS
<1> USE ConversionQueueAssumption
<1> USE DEF ListInv, Kept, UnfinishedIsListed, Unfinished, Unsettled, TypeOK, Leash, Busy, WorkerPCs
<1>1. ASSUME NEW j \in Jobs, EnqueueLock(j) \/ CancelTest(j) PROVE ListInv'
  BY <1>1 DEF EnqueueLock, CancelTest, workerVars, jobVars
<1>2. CASE EnqueuePreempt \/ CancelWrite \/ CancelUnlock
  BY <1>2 DEF EnqueuePreempt, CancelWrite, CancelUnlock, workerVars, jobVars
<1>3. CASE EnqueueUnlock
  BY <1>3 DEF EnqueueUnlock, StartWorker, Pruned, jobVars
<1>4. ASSUME NEW m \in Media, CancelLock(m) PROVE ListInv'
  BY <1>4 DEF CancelLock, workerVars, jobVars
<1>5. ASSUME NEW w \in Workers, WorkerStep(w) PROVE ListInv'
  <2> USE DEF SingleWorker, Goto, KeepRun, KeepQueue, jobVars
  <2>1. CASE WNext(w) \/ WQuit(w)
    BY <2>1 DEF WNext, IsPending, WQuit
  <2>2. CASE WCheck(w) \/ WArm(w)
    BY <2>2 DEF WCheck, WArm
  <2>3. CASE WStart(w)
    BY <2>3 DEF WStart
  <2>4. CASE WLaunch(w) \/ WEncodeEnds(w)
    BY <2>4 DEF WLaunch, WEncodeEnds
  <2>5. CASE WFinalize(w) \/ WFailed(w)
    BY <2>5 DEF WFinalize, WFailed, Verdict
  <2>6. CASE WSettle(w)
    BY <2>6 DEF WSettle, Outcome
  <2>7. CASE WClose(w) \/ WLeave(w)
    BY <2>7 DEF WClose, WLeave, CancelCtx
  <2> QED
    BY <1>5, <2>1, <2>2, <2>3, <2>4, <2>5, <2>6, <2>7 DEF WorkerStep
<1>6. ASSUME NEW s \in Streams, BeginExternal(s) \/ EndExternal(s) PROVE ListInv'
  BY <1>6 DEF BeginExternal, EndExternal, KeepWork, KeepQueue, workerVars
<1>7. CASE Removal
  BY <1>7 DEF Removal, ResetCancel, ResetDelete, ResetRemove, Clear, KeepWork, KeepQueue, workerVars
<1>8. CASE UNCHANGED vars
  BY <1>8 DEF vars
<1> QED
  BY <1>1, <1>2, <1>3, <1>4, <1>5, <1>6, <1>7, <1>8 DEF Next, LockHolder

(* The list invariant holds in every reachable state.                      *)
LEMMA ListHolds == Spec => []ListInv
<1>1. Init => ListInv
  BY DEF Init, ListInv, Kept, UnfinishedIsListed, Unfinished, Unsettled
<1>2. TypeOK /\ SingleWorker /\ Leash /\ ListInv /\ [Next]_vars => ListInv'
  BY ListNext
<1> QED
  BY <1>1, <1>2, Typing, OneWorker, LeashHolds, PTL DEF Spec

(* However many jobs are enqueued, preempted and canceled, and whatever    *)
(* limit the list is pruned to, no job is lost from it before it is        *)
(* finished, except those of a media id that a handler may cancel.         *)
THEOREM NoUnfinishedJobIsPruned == Spec => []UnfinishedIsListed
<1>1. ListInv => UnfinishedIsListed
  BY DEF ListInv
<1> QED
  BY <1>1, ListHolds, PTL

-----------------------------------------------------------------------------
(* The list as a set with positions of arrival: that this loses nothing of *)
(* the slice in the code, that nextPending finds its job, and that the     *)
(* list stays short.                                                       *)
Born == {k \in Jobs : status[k] # "unborn"}
ArrivalIsOrder == \A i, j \in items : arrival[i] = arrival[j] => i = j

ArrivalInv ==
  /\ items \subseteq Born
  /\ \A j \in Born : arrival[j] <= Cardinality(Born)
  /\ \A i, j \in Born : arrival[i] = arrival[j] => i = j
  /\ victim # NoJob => victim \in Born
  /\ \A w \in Workers : wpc[w] \in Busy => wjob[w] \in Born

(* There are finitely many jobs.                                           *)
LEMMA BornIsFinite == IsFiniteSet(Born) /\ Cardinality(Born) \in Nat
<1>1. Born \subseteq Jobs
  BY DEF Born
<1> QED
  BY <1>1, FS_Subset, FS_CardinalityType, ConversionQueueAssumption

(* A step that enqueues nothing changes the status of jobs only that are   *)
(* in the queue or were once, and gives nobody another position.           *)
LEMMA BornStays ==
  ASSUME TypeOK, ArrivalInv, Born' = Born, UNCHANGED arrival, items' \subseteq items,
         victim' # NoJob => victim' \in Born,
         \A w \in Workers : wpc'[w] \in Busy => wjob'[w] \in Born
  PROVE  ArrivalInv'
BY DEF ArrivalInv

(* Every step keeps positions apart.                                       *)
LEMMA ArrivalNext == TypeOK /\ ArrivalInv /\ [Next]_vars => ArrivalInv'
<1> SUFFICES ASSUME TypeOK, ArrivalInv, [Next]_vars PROVE ArrivalInv'
  OBVIOUS
<1> USE ConversionQueueAssumption
<1>1. ASSUME NEW j \in Jobs, EnqueueLock(j) PROVE ArrivalInv'
  <2>1. j \notin Born /\ Born' = Born \cup {j}
    BY <1>1 DEF EnqueueLock, Born, TypeOK
  <2>2. arrival' = [arrival EXCEPT ![j] = Cardinality(Born) + 1]
    BY <1>1 DEF EnqueueLock, Born
  <2>3. Cardinality(Born') = Cardinality(Born) + 1
    BY <2>1, BornIsFinite, FS_AddElement
  <2>4. \A k \in Born' : arrival'[k] <= Cardinality(Born')
    BY <2>1, <2>2, <2>3, BornIsFinite DEF ArrivalInv, TypeOK, Born
  <2>5. \A i, k \in Born' : arrival'[i] = arrival'[k] => i = k
    BY <2>1, <2>2, BornIsFinite DEF ArrivalInv, TypeOK, Born
  <2>6. items' \subseteq Born' /\ (victim' # NoJob => victim' \in Born')
    BY <1>1, <2>1 DEF EnqueueLock, ArrivalInv
  <2>7. \A w \in Workers : wpc'[w] \in Busy => wjob'[w] \in Born'
    BY <1>1, <2>1 DEF EnqueueLock, ArrivalInv, workerVars
  <2> QED
    BY <2>4, <2>5, <2>6, <2>7 DEF ArrivalInv
<1> USE DEF TypeOK, Born
<1>2. CASE EnqueuePreempt \/ CancelWrite \/ CancelUnlock
  <2>1. Born' = Born
    BY <1>2 DEF EnqueuePreempt, CancelWrite, CancelUnlock, jobVars, ArrivalInv
  <2> QED
    BY <1>2, <2>1, BornStays
    DEF EnqueuePreempt, CancelWrite, CancelUnlock, jobVars, workerVars, ArrivalInv
<1>3. CASE EnqueueUnlock
  BY <1>3, BornStays DEF EnqueueUnlock, StartWorker, Pruned, jobVars, ArrivalInv, Busy, WorkerPCs
<1>4. ASSUME NEW m \in Media, CancelLock(m) PROVE ArrivalInv'
  BY <1>4, BornStays DEF CancelLock, jobVars, workerVars, ArrivalInv
<1>5. ASSUME NEW j \in Jobs, CancelTest(j) PROVE ArrivalInv'
  BY <1>5, BornStays DEF CancelTest, jobVars, workerVars, ArrivalInv, Unfinished
<1>6. ASSUME NEW w \in Workers, WorkerStep(w) PROVE ArrivalInv'
  <2> USE DEF Goto, KeepRun, KeepQueue, jobVars, ArrivalInv, Busy, WorkerPCs
  <2>1. CASE WNext(w) \/ WQuit(w)
    BY <2>1, BornStays DEF WNext, IsPending, WQuit
  <2>2. CASE WCheck(w) \/ WArm(w)
    BY <2>2, BornStays DEF WCheck, WArm
  <2>3. CASE WStart(w)
    <3>1. Born' = Born
      BY <2>3 DEF WStart
    <3> QED
      BY <2>3, <3>1, BornStays DEF WStart
  <2>4. CASE WLaunch(w) \/ WEncodeEnds(w)
    BY <2>4, BornStays DEF WLaunch, WEncodeEnds
  <2>5. CASE WFinalize(w) \/ WFailed(w)
    BY <2>5, BornStays DEF WFinalize, WFailed, Verdict
  <2>6. CASE WSettle(w)
    <3>1. Born' = Born
      BY <2>6 DEF WSettle, Outcome
    <3> QED
      BY <2>6, <3>1, BornStays DEF WSettle, Outcome
  <2>7. CASE WClose(w) \/ WLeave(w)
    BY <2>7, BornStays DEF WClose, WLeave
  <2> QED
    BY <1>6, <2>1, <2>2, <2>3, <2>4, <2>5, <2>6, <2>7 DEF WorkerStep
<1>7. ASSUME NEW s \in Streams, BeginExternal(s) \/ EndExternal(s) PROVE ArrivalInv'
  BY <1>7, BornStays DEF BeginExternal, EndExternal, KeepWork, KeepQueue, workerVars, ArrivalInv
<1>8. CASE Removal
  BY <1>8, BornStays
  DEF Removal, ResetCancel, ResetDelete, ResetRemove, Clear, KeepWork, KeepQueue, workerVars, ArrivalInv
<1>9. CASE UNCHANGED vars
  BY <1>9, BornStays DEF vars, ArrivalInv
<1> QED
  BY <1>1, <1>2, <1>3, <1>4, <1>5, <1>6, <1>7, <1>8, <1>9 DEF Next, LockHolder

(* Positions are apart in every reachable state.                           *)
LEMMA ArrivalHolds == Spec => []ArrivalInv
<1>1. Init => ArrivalInv
  BY DEF Init, ArrivalInv, Born, Busy
<1>2. TypeOK /\ ArrivalInv /\ [Next]_vars => ArrivalInv'
  BY ArrivalNext
<1> QED
  BY <1>1, <1>2, Typing, PTL DEF Spec

(* Of any set of jobs in the queue one is the newest.                      *)
LEMMA NewestExists ==
  ASSUME TypeOK, ArrivalInv, NEW S, S \subseteq Born, S # {}
  PROVE  \E j \in S : \A k \in S : arrival[k] <= arrival[j]
<1> DEFINE N == Cardinality(Born)
<1> DEFINE T == {N - arrival[j] : j \in S}
<1>0. \A j \in S : arrival[j] \in Nat /\ N - arrival[j] \in Nat
  <2> TAKE j \in S
  <2>1. j \in Born /\ j \in Jobs /\ arrival[j] \in Nat
    BY DEF Born, TypeOK
  <2>2. arrival[j] <= N
    BY <2>1 DEF ArrivalInv
  <2> HIDE DEF N
  <2>3. N \in Nat
    BY BornIsFinite DEF N
  <2> QED
    BY <2>1, <2>2, <2>3
<1>1. T \subseteq Nat /\ T # {}
  BY <1>0
<1>2. PICK x \in T : \A y \in T : ~(<<y, x>> \in OpToRel(<, Nat))
  <2> HIDE DEF T
  <2> QED
    BY <1>1, NatLessThanWellFounded, WFMin
<1>3. \A y \in T : ~(y < x)
  BY <1>1, <1>2 DEF OpToRel
<1>4. PICK j \in S : x = N - arrival[j]
  OBVIOUS
<1>5. N \in Nat
  BY BornIsFinite
<1> HIDE DEF N
<1>6. ASSUME NEW k \in S PROVE arrival[k] <= arrival[j]
  <2>1. N - arrival[k] \in T
    OBVIOUS
  <2>2. ~(N - arrival[k] < N - arrival[j])
    BY <1>3, <1>4, <2>1
  <2> QED
    BY <1>0, <1>5, <2>2
<1> QED
  BY <1>6

(* nextPending has an answer, and only one, whenever the list has a        *)
(* pending job: what the loop over the slice returns is what WNext takes.  *)
NextPendingIsDefined ==
  (\E j \in items : IsPending(j))
    => \E j \in items : /\ IsPending(j) /\ Newest(j)
                        /\ \A k \in items : IsPending(k) /\ Newest(k) => k = j
THEOREM WorkerFindsItsJob == Spec => []NextPendingIsDefined
<1>1. TypeOK /\ ArrivalInv => NextPendingIsDefined
  <2> SUFFICES ASSUME TypeOK, ArrivalInv, \E j \in items : IsPending(j)
               PROVE  \E j \in items :
                        /\ IsPending(j) /\ Newest(j)
                        /\ \A k \in items : IsPending(k) /\ Newest(k) => k = j
    BY DEF NextPendingIsDefined
  <2> DEFINE S == {j \in items : IsPending(j)}
  <2>1. S \subseteq Born /\ S # {}
    BY DEF ArrivalInv
  <2>2. PICK j \in S : \A k \in S : arrival[k] <= arrival[j]
    BY <2>1, NewestExists
  <2>3. Newest(j)
    BY <2>2 DEF Newest
  <2>4. ASSUME NEW k \in items, IsPending(k), Newest(k) PROVE k = j
    <3>1. arrival[j] <= arrival[k] /\ arrival[k] <= arrival[j]
      BY <2>2, <2>4 DEF Newest
    <3> QED
      BY <3>1, <2>1, <2>4 DEF ArrivalInv, TypeOK, Born
  <2> QED
    BY <2>3, <2>4
<1> QED
  BY <1>1, Typing, ArrivalHolds, PTL

(* The finished jobs of a list that pruneLocked has been through, and of   *)
(* one it is given.                                                        *)
Finished == {j \in items : status[j] \notin Unfinished}
FinishedKept == {j \in Pruned : status[j] \notin Unfinished}

(* The position of a finished job counted from the newest one.             *)
Place == [j \in Finished |-> Cardinality({k \in Finished : arrival[k] >= arrival[j]})]

(* Two finished jobs have two places.                                      *)
LEMMA PlacesDiffer ==
  ASSUME TypeOK, ArrivalInv
  PROVE  /\ IsFiniteSet(Finished)
         /\ \A j \in Finished : Place[j] \in Nat \ {0}
         /\ \A i, j \in Finished : arrival[i] < arrival[j] => Place[j] < Place[i]
<1> DEFINE From(j) == {k \in Finished : arrival[k] >= arrival[j]}
<1>1. IsFiniteSet(Finished)
  <2>1. Finished \subseteq Jobs
    BY DEF Finished, TypeOK
  <2> QED
    BY <2>1, FS_Subset, ConversionQueueAssumption
<1>2. \A j \in Finished : IsFiniteSet(From(j)) /\ Cardinality(From(j)) \in Nat
  <2> TAKE j \in Finished
  <2>1. From(j) \in SUBSET Finished
    OBVIOUS
  <2> HIDE DEF From
  <2> QED
    BY <1>1, <2>1, FS_Subset, FS_CardinalityType
<1>3. \A j \in Finished : Place[j] = Cardinality(From(j))
  BY DEF Place
<1>4. \A j \in Finished : Place[j] \in Nat \ {0}
  <2> TAKE j \in Finished
  <2>1. From(j) # {}
    BY DEF Finished, TypeOK
  <2> HIDE DEF From
  <2> QED
    BY <1>2, <1>3, <2>1, FS_EmptySet
<1>5. ASSUME NEW i \in Finished, NEW j \in Finished, arrival[i] < arrival[j]
      PROVE  Place[j] < Place[i]
  <2>1. From(j) \in SUBSET From(i) /\ i \in From(i) /\ i \notin From(j)
    BY <1>5 DEF Finished, TypeOK
  <2> HIDE DEF From
  <2>2. Cardinality(From(j)) <= Cardinality(From(i)) /\ Cardinality(From(i)) # Cardinality(From(j))
    BY <1>2, <2>1, FS_Subset
  <2> QED
    BY <1>2, <1>3, <2>2
<1> QED
  BY <1>1, <1>4, <1>5

(* pruneLocked leaves at most Limit finished jobs, and drops finished jobs *)
(* only, all of them older than the finished ones that stay.               *)
LEMMA PrunedIsShort ==
  ASSUME TypeOK, ArrivalInv
  PROVE  /\ Cardinality(FinishedKept) <= Limit
         /\ \A j \in items \ Pruned : /\ status[j] \notin Unfinished
                                      /\ \A k \in FinishedKept : arrival[k] > arrival[j]
<1> USE ConversionQueueAssumption
<1>0. items \subseteq Jobs /\ IsFiniteSet(items) /\ Cardinality(items) \in Nat
  BY FS_Subset, FS_CardinalityType DEF TypeOK
<1>1. CASE Cardinality(items) <= Limit
  <2>1. FinishedKept \in SUBSET items /\ items \ Pruned = {}
    BY <1>1 DEF Pruned, FinishedKept
  <2>2. Cardinality(FinishedKept) <= Cardinality(items) /\ Cardinality(FinishedKept) \in Nat
    BY <1>0, <2>1, FS_Subset, FS_CardinalityType
  <2> QED
    BY <1>0, <1>1, <2>1, <2>2
<1>2. CASE ~(Cardinality(items) <= Limit)
  <2>1. \A j \in Finished :
          Place[j] = Cardinality({k \in items : status[k] \notin Unfinished /\ arrival[k] >= arrival[j]})
    <3> TAKE j \in Finished
    <3>1. {k \in Finished : arrival[k] >= arrival[j]}
            = {k \in items : status[k] \notin Unfinished /\ arrival[k] >= arrival[j]}
      BY DEF Finished
    <3> QED
      BY <3>1 DEF Place
  <2>2. FinishedKept = {j \in Finished : Place[j] <= Limit}
    BY <1>2, <2>1 DEF FinishedKept, Pruned, Finished
  <2>3. items \ Pruned = {j \in Finished : ~(Place[j] <= Limit)}
    BY <1>2, <2>1 DEF Pruned, Finished
  <2>4. Cardinality(FinishedKept) <= Limit
    <3> DEFINE f == [j \in FinishedKept |-> Place[j]]
    <3>1. f \in [FinishedKept -> 1..Limit]
      BY <2>2, PlacesDiffer
    <3>2. \A i, j \in FinishedKept : f[i] = f[j] => i = j
      <4> SUFFICES ASSUME NEW i \in FinishedKept, NEW j \in FinishedKept, f[i] = f[j]
                   PROVE  i = j
        OBVIOUS
      <4>1. i \in Finished /\ j \in Finished /\ Place[i] = Place[j]
        BY <2>2
      <4>2. ~(arrival[i] < arrival[j]) /\ ~(arrival[j] < arrival[i])
        BY <4>1, PlacesDiffer
      <4>3. i \in Born /\ j \in Born /\ arrival[i] \in Nat /\ arrival[j] \in Nat
        BY <4>1 DEF Finished, ArrivalInv, TypeOK, Born
      <4> QED
        BY <4>2, <4>3 DEF ArrivalInv
    <3>3. f \in Injection(FinishedKept, 1..Limit)
      BY <3>1, <3>2 DEF Injection, IsInjective
    <3>4. IsFiniteSet(1..Limit) /\ Cardinality(1..Limit) = Limit
      BY FS_Interval
    <3> HIDE DEF f
    <3> QED
      BY <3>3, <3>4, FS_Injection
  <2>5. ASSUME NEW j \in items \ Pruned, NEW k \in FinishedKept PROVE arrival[k] > arrival[j]
    <3>1. j \in Finished /\ k \in Finished /\ Place[k] < Place[j]
      BY <2>2, <2>3, <2>5, PlacesDiffer
    <3>2. ~(arrival[k] < arrival[j]) /\ arrival[k] # arrival[j]
      BY <3>1, PlacesDiffer DEF Finished, TypeOK, ArrivalInv
    <3> QED
      BY <3>1, <3>2 DEF Finished, TypeOK
  <2> QED
    BY <2>3, <2>4, <2>5 DEF Finished
<1> QED
  BY <1>1, <1>2

(* The list stays short: every enqueuer leaves no more than Limit finished *)
(* jobs on it, and took off finished jobs only, all of them older than the *)
(* ones that stay; nobody else takes a job off it.                         *)
ListIsTrimmed ==
  IF ~(mu = "enqueue" /\ mu' = "free") THEN items \subseteq items'
  ELSE /\ Cardinality({j \in items' : status'[j] \notin Unfinished}) <= Limit
       /\ \A j \in items \ items' :
            /\ status[j] \notin Unfinished
            /\ \A k \in items' : status'[k] \notin Unfinished => arrival[k] > arrival[j]
THEOREM ListStaysShort == Spec => [][ListIsTrimmed]_vars
<1>1. TypeOK /\ ArrivalInv /\ [Next]_vars
        => [ListIsTrimmed]_vars
  <2> SUFFICES ASSUME TypeOK, ArrivalInv, Next
               PROVE  ListIsTrimmed
    OBVIOUS
  <2>1. CASE EnqueueUnlock
    <3>1. items' = Pruned /\ status' = status /\ mu = "enqueue"
      BY <2>1 DEF EnqueueUnlock, jobVars
    <3>2. {j \in items' : status'[j] \notin Unfinished} = FinishedKept
      BY <3>1 DEF FinishedKept
    <3>3. Cardinality({j \in items' : status'[j] \notin Unfinished}) <= Limit
      BY <3>2, PrunedIsShort
    <3>4. \A j \in items \ items' :
            /\ status[j] \notin Unfinished
            /\ \A k \in items' : status'[k] \notin Unfinished => arrival[k] > arrival[j]
      <4>1. \A k \in items' : status'[k] \notin Unfinished => k \in FinishedKept
        BY <3>2
      <4> QED
        BY <3>1, <4>1, PrunedIsShort
    <3>5. mu' = "free"
      BY <2>1 DEF EnqueueUnlock
    <3> QED
      BY <3>1, <3>3, <3>4, <3>5 DEF ListIsTrimmed
  <2>2. CASE ~EnqueueUnlock
    <3>1. /\ mu = "enqueue" => mu' = "enqueue"
          /\ items \subseteq items'
      <4>1. ASSUME NEW j \in Jobs, EnqueueLock(j) \/ CancelTest(j)
            PROVE  (mu = "enqueue" => mu' = "enqueue") /\ items \subseteq items'
        BY <4>1 DEF EnqueueLock, CancelTest
      <4>2. ASSUME EnqueuePreempt \/ CancelWrite \/ CancelUnlock
            PROVE  (mu = "enqueue" => mu' = "enqueue") /\ items \subseteq items'
        BY <4>2 DEF EnqueuePreempt, CancelWrite, CancelUnlock
      <4>3. ASSUME NEW m \in Media, CancelLock(m)
            PROVE  (mu = "enqueue" => mu' = "enqueue") /\ items \subseteq items'
        BY <4>3 DEF CancelLock
      <4>4. ASSUME NEW w \in Workers, WorkerStep(w)
            PROVE  (mu = "enqueue" => mu' = "enqueue") /\ items \subseteq items'
        BY <4>4 DEF WorkerStep, WNext, WQuit, WCheck, WArm, WStart, WLaunch, WEncodeEnds,
                    WFinalize, WFailed, WSettle, WClose, WLeave, KeepRun, KeepQueue
      <4>5. ASSUME NEW s \in Streams, BeginExternal(s) \/ EndExternal(s)
            PROVE  (mu = "enqueue" => mu' = "enqueue") /\ items \subseteq items'
        BY <4>5 DEF BeginExternal, EndExternal, KeepWork, KeepQueue
      <4>6. ASSUME Removal
            PROVE  (mu = "enqueue" => mu' = "enqueue") /\ items \subseteq items'
        BY <4>6 DEF Removal, ResetCancel, ResetDelete, ResetRemove, Clear, KeepWork, KeepQueue
      <4> QED
        BY <2>2, <4>1, <4>2, <4>3, <4>4, <4>5, <4>6 DEF Next, LockHolder
    <3> QED
      BY <3>1 DEF ListIsTrimmed
  <2> QED
    BY <2>1, <2>2
<1> QED
  BY <1>1, Typing, ArrivalHolds, PTL DEF Spec

-----------------------------------------------------------------------------
(* The queue with its watchers.                                            *)

(* The watchers only read the queue: a behaviour of the composition is one *)
(* of the queue, and every theorem above holds of the composition too.     *)
THEOREM PublishingIsOfQueue == PubSpec => Spec
<1>1. PubInit => Init
  BY DEF PubInit
<1>2. [PubNext]_allVars => [Next]_vars
  <2> SUFFICES ASSUME PubNext PROVE [Next]_vars
    BY DEF allVars
  <2>1. ASSUME NEW j \in Jobs, Watcher(j) PROVE UNCHANGED vars
    BY <2>1 DEF Watcher, WatchStart, WatchPoll, WatchList, WatchCopy, WatchMark,
            WatchExpire
  <2> QED
    BY <2>1 DEF PubNext
<1> QED
  BY <1>1, <1>2, PTL DEF PubSpec, Spec

(* What a watcher relies on between its poll, its listing and its copy: a  *)
(* job that was seen done, under the mutex and so by nobody who has tested *)
(* it earlier, stays done for ever, so that no encoder is at work on its   *)
(* tree.  So does a job whose media id has been marked.                    *)
Looking == {"done", "listed", "copying"}

SeenDone ==
  \A j \in Jobs :
    watch[j] \in Looking \/ converted[MediaOf[j]] # "none" =>
      status[j] = "done" /\ victim # j

(* What is listed, and what is kept, is whole or was torn by a removal.    *)
IsWhole(tree, m) == tree = "complete" \/ (tree = "torn" /\ m \in swept)

FoundIsWhole ==
  \A j \in Jobs : watch[j] \in {"listed", "copying"} => IsWhole(found[j], MediaOf[j])

KeptIsWhole == \A m \in Media : converted[m] # "none" => IsWhole(converted[m], m)

(* What a watcher that has ended has seen: the job was listed, it was over *)
(* for good, and if it was done its tree has been copied or torn.          *)
StartedIsBorn == \A j \in Jobs : watch[j] # "none" => status[j] # "unborn"

EndedIsOver ==
  \A j \in Kept :
    watch[j] = "ended" /\ j \in items =>
      /\ status[j] \in {"done", "error", "canceled"} /\ victim # j
      /\ status[j] = "done" => converted[MediaOf[j]] = "complete" \/ MediaOf[j] \in swept

WatchTypes ==
  /\ watch \in [Jobs -> {"none", "polling", "ended"} \cup Looking]
  /\ found \in [Jobs -> {"absent", "torn", "partial", "complete"}]
  /\ converted \in [Media -> {"none", "absent", "torn", "partial", "complete"}]

WatchInv ==
  WatchTypes /\ SeenDone /\ FoundIsWhole /\ KeptIsWhole /\ StartedIsBorn /\ EndedIsOver

(* What the watchers' invariant needs to know of the queue.                *)
QueueInv == TypeOK /\ SingleWorker /\ Leash /\ ListInv /\ ArrivalInv /\ DoneInv

(* No step of the queue takes back what was seen done.                     *)
LEMMA QueueKeepsSeen ==
  ASSUME QueueInv, WatchInv, Next, UNCHANGED pubVars
  PROVE  SeenDone'
<1> USE ConversionQueueAssumption
<1> USE DEF QueueInv, WatchInv, pubVars, SeenDone, TypeOK
<1> USE DEF Unsettled, Leash, Busy, WorkerPCs, ListInv, DoneInv
<1>1. ASSUME NEW j \in Jobs, EnqueueLock(j) \/ CancelTest(j) PROVE SeenDone'
  BY <1>1 DEF EnqueueLock, CancelTest, Unfinished, workerVars, jobVars
<1>2. ASSUME EnqueuePreempt \/ CancelWrite \/ CancelUnlock PROVE SeenDone'
  BY <1>2 DEF EnqueuePreempt, CancelWrite, CancelUnlock, workerVars, jobVars
<1>3. ASSUME EnqueueUnlock PROVE SeenDone'
  BY <1>3 DEF EnqueueUnlock, jobVars
<1>4. ASSUME NEW m \in Media, CancelLock(m) PROVE SeenDone'
  BY <1>4 DEF CancelLock, workerVars, jobVars
<1>5. ASSUME NEW w \in Workers, WorkerStep(w) PROVE SeenDone'
  <2> USE DEF KeepRun, KeepQueue, jobVars
  <2>1. CASE WNext(w) \/ WQuit(w) \/ WCheck(w) \/ WArm(w)
    BY <2>1 DEF WNext, WQuit, WCheck, WArm
  <2>2. CASE WStart(w)
    BY <2>2 DEF WStart
  <2>3. CASE WLaunch(w) \/ WEncodeEnds(w) \/ WFinalize(w) \/ WFailed(w)
    BY <2>3 DEF WLaunch, WEncodeEnds, WFinalize, WFailed
  <2>4. CASE WSettle(w)
    BY <2>4 DEF WSettle, Outcome
  <2>5. CASE WClose(w) \/ WLeave(w)
    BY <2>5 DEF WClose, WLeave
  <2> QED
    BY <1>5, <2>1, <2>2, <2>3, <2>4, <2>5 DEF WorkerStep
<1>6. ASSUME NEW s \in Streams, BeginExternal(s) \/ EndExternal(s) PROVE SeenDone'
  BY <1>6 DEF BeginExternal, EndExternal, KeepWork, KeepQueue
<1>7. ASSUME Removal PROVE SeenDone'
  BY <1>7 DEF Removal, ResetCancel, ResetDelete, ResetRemove, Clear, KeepWork, KeepQueue
<1> QED
  BY <1>1, <1>2, <1>3, <1>4, <1>5, <1>6, <1>7 DEF Next, LockHolder

(* A tree is taken for unswept again only by the run that writes it anew,  *)
(* and the job of that run is not done.                                    *)
LEMMA SweptStays ==
  ASSUME QueueInv, Next, NEW m \in Media, m \in swept, m \notin swept'
  PROVE  \E j \in Jobs : MediaOf[j] = m /\ status[j] # "done" /\ status'[j] # "done"
<1> USE DEF fileVars, slotVars
<1>1. ASSUME EnqueuePreempt \/ EnqueueUnlock \/ CancelWrite \/ CancelUnlock PROVE FALSE
  BY <1>1 DEF EnqueuePreempt, EnqueueUnlock, CancelWrite, CancelUnlock
<1>2. ASSUME (\E j \in Jobs : EnqueueLock(j) \/ CancelTest(j)) \/ \E k \in Media : CancelLock(k)
      PROVE  FALSE
  BY <1>2 DEF EnqueueLock, CancelTest, CancelLock
<1>3. ASSUME NEW w \in Workers, WorkerStep(w)
      PROVE  WLaunch(w) \/ WEncodeEnds(w)
  BY <1>3 DEF WorkerStep, WNext, WQuit, WCheck, WArm, WStart, WFinalize, WFailed, WSettle,
              WClose, WLeave, KeepRun
<1>4. ASSUME (\E s \in Streams : BeginExternal(s) \/ EndExternal(s)) \/ Removal PROVE FALSE
  BY <1>4 DEF BeginExternal, EndExternal, Removal, ResetCancel, ResetDelete, ResetRemove,
              Clear, Remove
<1>5. PICK w \in Workers : WLaunch(w) \/ WEncodeEnds(w)
  BY <1>1, <1>2, <1>3, <1>4 DEF Next, LockHolder
<1>6. wpc[w] \in {"launched", "encode"} /\ m = MediaOf[wjob[w]] /\ status' = status
  BY <1>5 DEF WLaunch, WEncodeEnds, jobVars
<1>7. wjob[w] \in Jobs /\ status[wjob[w]] # "done"
  BY <1>6 DEF QueueInv, Leash, Busy, WorkerPCs, DoneInv, Unsettled
<1> QED
  BY <1>6, <1>7

(* Nor does the queue make a torn tree of what a watcher lists or keeps.   *)
LEMMA QueueKeepsWhole ==
  ASSUME OneJobPerMedia, QueueInv, WatchInv, Next, UNCHANGED pubVars
  PROVE  FoundIsWhole' /\ KeptIsWhole'
<1> USE ConversionQueueAssumption DEF WatchInv, WatchTypes, pubVars
<1>1. ASSUME NEW j \in Jobs, watch[j] \in {"listed", "copying"}
      PROVE  IsWhole(found[j], MediaOf[j])'
  <2>1. status[j] = "done" /\ IsWhole(found[j], MediaOf[j])
    BY <1>1 DEF SeenDone, Looking, FoundIsWhole
  <2>2. MediaOf[j] \in swept => MediaOf[j] \in swept'
    BY <2>1, SweptStays DEF OneJobPerMedia
  <2> QED
    BY <2>1, <2>2 DEF IsWhole
<1>2. ASSUME NEW m \in Media, converted[m] # "none"
      PROVE  IsWhole(converted[m], m)'
  <2>1. IsWhole(converted[m], m) /\ \A j \in Jobs : MediaOf[j] = m => status[j] = "done"
    BY <1>2 DEF SeenDone, KeptIsWhole
  <2>2. m \in swept => m \in swept'
    BY <2>1, SweptStays
  <2> QED
    BY <2>1, <2>2 DEF IsWhole
<1> QED
  BY <1>1, <1>2 DEF FoundIsWhole, KeptIsWhole

(* No step of the queue makes a job unborn again, lists one a second time, *)
(* or changes one that is over and that no handler may cancel.             *)
LEMMA QueueKeepsOver ==
  ASSUME QueueInv, WatchInv, Next, UNCHANGED pubVars
  PROVE  /\ StartedIsBorn'
         /\ \A j \in Kept : watch[j] = "ended" /\ j \in items' =>
              /\ j \in items /\ victim' # j
              /\ status'[j] = status[j]
<1> DEFINE Over == \A j \in Kept : watch[j] = "ended" /\ j \in items' =>
                     j \in items /\ victim' # j /\ status'[j] = status[j]
<1> USE ConversionQueueAssumption
<1> USE DEF QueueInv, WatchInv, pubVars, StartedIsBorn, EndedIsOver, Kept, TypeOK
<1> USE DEF Unsettled, Leash, Busy, WorkerPCs, ListInv
<1>1. ASSUME NEW j \in Jobs, EnqueueLock(j) \/ CancelTest(j) PROVE StartedIsBorn' /\ Over
  BY <1>1 DEF EnqueueLock, CancelTest, Unfinished, workerVars, jobVars
<1>2. ASSUME EnqueuePreempt \/ CancelWrite \/ CancelUnlock PROVE StartedIsBorn' /\ Over
  BY <1>2 DEF EnqueuePreempt, CancelWrite, CancelUnlock, workerVars, jobVars
<1>3. ASSUME EnqueueUnlock PROVE StartedIsBorn' /\ Over
  BY <1>3 DEF EnqueueUnlock, Pruned, jobVars
<1>4. ASSUME NEW m \in Media, CancelLock(m) PROVE StartedIsBorn' /\ Over
  BY <1>4 DEF CancelLock, workerVars, jobVars
<1>5. ASSUME NEW w \in Workers, WorkerStep(w) PROVE StartedIsBorn' /\ Over
  <2> USE DEF KeepRun, KeepQueue, jobVars
  <2>1. CASE WNext(w) \/ WQuit(w) \/ WCheck(w) \/ WArm(w)
    BY <2>1 DEF WNext, WQuit, WCheck, WArm
  <2>2. CASE WStart(w)
    BY <2>2 DEF WStart, Unfinished
  <2>3. CASE WLaunch(w) \/ WEncodeEnds(w) \/ WFinalize(w) \/ WFailed(w)
    BY <2>3 DEF WLaunch, WEncodeEnds, WFinalize, WFailed
  <2>4. CASE WSettle(w)
    BY <2>4 DEF WSettle, Outcome, Unfinished
  <2>5. CASE WClose(w) \/ WLeave(w)
    BY <2>5 DEF WClose, WLeave
  <2> QED
    BY <1>5, <2>1, <2>2, <2>3, <2>4, <2>5 DEF WorkerStep
<1>6. ASSUME NEW s \in Streams, BeginExternal(s) \/ EndExternal(s)
      PROVE  StartedIsBorn' /\ Over
  BY <1>6 DEF BeginExternal, EndExternal, KeepWork, KeepQueue
<1>7. ASSUME Removal PROVE StartedIsBorn' /\ Over
  BY <1>7 DEF Removal, ResetCancel, ResetDelete, ResetRemove, Clear, KeepWork, KeepQueue
<1> QED
  BY <1>1, <1>2, <1>3, <1>4, <1>5, <1>6, <1>7 DEF Next, LockHolder

(* So what an ended watcher has seen stays what it was.                    *)
LEMMA QueueKeepsEnded ==
  ASSUME OneJobPerMedia, QueueInv, WatchInv, Next, UNCHANGED pubVars
  PROVE  StartedIsBorn' /\ EndedIsOver'
<1>1. ASSUME NEW j \in Kept, watch[j] = "ended", j \in items'
      PROVE  /\ status'[j] \in {"done", "error", "canceled"} /\ victim' # j
             /\ status'[j] = "done" => converted[MediaOf[j]] = "complete" \/ MediaOf[j] \in swept'
  <2>1. j \in items /\ victim' # j /\ status'[j] = status[j]
    BY <1>1, QueueKeepsOver
  <2>2. /\ status[j] \in {"done", "error", "canceled"}
        /\ status[j] = "done" => converted[MediaOf[j]] = "complete" \/ MediaOf[j] \in swept
    BY <1>1, <2>1 DEF WatchInv, EndedIsOver
  <2>3. j \in Jobs /\ MediaOf[j] \in Media
    BY ConversionQueueAssumption DEF Kept
  <2>4. status[j] = "done" /\ MediaOf[j] \in swept => MediaOf[j] \in swept'
    BY <2>3, SweptStays DEF OneJobPerMedia
  <2> QED
    BY <2>1, <2>2, <2>4
<1> QED
  BY <1>1, QueueKeepsOver DEF EndedIsOver, pubVars, Kept

(* A watcher that sees a job done has seen the last of its changes, and    *)
(* what it copies is the tree of such a job.                               *)
LEMMA WatchersKeep ==
  ASSUME OneJobPerMedia, QueueInv, WatchInv, NEW j \in Jobs, Watcher(j)
  PROVE  WatchInv'
<1> USE ConversionQueueAssumption
<1> USE DEF WatchInv, WatchTypes, Looking, TypeOK, vars, To
<1> USE DEF SeenDone, StartedIsBorn, EndedIsOver, Kept, FoundIsWhole, KeptIsWhole, IsWhole
<1>1. CASE WatchStart(j) \/ WatchExpire(j)
  BY <1>1 DEF WatchStart, WatchExpire
<1>2. CASE WatchPoll(j)
  BY <1>2 DEF WatchPoll, QueueInv, ListInv
<1>3. ASSUME watch[j] \in Looking
      PROVE  /\ MediaOf[j] \in Media /\ status[j] = "done" /\ victim # j
             /\ output[MediaOf[j]] \in {"absent", "complete"}
             /\ output[MediaOf[j]] = "absent" => MediaOf[j] \in swept
  BY <1>3 DEF QueueInv, DoneInv, Written
<1>4. CASE WatchList(j)
  BY <1>3, <1>4 DEF WatchList, Tree
<1>5. ASSUME WatchFails(j), watch[j] \in Looking, UNCHANGED vars PROVE WatchInv'
  BY <1>3, <1>5 DEF WatchFails, MayBeMissing
<1>6. CASE WatchCopy(j)
  BY <1>3, <1>5, <1>6 DEF WatchCopy, Copied
<1>7. CASE WatchMark(j) /\ ~WatchFails(j)
  <2>1. found[j] \in {"complete", "torn"} /\ converted' = [converted EXCEPT ![MediaOf[j]] = found[j]]
    BY <1>3, <1>7 DEF WatchMark, Copied
  <2>2. \A k \in Jobs : k # j => MediaOf[k] # MediaOf[j]
    BY DEF OneJobPerMedia
  <2>3. WatchTypes' /\ StartedIsBorn' /\ FoundIsWhole' /\ KeptIsWhole'
    BY <1>7, <2>1 DEF WatchMark
  <2>4. SeenDone' /\ EndedIsOver'
    BY <1>3, <1>7, <2>1, <2>2 DEF WatchMark
  <2> QED
    BY <2>3, <2>4
<1>8. CASE WatchMark(j) /\ WatchFails(j)
  BY <1>5, <1>8 DEF WatchMark
<1> QED
  BY <1>1, <1>2, <1>4, <1>6, <1>7, <1>8 DEF Watcher

(* The invariant of the watchers in every behaviour of the composition.    *)
LEMMA WatchHolds ==
  ASSUME OneJobPerMedia
  PROVE  PubSpec => []WatchInv
<1>1. PubInit => WatchInv
  BY ConversionQueueAssumption
  DEF PubInit, Init, WatchInv, WatchTypes, Looking, SeenDone, FoundIsWhole, KeptIsWhole,
      StartedIsBorn, EndedIsOver, Kept
<1>2. QueueInv /\ WatchInv /\ [PubNext]_allVars => WatchInv'
  <2> SUFFICES ASSUME QueueInv, WatchInv, [PubNext]_allVars PROVE WatchInv'
    OBVIOUS
  <2>1. ASSUME Next, UNCHANGED pubVars PROVE WatchInv'
    <3>1. WatchTypes'
      BY <2>1 DEF WatchInv, WatchTypes, pubVars
    <3> QED
      BY <2>1, <3>1, QueueKeepsSeen, QueueKeepsWhole, QueueKeepsEnded DEF WatchInv
  <2>2. ASSUME NEW j \in Jobs, Watcher(j) PROVE WatchInv'
    BY <2>2, WatchersKeep
  <2>3. CASE UNCHANGED allVars
    BY <2>3 DEF allVars, vars, pubVars, WatchInv, WatchTypes, SeenDone, FoundIsWhole,
                KeptIsWhole, IsWhole, StartedIsBorn, EndedIsOver, Kept
  <2> QED
    BY <2>1, <2>2, <2>3 DEF PubNext
<1>3. PubSpec => []QueueInv
  BY PublishingIsOfQueue, Typing, OneWorker, LeashHolds, ListHolds, ArrivalHolds, DoneHolds, PTL
  DEF QueueInv
<1> QED
  BY <1>1, <1>2, <1>3, PTL DEF PubSpec

(* With one job per media id, and whatever is preempted, canceled or       *)
(* pruned between a watcher's poll, its listing and its copies, the        *)
(* library never keeps a half-written tree as the converted copy, and a    *)
(* torn one only of a tree that Clear or a reset has begun to remove.      *)
THEOREM ConvertedIsWholeTree ==
  ASSUME OneJobPerMedia
  PROVE  PubSpec => []ConvertedIsComplete
<1>1. WatchInv => ConvertedIsComplete
  BY DEF WatchInv, KeptIsWhole, IsWhole, ConvertedIsComplete
<1> QED
  BY <1>1, WatchHolds, PTL

(* A result is not lost, the part of DoneIsMarked that is safety: the      *)
(* watcher of a job that no handler may cancel does not give up on it.     *)
(* When it has ended, and the job is done and still listed, the library    *)
(* holds the complete copy, unless Clear or a reset has begun to remove    *)
(* the tree; preemptions between the poll and the end of the job do not    *)
(* mislead it.                                                             *)
EndedIsMarked ==
  \A j \in Kept :
    status[j] = "done" /\ j \in items /\ watch[j] = "ended" =>
      converted[MediaOf[j]] = "complete" \/ MediaOf[j] \in swept

THEOREM NoResultIsLost ==
  ASSUME OneJobPerMedia
  PROVE  PubSpec => []EndedIsMarked
<1>1. WatchInv => EndedIsMarked
  BY DEF WatchInv, EndedIsOver, EndedIsMarked
<1> QED
  BY <1>1, WatchHolds, PTL
=============================================================================
