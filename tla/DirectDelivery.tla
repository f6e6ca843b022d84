--------------------------- MODULE DirectDelivery ---------------------------
(***************************************************************************)
(* Changing the delivery of a running AirPlay session without ending it.   *)
(* Three parties meet:                                                     *)
(*   - the transaction of internal/obsrtmp, which prepares a candidate     *)
(*     generation, hands it to the AirPlay manager, waits, and, if the     *)
(*     change did not take, gives the candidate up and restores the plan   *)
(*     in force with a second candidate; after a crash it makes one        *)
(*     candidate with the plan in force;                                   *)
(*   - the monitor of internal/airplay, one goroutine that owns the        *)
(*     publisher process: it stops the old one, starts the candidate's,    *)
(*     has its output validated, commits, or cleans up;                    *)
(*   - the worker in which CandidateDelivery.Validate runs, which drains   *)
(*     the gate at its end.                                                *)
(* The publisher listens on fixed local ports for the receiver's media.    *)
(*                                                                         *)
(* At most one command is with the monitor, and it is about the generation *)
(* of the last transaction: a transaction leaves before the answer only    *)
(* when the direct session is over, and then none follows.  The media of   *)
(* the first publisher have arrived.  BridgeRunning and MediaReady are     *)
(* then written together: shown.  A request for the settings in force only *)
(* reads and is not modelled, nor the publisher of a session without       *)
(* ledger, which restarts by itself.                                       *)
(***************************************************************************)
EXTENDS DeliverySwitch

CONSTANTS
  MaxFaults    \* bound on the processes that die by themselves

ASSUME DirectAssumption == MaxFaults \in Nat

VARIABLES
  claimed,     \* the candidates with publisherClaimed,
  validated,   \* with validated,
  dropped,     \* with aborted
  tx,          \* the transaction: step, kind, plan asked for, generations
  answer,      \* the answer to the last change
  attempted,   \* c.recoveryAttempted
  rec,         \* the goroutine of RecoverPublisher, and for which generation
  command,     \* the command with the monitor
  mon,         \* where the monitor is
  published,   \* publisherGeneration
  running,     \* publisherRunning
  retiring,    \* the generation of retiring, 0 for nil
  lastExit,    \* how lastPipelineErr is classified
  shown,       \* status.BridgeRunning and MediaReady
  retry,       \* deliveryRetryPending
  sealed,      \* the observer's
  worker,      \* the validation worker, and its candidate
  proc,        \* the publisher process of each generation
  completion,  \* its completion
  airplay,     \* the context of the receiver is not cancelled
  faults       \* how many processes have died

candidateVars == <<claimed, validated, dropped>>
txVars == <<tx, answer, attempted>>
monitorVars == <<command, mon, published, running, retiring, lastExit, shown, sealed>>
processVars == <<proc, completion>>
switch == <<direct, switchVars>>
vars == <<switch, candidateVars, txVars, rec, monitorVars, retry, worker,
          processVars, airplay, faults>>

TxSteps == {"idle", "delay", "prepare", "backend", "submit", "wait", "judge", "abort"}
MonitorSteps == {"loop", "stop", "claim", "start", "proof", "validate", "commit", "adopt",
                 "cleanup", "fail", "answer", "stopping", "seal", "closing", "ending", "done"}

(* Type correctness.                                                       *)
TypeOK ==
  /\ SwitchTypeOK
  /\ claimed \subseteq Generations /\ validated \subseteq Generations
  /\ dropped \subseteq Generations
  /\ tx \in [at : TxSteps, kind : {"change", "restore", "recover"},
             asked : Plans \cup {NoPlan}, base : Generations, gen : 0..MaxGeneration]
  /\ answer \in {"none", "applied", "restored", "failed"}
  /\ attempted \subseteq Generations
  /\ rec \in [at : {"none", "ask", "run", "done"}, of : Generations]
  /\ command \in {"none", "queued", "running"}
  /\ mon \in MonitorSteps
  /\ published \in Generations /\ running \in BOOLEAN
  /\ retiring \in 0..MaxGeneration /\ lastExit \in {"clean", "crash"}
  /\ shown \in BOOLEAN /\ retry \in BOOLEAN /\ sealed \in BOOLEAN
  /\ worker \in [at : {"none", "probing", "draining", "ok", "err"}, of : Generations,
                 joined : BOOLEAN]
  /\ proc \in [Generations -> {"none", "running", "clean", "crash"}]
  /\ completion \in [Generations -> {"none", "notStarted", "exited", "unconfirmed"}]
  /\ airplay \in BOOLEAN /\ faults \in 0..MaxFaults

Init ==
  /\ SwitchInit
  /\ claimed = {} /\ validated = {} /\ dropped = {}
  /\ tx = [at |-> "idle", kind |-> "recover", asked |-> NoPlan, base |-> 1, gen |-> 0]
  /\ answer = "none" /\ attempted = {}
  /\ rec = [at |-> "none", of |-> 1]
  /\ command = "none" /\ mon = "loop" /\ published = 1 /\ running = TRUE
  /\ retiring = 0 /\ lastExit = "clean" /\ shown = TRUE /\ retry = FALSE /\ sealed = FALSE
  /\ worker = [at |-> "none", of |-> 1, joined |-> TRUE]
  /\ proc = [g \in Generations |-> IF g = 1 THEN "running" ELSE "none"]
  /\ completion = [g \in Generations |-> "none"]
  /\ airplay = TRUE /\ faults = 0
-----------------------------------------------------------------------------
(* Mutexes that are held over several steps: Validate holds that of its    *)
(* candidate, and the coordinator's while it waits for the drain.          *)
CandidateFree(g) == worker.of # g \/ worker.at \notin {"probing", "draining"}
CoordinatorFree == worker.at # "draining"

Candidate == tx.gen
Exited(g) == proc[g] \in {"clean", "crash"}
OldExitConfirmed == completion[active] = "exited"

(* Mutant: a claimed candidate is given up without its completion.         *)
ReleaseAny(g) == TRUE

(* CandidateDelivery.Abort.  A claimed publisher must have been completed; *)
(* again it is a no-op; the backend may refuse to stop.                    *)
MayRelease(g) == g \in claimed => completion[g] \in {"notStarted", "exited"}

AbortSucceeds(g) ==
  \/ g \in dropped /\ UNCHANGED <<switch, candidateVars>>
  \/ /\ g \notin dropped /\ MayRelease(g)
     /\ Abandon(g)
     /\ dropped' = dropped \cup {g} /\ validated' = validated \ {g}
     /\ UNCHANGED claimed

AbortFails(g) ==
  \/ g \notin dropped /\ ~MayRelease(g) /\ UNCHANGED <<switch, candidateVars>>
  \/ /\ g \notin dropped /\ MayRelease(g)
     /\ AbandonFails(g)
     /\ validated' = validated \ {g}
     /\ UNCHANGED <<claimed, dropped>>

CanAbort(g) == CandidateFree(g) /\ CoordinatorFree
-----------------------------------------------------------------------------
(* The transaction.                                                        *)

At(step) == tx.at = step
GoTo(step) == tx' = [tx EXCEPT !.at = step]

(* It is over, with the answer to a change, or to RecoverPublisher.        *)
Ends(a) ==
  /\ GoTo("idle")
  /\ answer' = IF tx.kind = "recover" THEN answer ELSE a
  /\ rec' = IF tx.kind = "recover" THEN [rec EXCEPT !.at = "done"] ELSE rec
  /\ UNCHANGED attempted

Moves(step) == GoTo(step) /\ UNCHANGED <<answer, attempted, rec>>

KeepMonitor == UNCHANGED <<monitorVars, retry, worker, processVars, airplay, faults>>

(* ReconfigureManagedDirectDelivery accepts.                               *)
Change(p) ==
  /\ CoordinatorFree /\ RouteKnown
  /\ At("idle") /\ pending = 0 /\ p # planOf[active]
  /\ Room(2)
  /\ tx' = [at |-> "prepare", kind |-> "change", asked |-> p, base |-> active, gen |-> 0]
  /\ answer' = "none"
  /\ UNCHANGED <<switch, candidateVars, attempted, rec>> /\ KeepMonitor

(* RecoverPublisher: once for a generation whose exit was confirmed.  The  *)
(* recovery budget, attempts in a stretch of time, may refuse as well.     *)
MayRecover(g) ==
  /\ airplay /\ RouteKnown /\ At("idle") /\ pending = 0
  /\ g = active /\ g \notin attempted /\ completion[g] = "exited"

Recover ==
  /\ rec.at = "ask" /\ CoordinatorFree /\ MayRecover(rec.of) /\ Room(1)
  /\ tx' = [at |-> "delay", kind |-> "recover", asked |-> NoPlan, base |-> active, gen |-> 0]
  /\ attempted' = attempted \cup {rec.of}
  /\ rec' = [rec EXCEPT !.at = "run"]
  /\ UNCHANGED <<switch, candidateVars, answer>> /\ KeepMonitor

RecoverRefused ==
  /\ rec.at = "ask" /\ CoordinatorFree
  /\ rec' = [rec EXCEPT !.at = "done"]
  /\ UNCHANGED <<switch, candidateVars, txVars>> /\ KeepMonitor

Delay ==
  /\ At("delay")
  /\ \/ airplay /\ direct = "live" /\ Moves("prepare")
     \/ Ends("failed")
  /\ UNCHANGED <<switch, candidateVars>> /\ KeepMonitor

(* PrepareCandidateDelivery and PrepareCompensationDelivery.  The latter   *)
(* needs the failed candidate given up and the old publisher's exit.       *)
MayPrepare ==
  /\ active = tx.base
  /\ tx.kind = "restore" => Candidate \in dropped /\ OldExitConfirmed
PlanToUse == IF tx.kind = "change" THEN tx.asked ELSE planOf[active]

Prepare ==
  /\ At("prepare") /\ CoordinatorFree
  /\ \/ \E g \in Generations :
          /\ MayPrepare /\ ~sealed /\ Reserve(g, PlanToUse)
          /\ tx' = [tx EXCEPT !.at = "backend", !.gen = g]
          /\ UNCHANGED <<answer, attempted, rec>>
     \/ /\ \E g \in Generations : MayPrepare /\ ReserveFails(g)
        /\ Ends("failed")
     \/ /\ Ends("failed")
        /\ UNCHANGED switch
  /\ UNCHANGED candidateVars /\ KeepMonitor

(* StartDirectReconfigureBackend.                                          *)
StartBackend ==
  /\ At("backend") /\ CoordinatorFree
  /\ \/ BackendStarts(Candidate) /\ Moves("submit")
     \/ Abandon(Candidate) /\ Ends("failed")
     \/ BackendLost(Candidate) /\ Ends("failed")
  /\ UNCHANGED candidateVars /\ KeepMonitor

(* ApplySourceClockDelivery and RecoverSourceClockDelivery, up to the      *)
(* queue.  A change needs a publisher, the others that there is none.      *)
Submittable ==
  /\ direct = "live" /\ mon # "done"
  /\ shown = (tx.kind = "change")
  /\ ~retry /\ command = "none"

Submit ==
  /\ At("submit")
  /\ IF tx.kind = "recover" /\ ~airplay
     THEN Moves("abort") /\ UNCHANGED command
     ELSE IF Submittable
     THEN Moves("wait") /\ command' = "queued"
     ELSE Moves("judge") /\ UNCHANGED command
  /\ UNCHANGED <<switch, candidateVars, retry, worker, processVars, airplay, faults,
                 mon, published, running, retiring, lastExit, shown, sealed>>

(* The direct session ends before the monitor has answered.                *)
WaitCancelled ==
  /\ At("wait") /\ direct # "live"
  /\ Moves("judge")
  /\ UNCHANGED <<switch, candidateVars>> /\ KeepMonitor

(* Mutant: nothing pending is taken for a commit.                          *)
NothingPending == pending = 0

(* deliveryCandidateCommitted.                                             *)
Committed == pending = 0 /\ active = Candidate

Judge ==
  /\ At("judge") /\ CoordinatorFree
  /\ IF Committed
     THEN Ends(IF tx.kind = "change" THEN "applied" ELSE "restored")
     ELSE Moves("abort")
  /\ UNCHANGED <<switch, candidateVars>> /\ KeepMonitor

(* runDirectDeliveryChange: one restoration, after the candidate is given  *)
(* up.                                                                     *)
Abort ==
  /\ At("abort") /\ CanAbort(Candidate)
  /\ \/ /\ AbortSucceeds(Candidate)
        /\ IF tx.kind = "change" /\ direct = "live"
           THEN /\ tx' = [tx EXCEPT !.at = "prepare", !.kind = "restore"]
                /\ UNCHANGED <<answer, attempted, rec>>
           ELSE Ends("failed")
     \/ AbortFails(Candidate) /\ Ends("failed")
  /\ KeepMonitor
-----------------------------------------------------------------------------
(* The worker of validateSourceClockCandidateOutput: the probes, then the  *)
(* drain with the coordinator's mutex held.  Either may fail or time out.  *)
WorkerAt(step) == worker.at = step
WorkerGoes(step) == worker' = [worker EXCEPT !.at = step]

KeepForWorker == UNCHANGED <<claimed, dropped, txVars, rec, monitorVars, retry,
                             processVars, airplay, faults>>

Drain ==
  /\ WorkerAt("probing")
  /\ BeginDrain(worker.of) /\ WorkerGoes("draining")
  /\ UNCHANGED validated /\ KeepForWorker

Validated ==
  /\ WorkerAt("draining") /\ direct = "live"
  /\ HoldDrain(worker.of) /\ WorkerGoes("ok")
  /\ validated' = validated \cup {worker.of}
  /\ KeepForWorker

Rejected ==
  /\ \/ WorkerAt("probing") /\ UNCHANGED switch
     \/ WorkerAt("draining") /\ AbortDrain
  /\ WorkerGoes("err")
  /\ UNCHANGED validated /\ KeepForWorker
-----------------------------------------------------------------------------
(* The monitor: a command.                                                 *)
In(step) == mon = step
Busy == worker.at \in {"probing", "draining"}

(* The reply, which a caller that has left does not take.                  *)
Answered == /\ command' = "none"
            /\ IF At("wait") THEN GoTo("judge") ELSE UNCHANGED tx
            /\ UNCHANGED <<answer, attempted>>

Take ==
  /\ In("loop") /\ command = "queued"
  /\ \/ /\ ~airplay \/ retiring # 0 \/ running # (tx.kind = "change")
        /\ Answered /\ UNCHANGED mon
     \/ /\ airplay /\ retiring = 0 /\ running = (tx.kind = "change")
        /\ command' = "running"
        /\ mon' = IF running THEN "stop" ELSE "claim"
        /\ UNCHANGED txVars
  /\ UNCHANGED <<switch, candidateVars, rec, published, running, retiring, lastExit, shown,
                 sealed, retry, worker, processVars, airplay, faults>>

(* stopAndWaitDone and the completion: the process of g has ended as k, or *)
(* its end is not confirmed.                                               *)
Ended(g, k) ==
  /\ Exited(g) => k = proc[g]
  /\ proc' = [proc EXCEPT ![g] = k]
  /\ completion' = [completion EXCEPT ![g] = "exited"]

KeepForCommand == UNCHANGED <<txVars, rec, command, published, sealed, retry, airplay, faults>>

(* Mutant: a stop that times out is taken for an end.                      *)
StopOldAnyway ==
  /\ In("stop") /\ mon' = "claim"
  /\ running' = FALSE /\ lastExit' = "clean"
  /\ \/ Ended(published, "clean")
     \/ /\ proc[published] = "running"
        /\ completion' = [completion EXCEPT ![published] = "exited"]
        /\ UNCHANGED proc
  /\ UNCHANGED <<switch, candidateVars, retiring, shown, worker>> /\ KeepForCommand

(* The old publisher is stopped; a receiver already over forbids it.       *)
StopOld ==
  /\ In("stop")
  /\ \/ \E k \in {"clean", "crash"} :
          /\ Ended(published, k)
          /\ running' = FALSE /\ lastExit' = k /\ mon' = "claim"
          /\ UNCHANGED <<retiring, shown>>
     \/ /\ proc[published] = "running"
        /\ running' = FALSE /\ retiring' = published
        /\ shown' = FALSE /\ mon' = "fail"
        /\ UNCHANGED <<lastExit, processVars>>
     \/ /\ ~airplay /\ mon' = "fail"
        /\ UNCHANGED <<running, retiring, shown, lastExit, processVars>>
  /\ UNCHANGED <<switch, candidateVars, worker>> /\ KeepForCommand

(* failAfterOldStop.                                                       *)
FailsAfterStop == shown' = FALSE /\ mon' = "fail"

(* The final watermark is read and the candidate claimed.                  *)
Claim ==
  /\ In("claim")
  /\ \/ /\ airplay /\ CanAbort(Candidate)
        /\ Candidate \notin claimed \cup dropped /\ pending = Candidate /\ RouteKnown
        /\ claimed' = claimed \cup {Candidate} /\ mon' = "start"
        /\ UNCHANGED shown
     \/ FailsAfterStop /\ UNCHANGED claimed
  /\ UNCHANGED <<switch, validated, dropped, running, retiring, lastExit, worker, processVars>>
  /\ KeepForCommand

(* The third case is prepareVideoViewGeneration, which completes nothing.  *)
StartCandidate ==
  /\ In("start")
  /\ \/ /\ proc' = [proc EXCEPT ![Candidate] = "running"] /\ mon' = "proof"
        /\ UNCHANGED <<shown, completion>>
     \/ /\ completion' = [completion EXCEPT ![Candidate] = "notStarted"]
        /\ FailsAfterStop /\ UNCHANGED proc
     \/ FailsAfterStop /\ UNCHANGED processVars
  /\ UNCHANGED <<switch, candidateVars, running, retiring, lastExit, worker>> /\ KeepForCommand

(* waitSourceClockCandidateProof; the validation is started.               *)
Prove ==
  /\ In("proof")
  /\ \/ /\ airplay /\ ~Exited(Candidate)
        /\ worker' = [at |-> "probing", of |-> Candidate, joined |-> TRUE]
        /\ mon' = "validate"
     \/ mon' = "cleanup" /\ UNCHANGED worker
  /\ UNCHANGED <<switch, candidateVars, running, retiring, lastExit, shown, processVars>>
  /\ KeepForCommand

(* The worker is joined, or after a cancellation is not in time.           *)
Join ==
  /\ In("validate")
  /\ \/ WorkerAt("ok") /\ mon' = "commit" /\ UNCHANGED worker
     \/ WorkerAt("err") /\ mon' = "cleanup" /\ UNCHANGED worker
     \/ Busy /\ mon' = "cleanup" /\ worker' = [worker EXCEPT !.joined = FALSE]
  /\ UNCHANGED <<switch, candidateVars, running, retiring, lastExit, shown, processVars>>
  /\ KeepForCommand

(* commitSourceClockCandidate after a last look at the candidate and the   *)
(* receiver, CandidateDelivery.Commit with it.                             *)
CommitCandidate ==
  /\ In("commit") /\ CanAbort(Candidate)
  /\ \/ /\ airplay /\ ~Exited(Candidate) /\ ~sealed
        /\ Candidate \in validated
        /\ OldExitConfirmed /\ completion[Candidate] = "none"
        /\ Commit(Candidate)
        /\ validated' = validated \ {Candidate}
        /\ shown' = TRUE /\ mon' = "adopt"
     \/ /\ Candidate \in validated /\ CommitFails(Candidate)
        /\ validated' = validated \ {Candidate}
        /\ mon' = "cleanup" /\ UNCHANGED shown
     \/ /\ mon' = "cleanup"
        /\ UNCHANGED <<switch, validated, shown>>
  /\ UNCHANGED <<claimed, dropped, running, retiring, lastExit, worker, processVars>>
  /\ KeepForCommand

Adopt ==
  /\ In("adopt")
  /\ published' = Candidate /\ running' = TRUE /\ lastExit' = "clean"
  /\ mon' = "loop" /\ Answered
  /\ UNCHANGED <<switch, candidateVars, rec, retiring, shown, sealed, retry, worker,
                 processVars, airplay, faults>>

(* cleanupCandidate and what follows: what is not confirmed is retired.    *)
Cleanup ==
  /\ In("cleanup")
  /\ \/ /\ \E k \in {"clean", "crash"} : Ended(Candidate, k)
        /\ FailsAfterStop /\ UNCHANGED retiring
     \/ /\ proc[Candidate] = "running" /\ retiring' = Candidate
        /\ shown' = FALSE /\ mon' = "answer"
        /\ UNCHANGED processVars
  /\ UNCHANGED <<switch, candidateVars, running, lastExit, worker>> /\ KeepForCommand

(* finishFailed gives the candidate up, unless a worker is still with it.  *)
FinishFailed ==
  /\ In("fail") /\ mon' = "answer"
  /\ IF worker.of = Candidate /\ ~worker.joined
     THEN UNCHANGED <<switch, candidateVars>>
     ELSE CanAbort(Candidate) /\ (AbortSucceeds(Candidate) \/ AbortFails(Candidate))
  /\ UNCHANGED <<running, retiring, lastExit, shown, worker, processVars>> /\ KeepForCommand

(* Mutant: the failure is not reported.                                    *)
AnswerNobody ==
  /\ In("answer") /\ mon' = "loop" /\ command' = "none"
  /\ UNCHANGED <<switch, candidateVars, txVars, rec, published, running, retiring, lastExit,
                 shown, sealed, retry, worker, processVars, airplay, faults>>

Answer ==
  /\ In("answer") /\ mon' = "loop" /\ Answered
  /\ UNCHANGED <<switch, candidateVars, rec, published, running, retiring, lastExit, shown,
                 sealed, retry, worker, processVars, airplay, faults>>
-----------------------------------------------------------------------------
(* The monitor: ends of processes, retries, and the end of the session.    *)
KeepForLoop == UNCHANGED <<switch, candidateVars, txVars, command, published, sealed, worker,
                           faults>>

(* handlePipelineExit for a managed delivery.  While the goroutine of a    *)
(* recovery has not been taken in, nothing is done and nothing is shown.   *)
HandleExit(k) ==
  IF ~airplay
  THEN mon' = "seal" /\ airplay' = FALSE /\ UNCHANGED <<shown, rec>>
  ELSE /\ UNCHANGED <<mon, airplay>>
       /\ IF k = "crash" /\ rec.at # "none"
          THEN UNCHANGED <<shown, rec>>
          ELSE /\ shown' = FALSE
               /\ rec' \in {rec} \cup IF k = "clean" THEN {}
                                      ELSE {[at |-> "ask", of |-> published]}

SeesExit ==
  /\ In("loop") /\ running /\ Exited(published)
  /\ running' = FALSE /\ lastExit' = proc[published]
  /\ Ended(published, proc[published])
  /\ HandleExit(proc[published])
  /\ UNCHANGED <<retiring, retry>> /\ KeepForLoop

SeesRetiringExit ==
  /\ In("loop") /\ retiring # 0 /\ Exited(retiring)
  /\ Ended(retiring, proc[retiring]) /\ retiring' = 0
  /\ UNCHANGED <<rec, mon, running, lastExit, shown, retry, airplay>> /\ KeepForLoop

TakeRetry ==
  /\ In("loop") /\ retry /\ retry' = FALSE
  /\ IF ~running /\ retiring = 0
     THEN HandleExit(lastExit)
     ELSE UNCHANGED <<mon, airplay, shown, rec>>
  /\ UNCHANGED <<running, retiring, lastExit, processVars>> /\ KeepForLoop

TakeRecovery ==
  /\ In("loop") /\ rec.at = "done"
  /\ rec' = [at |-> "none", of |-> 1]
  /\ shown' = (shown /\ ~(airplay /\ rec.of = published /\ ~running /\ command = "none"))
  /\ UNCHANGED <<mon, running, retiring, lastExit, retry, processVars, airplay>> /\ KeepForLoop

(* The receiver is over: the publisher is stopped, what is retiring waited *)
(* for, the observer sealed, the direct session stopped, and the session   *)
(* of the receiver given up with the command that is still with it.        *)
Finish ==
  /\ In("loop") /\ ~airplay
  /\ airplay' = FALSE /\ mon' = "stopping"
  /\ UNCHANGED <<rec, running, retiring, lastExit, shown, retry, processVars>> /\ KeepForLoop

Unconfirmed(g) ==
  /\ proc[g] = "running"
  /\ completion' = [completion EXCEPT ![g] = "unconfirmed"]
  /\ UNCHANGED proc

StopPublisher ==
  /\ In("stopping") /\ mon' = "seal"
  /\ IF running
     THEN \/ \E k \in {"clean", "crash"} : Ended(published, k)
          \/ Unconfirmed(published)
     ELSE UNCHANGED processVars
  /\ UNCHANGED <<rec, running, retiring, lastExit, shown, retry, airplay>> /\ KeepForLoop

Seal ==
  /\ In("seal") /\ mon' = "closing" /\ sealed' = TRUE /\ retiring' = 0
  /\ IF retiring # 0
     THEN \/ \E k \in {"clean", "crash"} : Ended(retiring, k)
          \/ Unconfirmed(retiring)
     ELSE UNCHANGED processVars
  /\ UNCHANGED <<switch, candidateVars, txVars, rec, command, published, running, lastExit,
                 shown, retry, worker, airplay, faults>>

StopsDirect ==
  /\ In("closing") /\ mon' = "ending"
  /\ direct' = IF direct = "live" THEN "cancelled" ELSE direct
  /\ UNCHANGED <<switchVars, candidateVars, txVars, rec, command, published, running, retiring,
                 lastExit, shown, sealed, retry, worker, processVars, airplay, faults>>

Leaves ==
  /\ In("ending") /\ mon' = "done"
  /\ shown' = FALSE /\ retry' = FALSE
  /\ IF command = "none" THEN UNCHANGED <<txVars, command>> ELSE Answered
  /\ UNCHANGED <<switch, candidateVars, rec, published, running, retiring, lastExit, sealed,
                 worker, processVars, airplay, faults>>
-----------------------------------------------------------------------------
(* The users, the processes and the rest of the direct session.            *)
KeepDelivery == UNCHANGED <<candidateVars, answer, attempted, tx, rec, monitorVars, worker,
                            completion>>

(* RetrySourceClockDelivery.                                               *)
PressRetry ==
  /\ ~In("done") /\ airplay /\ command = "none" /\ ~shown /\ ~retry
  /\ retry' = TRUE
  /\ UNCHANGED <<switch, proc, airplay, faults>> /\ KeepDelivery

(* The first of the two ends of a receiver is the one that counts.         *)
StopReceiver ==
  /\ airplay /\ airplay' = FALSE
  /\ UNCHANGED <<switch, retry, proc, faults>> /\ KeepDelivery

(* Processes die, and clients connect, while the session is on: when it    *)
(* ends, its steps have these outcomes too.  A publisher that is retiring  *)
(* has been asked to end.                                                  *)
On == airplay /\ direct = "live"

PublisherDies ==
  /\ \E g \in Generations, k \in {"clean", "crash"} :
       /\ proc[g] = "running" /\ proc' = [proc EXCEPT ![g] = k]
       /\ IF g = retiring THEN UNCHANGED faults
          ELSE On /\ faults < MaxFaults /\ faults' = faults + 1
  /\ UNCHANGED <<switch, retry, airplay>> /\ KeepDelivery

Gate ==
  /\ \/ On /\ Connect
     \/ \E g \in Generations : ConnEnds(g) \/ RetireBackend(g)
     \/ CancelDirect \/ FinishDirect
  /\ UNCHANGED <<retry, proc, airplay, faults>> /\ KeepDelivery
-----------------------------------------------------------------------------
Asking == Recover \/ RecoverRefused

Transaction ==
  \/ Delay \/ Prepare \/ StartBackend \/ Submit
  \/ WaitCancelled \/ Judge \/ Abort

Monitor ==
  \/ Take \/ StopOld \/ Claim \/ StartCandidate \/ Prove \/ Join \/ CommitCandidate
  \/ Adopt \/ Cleanup \/ FinishFailed \/ Answer
  \/ SeesExit \/ SeesRetiringExit \/ TakeRetry \/ TakeRecovery
  \/ Finish \/ StopPublisher \/ Seal \/ StopsDirect \/ Leaves

Worker == Drain \/ Validated \/ Rejected

Environment ==
  \/ \E p \in Plans : Change(p)
  \/ PressRetry \/ StopReceiver \/ PublisherDies
  \/ Gate

Next == Asking \/ Transaction \/ Monitor \/ Worker \/ Environment

Spec == Init /\ [][Next]_vars

(* Goroutines run on, and every wait of theirs has a time-out; the select  *)
(* of the monitor serves each of its cases.  Users and processes owe       *)
(* nothing.                                                                *)
FairSpec ==
  Spec /\ WF_vars(Transaction) /\ WF_vars(Worker) /\ WF_vars(Monitor) /\ WF_vars(Take)
-----------------------------------------------------------------------------
(* Properties.                                                             *)

(* Two publishers never run together: they would listen on the same local  *)
(* ports.  The candidate starts after the confirmed end of the old one,    *)
(* also in a restoration, a recovery, and after a cleanup that timed out.  *)
OnePublisher ==
  \A g, h \in Generations : proc[g] = "running" /\ proc[h] = "running" => g = h

(* As long as the gate stands, public connections go to the backend of the *)
(* generation in force: a commit leaves none on the one before, whoever    *)
(* connects while the gate is drained or reopened.                         *)
OldRouteIsSilent == direct # "closed" => conn \subseteq {active}

(* A candidate is given up when nothing of it is left: its publisher does  *)
(* not run and no validation is with it ("after a claim, backend Abort     *)
(* must require an explicit not-started or exit-confirmed publisher        *)
(* completion", CandidateDelivery).                                        *)
ReleaseIsSafe ==
  \A g \in Generations :
    ledger[g] = "aborted" /\ direct # "closed"
      => proc[g] # "running" /\ ~(worker.of = g /\ Busy)

(* The specification: the settings in force change in one step to those    *)
(* asked for, and the answer says whether they have; a failed change, with *)
(* or without restoration, and a recovery leave the settings of before.    *)
Changing == ~At("idle") /\ tx.kind # "recover"
Promise == INSTANCE DeliveryPromise WITH
  plan <- planOf[active],
  before <- IF Changing THEN planOf[tx.base] ELSE NoPlan,
  asked <- IF Changing THEN tx.asked ELSE NoPlan
KeepsDeliveryPromise == Promise!PromiseSpec

(* The caller of a change is answered: whatever dies, times out or is      *)
(* stopped meanwhile, also between the change and its restoration.         *)
RequestsAreAnswered == Promise!Answered
=============================================================================
