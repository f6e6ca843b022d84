------------------------ MODULE DirectDeliveryProofs ------------------------
(***************************************************************************)
(* Proofs about DirectDelivery, for any plans, numbers of generations and  *)
(* of crashes.                                                             *)
(*                                                                         *)
(* All of it rests on who may touch a generation.  A command is about the  *)
(* generation of the transaction that waits for it, or of the last one     *)
(* when the session is over (CommandIsCurrent); the monitor knows of every *)
(* publisher that may run (PublishersAreKnown); the ledger and the         *)
(* coordinator agree (LedgerIsKept); what runs has been claimed, and what  *)
(* is claimed and not completed is not released (ProcessesAreClaimed); and *)
(* a transaction knows the plan in force (PlanIsAgreed).                   *)
(***************************************************************************)
EXTENDS DirectDelivery, TLAPS

Stopping == In("claim") \/ In("start")
WithCandidate ==
  In("proof") \/ In("validate") \/ In("commit") \/ In("adopt") \/ In("cleanup")
Commanding == In("stop") \/ Stopping \/ WithCandidate \/ In("fail") \/ In("answer")
Handed == At("backend") \/ At("submit") \/ At("wait") \/ At("judge") \/ At("abort")

(* Whose the command is: a transaction that has left it without an answer  *)
(* is the last of its session.                                             *)
CommandIsCurrent ==
  /\ Commanding <=> command = "running"
  /\ command # "none" => \/ At("wait")
                         \/ direct # "live" /\ (At("judge") \/ At("abort") \/ At("idle"))
  /\ command # "none" \/ Handed => Candidate \in Generations

(* Which publisher may run while the monitor is where it is.               *)
OnlyRuns(S) == \A g \in Generations : proc[g] = "running" => g \in S

PublishersAreKnown ==
  /\ Stopping => OnlyRuns({}) /\ ~running /\ retiring = 0
  /\ WithCandidate => OnlyRuns({Candidate}) /\ ~running /\ retiring = 0
  /\ In("stop") => running
  /\ In("loop") \/ In("stop") \/ In("fail") \/ In("answer") \/ In("stopping") \/ In("seal") =>
        /\ OnlyRuns({IF running THEN published ELSE retiring})
        /\ running => retiring = 0
  /\ OnePublisher

(* The active generation stays committed, the pending one is prepared, and *)
(* a candidate is claimed after its allocation.                            *)
LedgerIsKept ==
  /\ ledger[1] = "committed" /\ ledger[active] = "committed"
  /\ pending # 0 => \/ ledger[pending] = "prepared"
                    \/ ledger[pending] = "aborted" /\ direct = "closed"
  /\ \A g \in Generations : ledger[g] = "free" => g \notin claimed

(* A publisher other than the first is that of a claimed candidate, and    *)
(* its completion is recorded when it is over, or not confirmed.           *)
ProcessesAreClaimed ==
  /\ \A g \in Generations :
       /\ proc[g] # "none" \/ completion[g] # "none" => g \in claimed \cup {1}
       /\ proc[g] = "running" => completion[g] \in {"none", "unconfirmed"}
  /\ published \in claimed \cup {1} /\ retiring \in claimed \cup {0, 1}
  /\ Busy => worker.of \in claimed
  /\ In("start") \/ WithCandidate => Candidate \in claimed
  /\ In("start") \/ In("proof") =>
        /\ completion[Candidate] = "none"
        /\ ledger[Candidate] = "prepared" \/ direct = "closed"
  /\ At("backend") \/ At("submit") => Candidate \notin claimed
  /\ ReleaseIsSafe

(* The plan in force is that of before, or that of the candidate after its *)
(* commit, which only the verdict can follow.                              *)
PlanIsAgreed ==
  /\ ~At("idle") => ledger[tx.base] = "committed"
  /\ ~At("idle") =>
       \/ active = tx.base
       \/ active = Candidate /\ pending = 0 /\ (At("wait") \/ At("judge"))
  /\ Changing => tx.asked \in Plans /\ tx.asked # planOf[tx.base]
  /\ Handed => /\ Candidate # tx.base
               /\ planOf[Candidate] = IF tx.kind = "change" THEN tx.asked ELSE planOf[tx.base]
  /\ At("delay") => tx.kind = "recover"
  /\ planOf[active] \in Plans
-----------------------------------------------------------------------------
USE SwitchAssumption, DirectAssumption
  DEF Generations, switch, switchVars, candidateVars, txVars, monitorVars, processVars,
      In, At, GoTo, Moves, WorkerAt, WorkerGoes, Candidate, KeepMonitor, KeepForWorker,
      KeepForCommand, KeepForLoop, KeepDelivery, vars

(* What a step does to the transaction and to one entry of the ledger.     *)
TxIs(s, k, g) ==
  /\ tx'.at = s /\ tx'.kind = k /\ tx'.gen = g
  /\ tx'.asked = tx.asked /\ tx'.base = tx.base
TxKeeps(s) == TxIs(s, tx.kind, tx.gen)
Marks(g, s) ==
  \A h \in Generations : ledger'[h] = IF h = g THEN s ELSE ledger[h]
KeepsDrain == UNCHANGED <<direct, active, planOf, ledger, pending, conn>>

LEMMA GoToIs ==
  ASSUME TypeOK, NEW s \in TxSteps, GoTo(s)
  PROVE  TxKeeps(s)
BY DEF TypeOK, TxKeeps, TxIs

LEMMA EndsIs ==
  ASSUME TypeOK, NEW a, Ends(a)
  PROVE  TxKeeps("idle")
BY DEF Ends, TypeOK, TxKeeps, TxIs

LEMMA AnsweredIs ==
  ASSUME TypeOK, Answered
  PROVE  /\ command' = "none"
         /\ \/ At("wait") /\ TxKeeps("judge")
            \/ ~At("wait") /\ UNCHANGED tx
<1>1. CASE At("wait")
  <2>1. "judge" \in TxSteps /\ GoTo("judge") /\ command' = "none"
    BY <1>1 DEF Answered, TxSteps
  <2>2. TxKeeps("judge")
    BY <2>1, GoToIs
  <2> QED
    BY <1>1, <2>1, <2>2
<1> QED
  BY <1>1 DEF Answered

LEMMA LedgerIs ==
  ASSUME TypeOK, NEW g \in Generations, NEW s,
         ledger' = [ledger EXCEPT ![g] = s]
  PROVE  Marks(g, s)
BY DEF TypeOK, SwitchTypeOK, Marks

LEMMA PrepareIs ==
  ASSUME TypeOK, Prepare
  PROVE  /\ At("prepare") /\ UNCHANGED <<candidateVars, monitorVars, worker, processVars>>
         /\ \/ \E g \in Generations :
                  /\ MayPrepare /\ direct = "live" /\ pending = 0
                  /\ ledger[g] = "free" /\ Marks(g, "prepared")
                  /\ \A h \in Generations :
                       planOf'[h] = IF h = g THEN PlanToUse ELSE planOf[h]
                  /\ pending' = g /\ UNCHANGED <<direct, active, conn>>
                  /\ TxIs("backend", tx.kind, g)
            \/ \E g \in Generations :
                  /\ ledger[g] = "free" /\ Marks(g, "aborted")
                  /\ UNCHANGED <<direct, active, planOf, pending, conn>>
                  /\ TxKeeps("idle")
            \/ KeepsDrain /\ TxKeeps("idle")
<1>1. ASSUME NEW g \in Generations, MayPrepare, Reserve(g, PlanToUse),
             tx' = [tx EXCEPT !.at = "backend", !.gen = g]
      PROVE  /\ direct = "live" /\ pending = 0
             /\ ledger[g] = "free" /\ Marks(g, "prepared")
             /\ \A h \in Generations :
                  planOf'[h] = IF h = g THEN PlanToUse ELSE planOf[h]
             /\ pending' = g /\ UNCHANGED <<direct, active, conn>>
             /\ TxIs("backend", tx.kind, g)
  <2>1. Marks(g, "prepared")
    BY <1>1, LedgerIs DEF Reserve
  <2>2. planOf \in [Generations -> Plans \cup {NoPlan}]
    BY DEF TypeOK, SwitchTypeOK
  <2>3. TxIs("backend", tx.kind, g)
    BY <1>1 DEF TypeOK, TxIs
  <2> QED
    BY <1>1, <2>1, <2>2, <2>3 DEF Reserve, RouteKnown, NextFree
<1>2. ASSUME NEW g \in Generations, ReserveFails(g), Ends("failed")
      PROVE  /\ ledger[g] = "free" /\ Marks(g, "aborted")
             /\ UNCHANGED <<direct, active, planOf, pending, conn>>
             /\ TxKeeps("idle")
  BY <1>2, EndsIs, LedgerIs DEF ReserveFails, NextFree
<1>3. ASSUME Ends("failed"), UNCHANGED switch
      PROVE  KeepsDrain /\ TxKeeps("idle")
  BY <1>3, EndsIs DEF KeepsDrain
<1>4. At("prepare") /\ UNCHANGED <<candidateVars, monitorVars, worker, processVars>>
  BY DEF Prepare
<1> QED
  BY <1>1, <1>2, <1>3, <1>4 DEF Prepare

(* abortLocked.                                                            *)
LEMMA AbandonIs ==
  ASSUME TypeOK, NEW g \in Generations, Abandon(g)
  PROVE  /\ pending = g /\ pending' = 0 /\ Marks(g, "aborted")
         /\ UNCHANGED <<direct, active, planOf, conn>>
<1>1. Marks(g, "aborted")
  BY LedgerIs DEF Abandon
<1> QED
  BY <1>1 DEF Abandon

LEMMA StartBackendIs ==
  ASSUME TypeOK, CommandIsCurrent, StartBackend
  PROVE  /\ At("backend") /\ UNCHANGED <<candidateVars, monitorVars, worker, processVars>>
         /\ \/ KeepsDrain /\ (TxKeeps("submit") \/ TxKeeps("idle"))
            \/ /\ pending = tx.gen /\ pending' = 0 /\ Marks(tx.gen, "aborted")
               /\ UNCHANGED <<direct, active, planOf, conn>>
               /\ TxKeeps("idle")
<1>1. At("backend") /\ UNCHANGED <<candidateVars, monitorVars, worker, processVars>>
  BY DEF StartBackend
<1>2. tx.gen \in Generations
  BY <1>1 DEF CommandIsCurrent, Handed
<1>3. CASE BackendStarts(Candidate) /\ Moves("submit")
  BY <1>1, <1>3, GoToIs DEF BackendStarts, KeepsDrain, TxSteps
<1>4. CASE Abandon(Candidate) /\ Ends("failed")
  BY <1>1, <1>2, <1>4, AbandonIs, EndsIs
<1>5. CASE BackendLost(Candidate) /\ Ends("failed")
  BY <1>1, <1>5, EndsIs DEF BackendLost, KeepsDrain
<1> QED
  BY <1>3, <1>4, <1>5 DEF StartBackend

(* CandidateDelivery.Abort.                                                *)
Releases ==
  /\ Candidate \in claimed => completion[Candidate] \in {"notStarted", "exited"}
  /\ pending = Candidate /\ pending' = 0 /\ Marks(Candidate, "aborted")
  /\ UNCHANGED <<direct, active, planOf, conn, claimed>>

LEMMA ReleaseIs ==
  ASSUME TypeOK, tx.gen \in Generations, CanAbort(Candidate),
         AbortSucceeds(Candidate) \/ AbortFails(Candidate)
  PROVE  /\ ~(worker.of = Candidate /\ Busy)
         /\ Releases \/ (KeepsDrain /\ UNCHANGED claimed)
<1>1. ~(worker.of = Candidate /\ Busy)
  BY DEF CanAbort, CandidateFree, Busy
<1>2. CASE AbortFails(Candidate)
  BY <1>1, <1>2 DEF AbortFails, AbandonFails, KeepsDrain
<1>3. CASE AbortSucceeds(Candidate) /\ Candidate \in dropped
  BY <1>1, <1>3 DEF AbortSucceeds, KeepsDrain
<1>4. CASE AbortSucceeds(Candidate) /\ Candidate \notin dropped
  BY <1>1, <1>4, AbandonIs DEF AbortSucceeds, MayRelease, Releases
<1> QED
  BY <1>1, <1>2, <1>3, <1>4

LEMMA AbortIs ==
  ASSUME TypeOK, CommandIsCurrent, Abort
  PROVE  /\ At("abort") /\ UNCHANGED <<monitorVars, worker, processVars>>
         /\ ~(worker.of = Candidate /\ Busy)
         /\ Releases \/ (KeepsDrain /\ UNCHANGED claimed)
         /\ \/ direct = "live" /\ TxIs("prepare", "restore", tx.gen) /\ tx.kind = "change"
            \/ TxKeeps("idle")
<1>1. At("abort") /\ UNCHANGED <<monitorVars, worker, processVars>>
  BY DEF Abort
<1>2. tx.gen \in Generations
  BY <1>1 DEF CommandIsCurrent, Handed
<1>3. /\ ~(worker.of = Candidate /\ Busy)
      /\ Releases \/ (KeepsDrain /\ UNCHANGED claimed)
  BY <1>2, ReleaseIs DEF Abort
<1>4. CASE Ends("failed")
  BY <1>1, <1>3, <1>4, EndsIs
<1>5. CASE /\ tx.kind = "change" /\ direct = "live"
           /\ tx' = [tx EXCEPT !.at = "prepare", !.kind = "restore"]
  <2>1. TxIs("prepare", "restore", tx.gen)
    BY <1>5 DEF TypeOK, TxIs
  <2> QED
    BY <1>1, <1>3, <1>5, <2>1
<1> QED
  BY <1>4, <1>5 DEF Abort

LEMMA JudgeIs ==
  ASSUME TypeOK, Judge
  PROVE  /\ At("judge") /\ UNCHANGED <<switch, candidateVars, monitorVars, worker, processVars>>
         /\ \/ Committed /\ TxKeeps("idle")
            \/ ~Committed /\ TxKeeps("abort")
<1>1. CASE Committed
  BY <1>1, EndsIs DEF Judge
<1>2. CASE ~Committed
  BY <1>2, GoToIs DEF Judge, TxSteps
<1> QED
  BY <1>1, <1>2 DEF Judge

LEMMA FinishFailedIs ==
  ASSUME TypeOK, CommandIsCurrent, FinishFailed
  PROVE  /\ In("fail") /\ mon' = "answer" /\ UNCHANGED <<tx, command>>
         /\ UNCHANGED <<running, retiring, published, worker, processVars>>
         /\ \/ KeepsDrain /\ UNCHANGED claimed
            \/ Releases /\ ~(worker.of = Candidate /\ Busy)
<1>1. /\ In("fail") /\ mon' = "answer" /\ UNCHANGED <<tx, command>>
      /\ UNCHANGED <<running, retiring, published, worker, processVars>>
  BY DEF FinishFailed
<1>2. tx.gen \in Generations
  BY <1>1 DEF CommandIsCurrent, Commanding
<1>3. CASE UNCHANGED <<switch, candidateVars>>
  BY <1>1, <1>3 DEF KeepsDrain
<1>4. CASE CanAbort(Candidate) /\ (AbortSucceeds(Candidate) \/ AbortFails(Candidate))
  BY <1>1, <1>2, <1>4, ReleaseIs
<1> QED
  BY <1>3, <1>4 DEF FinishFailed

(* How the monitor comes to know the end of a process.                     *)
Outcome(g) ==
  \/ \E k \in {"clean", "crash"} :
       \A h \in Generations :
         /\ proc'[h] = IF h = g THEN k ELSE proc[h]
         /\ completion'[h] = IF h = g THEN "exited" ELSE completion[h]
  \/ /\ proc[g] = "running" /\ UNCHANGED proc
     /\ \A h \in Generations :
          completion'[h] = IF h = g THEN "unconfirmed" ELSE completion[h]

LEMMA OutcomeIs ==
  ASSUME TypeOK, NEW g \in Generations,
         (\E k \in {"clean", "crash"} : Ended(g, k)) \/ Unconfirmed(g)
  PROVE  Outcome(g)
<1>1. ASSUME NEW k \in {"clean", "crash"}, Ended(g, k) PROVE Outcome(g)
  BY <1>1 DEF Ended, TypeOK, Outcome
<1>2. ASSUME Unconfirmed(g) PROVE Outcome(g)
  BY <1>2 DEF Unconfirmed, TypeOK, Outcome
<1> QED
  BY <1>1, <1>2

LEMMA StopOldIs ==
  ASSUME TypeOK, StopOld
  PROVE  /\ In("stop") /\ UNCHANGED <<tx, command, published, switch, candidateVars, worker>>
         /\ \/ mon' = "claim" /\ ~running' /\ UNCHANGED retiring /\ Outcome(published)
               /\ \A g \in Generations : g = published => proc'[g] # "running"
            \/ /\ mon' = "fail" /\ UNCHANGED processVars
               /\ (~running' /\ retiring' = published) \/ UNCHANGED <<running, retiring>>
<1>1. In("stop") /\ UNCHANGED <<tx, command, published, switch, candidateVars, worker>>
  BY DEF StopOld
<1>2. published \in Generations /\ proc \in [Generations -> {"none", "running", "clean", "crash"}]
  BY DEF TypeOK
<1>3. ASSUME NEW k \in {"clean", "crash"}, Ended(published, k)
      PROVE  Outcome(published) /\ proc'[published] # "running"
  BY <1>2, <1>3, OutcomeIs DEF Ended
<1> QED
  BY <1>1, <1>3 DEF StopOld

LEMMA CleanupIs ==
  ASSUME TypeOK, CommandIsCurrent, Cleanup
  PROVE  /\ In("cleanup") /\ Candidate \in Generations
         /\ UNCHANGED <<tx, command, published, switch, candidateVars, worker, running>>
         /\ \/ mon' = "fail" /\ UNCHANGED retiring /\ Outcome(Candidate)
               /\ proc'[Candidate] # "running"
            \/ mon' = "answer" /\ retiring' = Candidate /\ UNCHANGED processVars
<1>1. In("cleanup") /\ UNCHANGED <<tx, command, published, switch, candidateVars, worker, running>>
  BY DEF Cleanup
<1>2. tx.gen \in Generations /\ proc \in [Generations -> {"none", "running", "clean", "crash"}]
  BY <1>1 DEF CommandIsCurrent, Commanding, WithCandidate, TypeOK
<1>3. ASSUME NEW k \in {"clean", "crash"}, Ended(tx.gen, k)
      PROVE  Outcome(tx.gen) /\ proc'[tx.gen] # "running"
  BY <1>2, <1>3, OutcomeIs DEF Ended
<1> QED
  BY <1>1, <1>2, <1>3 DEF Cleanup, FailsAfterStop

LEMMA StopPublisherIs ==
  ASSUME TypeOK, StopPublisher
  PROVE  /\ In("stopping") /\ mon' = "seal"
         /\ UNCHANGED <<tx, command, published, switch, candidateVars, worker, running, retiring>>
         /\ (running /\ Outcome(published)) \/ UNCHANGED processVars
<1>1. published \in Generations
  BY DEF TypeOK
<1>2. CASE running
  BY <1>1, <1>2, OutcomeIs DEF StopPublisher
<1> QED
  BY <1>2 DEF StopPublisher

LEMMA SealIs ==
  ASSUME TypeOK, Seal
  PROVE  /\ In("seal") /\ mon' = "closing" /\ retiring' = 0
         /\ UNCHANGED <<tx, command, published, switch, candidateVars, worker, running>>
         /\ (retiring \in Generations /\ Outcome(retiring)) \/ UNCHANGED processVars
<1>1. retiring # 0 => retiring \in Generations
  BY DEF TypeOK
<1>2. CASE retiring # 0
  BY <1>1, <1>2, OutcomeIs DEF Seal
<1> QED
  BY <1>2 DEF Seal

-----------------------------------------------------------------------------
(* Types.                                                                  *)
TxType ==
  tx \in [at : TxSteps, kind : {"change", "restore", "recover"},
          asked : Plans \cup {NoPlan}, base : Generations, gen : 0..MaxGeneration]
AnswerTypes ==
  /\ claimed \subseteq Generations /\ validated \subseteq Generations
  /\ dropped \subseteq Generations /\ attempted \subseteq Generations
  /\ answer \in {"none", "applied", "restored", "failed"}
MonitorTypes ==
  /\ command \in {"none", "queued", "running"} /\ mon \in MonitorSteps
  /\ published \in Generations /\ retiring \in 0..MaxGeneration
  /\ lastExit \in {"clean", "crash"} /\ faults \in 0..MaxFaults
RecType == rec \in [at : {"none", "ask", "run", "done"}, of : Generations]
WorkerType ==
  worker \in [at : {"none", "probing", "draining", "ok", "err"}, of : Generations,
              joined : BOOLEAN]
ProcessTypes ==
  /\ proc \in [Generations -> {"none", "running", "clean", "crash"}]
  /\ completion \in [Generations -> {"none", "notStarted", "exited", "unconfirmed"}]
Flags ==
  /\ running \in BOOLEAN /\ shown \in BOOLEAN /\ retry \in BOOLEAN
  /\ sealed \in BOOLEAN /\ airplay \in BOOLEAN

LEMMA TypeParts ==
  TypeOK <=> /\ SwitchTypeOK /\ TxType /\ AnswerTypes /\ MonitorTypes /\ RecType
             /\ WorkerType /\ ProcessTypes /\ Flags
BY Zenon DEF TypeOK, TxType, AnswerTypes, MonitorTypes, RecType, WorkerType, ProcessTypes, Flags

(* The operations of DeliverySwitch.                                       *)
LEMMA SwitchOperations ==
  ASSUME SwitchTypeOK, NEW g \in Generations, NEW p \in Plans \cup {NoPlan},
         \/ Reserve(g, p) \/ ReserveFails(g) \/ BackendStarts(g) \/ Abandon(g)
         \/ AbandonFails(g) \/ BackendLost(g) \/ BeginDrain(g) \/ HoldDrain(g)
         \/ AbortDrain \/ Commit(g) \/ CommitFails(g) \/ Connect \/ ConnEnds(g)
         \/ RetireBackend(g) \/ CancelDirect \/ FinishDirect
  PROVE  SwitchTypeOK'
<1> USE DEF SwitchTypeOK
<1>0. 0 \in 0..MaxGeneration /\ g \in 0..MaxGeneration
  OBVIOUS
<1>1. CASE Reserve(g, p)
  BY <1>0, <1>1 DEF Reserve
<1>2. CASE ReserveFails(g)
  BY <1>2 DEF ReserveFails
<1>3. CASE BackendStarts(g) \/ BackendLost(g)
  BY <1>3 DEF BackendStarts, BackendLost
<1>4. CASE Abandon(g)
  <2>1. draining' \in BOOLEAN
    BY <1>4, Zenon DEF Abandon
  <2> QED
    BY <1>0, <1>4, <2>1 DEF Abandon, Stopped
<1>5. CASE AbandonFails(g)
  BY <1>5 DEF AbandonFails
<1>6. CASE BeginDrain(g) \/ AbortDrain
  BY <1>6 DEF BeginDrain, AbortDrain
<1>7. CASE HoldDrain(g)
  BY <1>0, <1>7 DEF HoldDrain
<1>8. CASE Commit(g)
  BY <1>0, <1>8 DEF Commit
<1>9. CASE CommitFails(g)
  BY <1>0, <1>9 DEF CommitFails
<1>10. CASE Connect \/ ConnEnds(g)
  BY <1>10 DEF Connect, ConnEnds
<1>11. CASE RetireBackend(g)
  BY <1>11 DEF RetireBackend
<1>12. CASE CancelDirect
  BY <1>12 DEF CancelDirect
<1>13. CASE FinishDirect
  BY <1>13 DEF FinishDirect
<1> QED
  BY <1>1, <1>2, <1>3, <1>4, <1>5, <1>6, <1>7, <1>8, <1>9, <1>10, <1>11, <1>12, <1>13

LEMMA AbortTypes ==
  ASSUME SwitchTypeOK, tx.gen \in Generations,
         AbortSucceeds(tx.gen) \/ AbortFails(tx.gen)
  PROVE  SwitchTypeOK'
<1>1. FirstPlan \in Plans \cup {NoPlan}
  OBVIOUS
<1>2. CASE UNCHANGED switch
  BY <1>2 DEF SwitchTypeOK
<1>3. CASE Abandon(tx.gen) \/ AbandonFails(tx.gen)
  BY <1>1, <1>3, SwitchOperations
<1> QED
  BY <1>2, <1>3 DEF AbortSucceeds, AbortFails

LEMMA OutcomeTypes ==
  ASSUME TypeOK, NEW g \in Generations,
         (\E k \in {"clean", "crash"} : Ended(g, k)) \/ Unconfirmed(g)
  PROVE  ProcessTypes'
<1>1. ProcessTypes
  BY DEF TypeOK, ProcessTypes
<1>2. ASSUME NEW k \in {"clean", "crash"}, Ended(g, k) PROVE ProcessTypes'
  BY <1>1, <1>2 DEF Ended, ProcessTypes
<1>3. ASSUME Unconfirmed(g) PROVE ProcessTypes'
  BY <1>1, <1>3 DEF Unconfirmed, ProcessTypes
<1> QED
  BY <1>2, <1>3

LEMMA CommandStep ==
  ASSUME TypeOK, CommandIsCurrent, [Next]_vars
  PROVE  CommandIsCurrent'
<1> USE DEF CommandIsCurrent, Commanding, Stopping, WithCandidate, Handed
<1>1. CASE UNCHANGED <<mon, command, tx, direct>>
  BY <1>1
<1>2. ASSUME UNCHANGED vars \/ RecoverRefused
     PROVE  UNCHANGED <<mon, command, tx, direct>>
  BY <1>2 DEF RecoverRefused
<1>3. ASSUME SeesRetiringExit \/ TakeRecovery
     PROVE  UNCHANGED <<mon, command, tx, direct>>
  BY <1>3 DEF SeesRetiringExit, Ended, TakeRecovery
<1>4. ASSUME Drain \/ Validated \/ Rejected \/ PressRetry \/ StopReceiver \/
            PublisherDies
     PROVE  UNCHANGED <<mon, command, tx, direct>>
  BY <1>4 DEF Drain, BeginDrain, Validated, HoldDrain, Rejected,
     AbortDrain, PressRetry, StopReceiver, PublisherDies
<1>5. CASE Recover
  BY <1>5 DEF Recover, CoordinatorFree, MayRecover, RouteKnown, Room
<1>6. CASE Delay
  BY <1>6 DEF TypeOK, SwitchTypeOK, Delay, Ends
<1>7. CASE Prepare
  BY <1>7, PrepareIs DEF TypeOK, SwitchTypeOK, TxKeeps, TxIs, Marks,
     KeepsDrain, MayPrepare, PlanToUse
<1>8. CASE StartBackend
  BY <1>8 DEF TypeOK, SwitchTypeOK, StartBackend, BackendStarts, Abandon,
     Ends, BackendLost
<1>9. CASE Submit
  BY SMTT(60), <1>9 DEF TypeOK, SwitchTypeOK, Submit
<1>10. CASE WaitCancelled
  BY <1>10 DEF WaitCancelled
<1>11. CASE Judge
  BY <1>11 DEF TypeOK, SwitchTypeOK, Judge, Ends
<1>12. CASE Abort
  BY <1>12, AbortIs DEF TypeOK, SwitchTypeOK, TxKeeps, TxIs, Marks, Releases,
     KeepsDrain, Busy
<1>13. CASE Take
  BY <1>13 DEF TypeOK, SwitchTypeOK, Take, Answered
<1>14. CASE StopOld
  BY <1>14 DEF StopOld, Ended
<1>15. CASE Claim
  BY <1>15 DEF Claim, FailsAfterStop
<1>16. CASE StartCandidate
  BY <1>16 DEF StartCandidate, FailsAfterStop
<1>17. CASE Prove
  BY <1>17 DEF Prove
<1>18. CASE Join
  BY <1>18 DEF Join
<1>19. CASE CommitCandidate
  BY <1>19 DEF CommitCandidate, Commit, CommitFails
<1>20. CASE Adopt
  BY <1>20 DEF TypeOK, SwitchTypeOK, Adopt, Answered
<1>21. CASE Cleanup
  BY <1>21 DEF Cleanup, Ended, FailsAfterStop
<1>22. CASE FinishFailed
  BY <1>22 DEF FinishFailed, AbortSucceeds, Abandon, AbortFails,
     AbandonFails
<1>23. CASE Answer
  BY <1>23 DEF TypeOK, SwitchTypeOK, Answer, Answered
<1>24. CASE SeesExit
  BY <1>24 DEF SeesExit, Ended, HandleExit
<1>25. CASE TakeRetry
  BY <1>25 DEF TakeRetry, HandleExit
<1>26. CASE Finish
  BY <1>26 DEF Finish
<1>27. CASE StopPublisher
  BY <1>27 DEF StopPublisher, Ended, Unconfirmed
<1>28. CASE Seal
  BY <1>28 DEF Seal, Ended, Unconfirmed
<1>29. CASE StopsDirect
  BY <1>29 DEF StopsDirect
<1>30. CASE Leaves
  BY <1>30 DEF TypeOK, SwitchTypeOK, Leaves, Answered
<1>31. ASSUME NEW p \in Plans, Change(p) PROVE CommandIsCurrent'
  BY <1>31 DEF Change, CoordinatorFree, RouteKnown, Room
<1>32. CASE Gate
  BY <1>32 DEF Gate, Connect, ConnEnds, RetireBackend, CancelDirect,
     FinishDirect
<1> QED
  BY <1>1, <1>2, <1>3, <1>4, <1>5, <1>6, <1>7, <1>8, <1>9, <1>10, <1>11,
     <1>12, <1>13, <1>14, <1>15, <1>16, <1>17, <1>18, <1>19, <1>20, <1>21,
     <1>22, <1>23, <1>24, <1>25, <1>26, <1>27, <1>28, <1>29, <1>30, <1>31,
     <1>32 DEF Next, Asking, Transaction, Monitor, Worker, Environment

LEMMA PublisherStep ==
  ASSUME TypeOK, CommandIsCurrent, PublishersAreKnown, [Next]_vars
  PROVE  PublishersAreKnown'
<1> USE DEF PublishersAreKnown, Stopping, OnlyRuns, WithCandidate, OnePublisher
<1>1. CASE UNCHANGED <<mon, proc, running, retiring, published, tx>>
  BY <1>1
<1>2. ASSUME UNCHANGED vars \/ RecoverRefused
     PROVE  UNCHANGED <<mon, proc, running, retiring, published, tx>>
  BY <1>2 DEF RecoverRefused
<1>3. ASSUME TakeRecovery
     PROVE  UNCHANGED <<mon, proc, running, retiring, published, tx>>
  BY <1>3 DEF TakeRecovery
<1>4. ASSUME Drain \/ Validated \/ Rejected \/ PressRetry \/ StopReceiver \/
            Gate
     PROVE  UNCHANGED <<mon, proc, running, retiring, published, tx>>
  BY <1>4 DEF Drain, BeginDrain, Validated, HoldDrain, Rejected,
     AbortDrain, PressRetry, StopReceiver, Gate, Connect, ConnEnds,
     RetireBackend, CancelDirect, FinishDirect
<1>5. CASE Recover
  BY <1>5 DEF TypeOK, SwitchTypeOK, CommandIsCurrent, Commanding, Handed,
     Recover, CoordinatorFree, MayRecover, RouteKnown, Room
<1>6. CASE Delay
  BY <1>6 DEF TypeOK, SwitchTypeOK, CommandIsCurrent, Commanding, Handed,
     Delay, Ends
<1>7. CASE Prepare
  BY ZenonT(60), <1>7 DEF TypeOK, SwitchTypeOK, CommandIsCurrent, Commanding, Handed,
     Prepare, Reserve, ReserveFails, Ends
<1>8. CASE StartBackend
  BY <1>8 DEF TypeOK, SwitchTypeOK, CommandIsCurrent, Commanding, Handed,
     StartBackend, BackendStarts, Abandon, Ends, BackendLost
<1>9. CASE Submit
  BY <1>9 DEF TypeOK, SwitchTypeOK, CommandIsCurrent, Commanding, Handed,
     Submit
<1>10. CASE WaitCancelled
  BY <1>10 DEF WaitCancelled
<1>11. CASE Judge
  BY <1>11 DEF TypeOK, SwitchTypeOK, CommandIsCurrent, Commanding, Handed,
     Judge, Ends
<1>12. CASE Abort
  BY <1>12 DEF TypeOK, SwitchTypeOK, CommandIsCurrent, Commanding, Handed,
     Abort, AbortSucceeds, Abandon, Ends, AbortFails, AbandonFails
<1>13. CASE Take
  BY <1>13 DEF Take, Answered
<1>14. CASE StopOld
  BY SMTT(60), <1>14, StopOldIs DEF TypeOK, SwitchTypeOK, CommandIsCurrent, Commanding,
     Handed, TxKeeps, TxIs, Marks, Outcome
<1>15. CASE Claim
  BY <1>15 DEF Claim, FailsAfterStop
<1>16. CASE StartCandidate
  BY <1>16 DEF TypeOK, SwitchTypeOK, CommandIsCurrent, Commanding, Handed,
     StartCandidate, FailsAfterStop
<1>17. CASE Prove
  BY <1>17 DEF Prove
<1>18. CASE Join
  BY <1>18 DEF Join
<1>19. CASE CommitCandidate
  BY <1>19 DEF CommitCandidate, Commit, CommitFails
<1>20. CASE Adopt
  BY <1>20 DEF Adopt, Answered
<1>21. CASE Cleanup
  BY SMTT(60), <1>21, CleanupIs DEF TypeOK, SwitchTypeOK, CommandIsCurrent, Commanding,
     Handed, TxKeeps, TxIs, Marks, Outcome
<1>22. CASE FinishFailed
  BY <1>22 DEF FinishFailed, AbortSucceeds, Abandon, AbortFails,
     AbandonFails
<1>23. CASE Answer
  BY <1>23 DEF Answer, Answered
<1>24. CASE SeesExit
  BY <1>24 DEF SeesExit, Exited, Ended, HandleExit
<1>25. CASE SeesRetiringExit
  BY <1>25 DEF SeesRetiringExit, Exited, Ended
<1>26. CASE TakeRetry
  BY <1>26 DEF TakeRetry, HandleExit
<1>27. CASE Finish
  BY <1>27 DEF Finish
<1>28. CASE StopPublisher
  BY SMTT(60), <1>28, StopPublisherIs DEF TypeOK, SwitchTypeOK, CommandIsCurrent,
     Commanding, Handed, TxKeeps, TxIs, Marks, Outcome
<1>29. CASE Seal
  <2>1. \A h \in Generations : proc'[h] = "running" => proc[h] = "running"
    BY <1>29, SealIs DEF Outcome
  <2>2. mon' = "closing"
    BY <1>29, SealIs
  <2> QED
    BY <2>1, <2>2 DEF PublishersAreKnown, OnePublisher, Stopping, WithCandidate
<1>30. CASE StopsDirect
  BY <1>30 DEF StopsDirect
<1>31. CASE Leaves
  BY <1>31 DEF Leaves, Answered
<1>32. ASSUME NEW p \in Plans, Change(p) PROVE PublishersAreKnown'
  BY <1>32 DEF TypeOK, SwitchTypeOK, CommandIsCurrent, Commanding, Handed,
     Change, CoordinatorFree, RouteKnown, Room
<1>33. CASE PublisherDies
  BY <1>33 DEF PublisherDies
<1> QED
  BY <1>1, <1>2, <1>3, <1>4, <1>5, <1>6, <1>7, <1>8, <1>9, <1>10, <1>11,
     <1>12, <1>13, <1>14, <1>15, <1>16, <1>17, <1>18, <1>19, <1>20, <1>21,
     <1>22, <1>23, <1>24, <1>25, <1>26, <1>27, <1>28, <1>29, <1>30, <1>31,
     <1>32, <1>33 DEF Next, Asking, Transaction, Monitor, Worker, Environment

LEMMA LedgerStep ==
  ASSUME TypeOK, CommandIsCurrent, LedgerIsKept, [Next]_vars
  PROVE  LedgerIsKept'
<1> USE DEF LedgerIsKept
<1>1. CASE UNCHANGED <<ledger, active, pending, direct, claimed>>
  BY <1>1
<1>2. ASSUME UNCHANGED vars \/ Recover \/ RecoverRefused \/ Delay \/ Submit \/
            WaitCancelled \/ Judge
     PROVE  UNCHANGED <<ledger, active, pending, direct, claimed>>
  BY <1>2 DEF Recover, RecoverRefused, Delay, Ends, Submit, WaitCancelled,
     Judge
<1>3. ASSUME Take \/ StopOld \/ StartCandidate \/ Prove \/ Join \/ Adopt \/
            Cleanup \/ Answer \/ SeesExit \/ SeesRetiringExit \/ TakeRetry \/
            TakeRecovery \/ Finish \/ StopPublisher \/ Seal \/ Leaves
     PROVE  UNCHANGED <<ledger, active, pending, direct, claimed>>
  BY <1>3 DEF Take, Answered, StopOld, Ended, StartCandidate,
     FailsAfterStop, Prove, Join, Adopt, Cleanup, Answer, SeesExit,
     HandleExit, SeesRetiringExit, TakeRetry, TakeRecovery, Finish,
     StopPublisher, Unconfirmed, Seal, Leaves
<1>4. ASSUME Drain \/ Validated \/ Rejected \/ (\E p \in Plans : Change(p)) \/
            PressRetry \/ StopReceiver \/ PublisherDies
     PROVE  UNCHANGED <<ledger, active, pending, direct, claimed>>
  BY <1>4 DEF Drain, BeginDrain, Validated, HoldDrain, Rejected,
     AbortDrain, Change, PressRetry, StopReceiver, PublisherDies
<1>5. CASE Prepare
  BY <1>5, PrepareIs DEF TypeOK, SwitchTypeOK, CommandIsCurrent, Commanding,
     Stopping, WithCandidate, Handed, TxKeeps, TxIs, Marks, KeepsDrain,
     MayPrepare, PlanToUse
<1>6. CASE StartBackend
  BY <1>6, StartBackendIs DEF TypeOK, SwitchTypeOK, CommandIsCurrent,
     Commanding, Stopping, WithCandidate, Handed, TxKeeps, TxIs, Marks,
     KeepsDrain
<1>7. CASE Abort
  BY SMTT(60), <1>7, AbortIs DEF TypeOK, SwitchTypeOK, CommandIsCurrent, Commanding,
     Stopping, WithCandidate, Handed, TxKeeps, TxIs, Marks, Releases,
     KeepsDrain, Busy
<1>8. CASE Claim
  BY <1>8 DEF Claim, FailsAfterStop
<1>9. CASE CommitCandidate
  BY <1>9 DEF TypeOK, SwitchTypeOK, CommandIsCurrent, Commanding, Stopping,
     WithCandidate, Handed, CommitCandidate, Commit, CommitFails
<1>10. CASE FinishFailed
  BY <1>10 DEF TypeOK, SwitchTypeOK, CommandIsCurrent, Commanding,
     Stopping, WithCandidate, Handed, FinishFailed, AbortSucceeds, Abandon,
     AbortFails, AbandonFails
<1>11. CASE StopsDirect
  BY <1>11 DEF StopsDirect
<1>12. CASE Gate
  BY <1>12 DEF TypeOK, SwitchTypeOK, CommandIsCurrent, Commanding,
     Stopping, WithCandidate, Handed, Gate, Connect, ConnEnds, RetireBackend,
     CancelDirect, FinishDirect
<1> QED
  BY <1>1, <1>2, <1>3, <1>4, <1>5, <1>6, <1>7, <1>8, <1>9, <1>10, <1>11,
     <1>12 DEF Next, Asking, Transaction, Monitor, Worker, Environment

LEMMA PlanStep ==
  ASSUME TypeOK, CommandIsCurrent, LedgerIsKept, PlanIsAgreed, [Next]_vars
  PROVE  PlanIsAgreed'
<1> USE DEF PlanIsAgreed, Changing, Handed
<1>1. CASE UNCHANGED <<tx, ledger, active, pending, planOf>>
  BY <1>1
<1>2. ASSUME UNCHANGED vars \/ RecoverRefused
     PROVE  UNCHANGED <<tx, ledger, active, pending, planOf>>
  BY <1>2 DEF RecoverRefused
<1>3. ASSUME StopOld \/ Claim \/ StartCandidate \/ Prove \/ Join \/ Cleanup \/
            SeesExit \/ SeesRetiringExit \/ TakeRetry \/ TakeRecovery \/
            Finish \/ StopPublisher \/ Seal \/ StopsDirect
     PROVE  UNCHANGED <<tx, ledger, active, pending, planOf>>
  BY <1>3 DEF StopOld, Ended, Claim, FailsAfterStop, StartCandidate, Prove,
     Join, Cleanup, SeesExit, HandleExit, SeesRetiringExit, TakeRetry,
     TakeRecovery, Finish, StopPublisher, Unconfirmed, Seal, StopsDirect
<1>4. ASSUME Drain \/ Validated \/ Rejected \/ PressRetry \/ StopReceiver \/
            PublisherDies
     PROVE  UNCHANGED <<tx, ledger, active, pending, planOf>>
  BY <1>4 DEF Drain, BeginDrain, Validated, HoldDrain, Rejected,
     AbortDrain, PressRetry, StopReceiver, PublisherDies
<1>5. CASE Recover
  BY <1>5 DEF TypeOK, SwitchTypeOK, CommandIsCurrent, Commanding, Stopping,
     WithCandidate, LedgerIsKept, Recover
<1>6. CASE Delay
  BY <1>6 DEF TypeOK, SwitchTypeOK, CommandIsCurrent, Commanding, Stopping,
     WithCandidate, LedgerIsKept, Delay, Ends
<1>7. CASE Prepare
  BY <1>7, PrepareIs DEF TypeOK, SwitchTypeOK, CommandIsCurrent, Commanding,
     Stopping, WithCandidate, LedgerIsKept, TxKeeps, TxIs, Marks, KeepsDrain,
     MayPrepare, PlanToUse
<1>8. CASE StartBackend
  BY SMTT(60), <1>8, StartBackendIs DEF TypeOK, SwitchTypeOK, CommandIsCurrent,
     Commanding, Stopping, WithCandidate, LedgerIsKept, TxKeeps, TxIs, Marks,
     KeepsDrain
<1>9. CASE Submit
  BY <1>9, GoToIs DEF TypeOK, SwitchTypeOK, CommandIsCurrent, Commanding,
     Stopping, WithCandidate, LedgerIsKept, TxKeeps, TxIs, Marks, Submit,
     TxSteps
<1>10. CASE WaitCancelled
  BY <1>10 DEF WaitCancelled
<1>11. CASE Judge
  BY SMTT(60), <1>11, JudgeIs DEF TypeOK, SwitchTypeOK, CommandIsCurrent, Commanding,
     Stopping, WithCandidate, LedgerIsKept, TxKeeps, TxIs, Marks, Committed
<1>12. CASE Abort
  BY SMTT(60), <1>12, AbortIs DEF TypeOK, SwitchTypeOK, CommandIsCurrent, Commanding,
     Stopping, WithCandidate, LedgerIsKept, TxKeeps, TxIs, Marks, Releases,
     KeepsDrain, Busy
<1>13. CASE Take
  BY <1>13, AnsweredIs DEF TypeOK, SwitchTypeOK, CommandIsCurrent, Commanding,
     Stopping, WithCandidate, LedgerIsKept, TxKeeps, TxIs, Marks, Take
<1>14. CASE CommitCandidate
  BY <1>14 DEF TypeOK, SwitchTypeOK, CommandIsCurrent, Commanding,
     Stopping, WithCandidate, LedgerIsKept, CommitCandidate, Commit,
     CommitFails
<1>15. CASE Adopt
  BY <1>15 DEF TypeOK, SwitchTypeOK, CommandIsCurrent, Commanding,
     Stopping, WithCandidate, LedgerIsKept, Adopt, Answered
<1>16. CASE FinishFailed
  BY SMTT(60), <1>16, FinishFailedIs DEF TypeOK, SwitchTypeOK, CommandIsCurrent,
     Commanding, Stopping, WithCandidate, LedgerIsKept, TxKeeps, TxIs, Marks,
     KeepsDrain, Releases
<1>17. CASE Answer
  BY <1>17 DEF TypeOK, SwitchTypeOK, TxSteps, MonitorSteps,
     CommandIsCurrent, Commanding, Stopping, WithCandidate, LedgerIsKept,
     Answer, Answered
<1>18. CASE Leaves
  BY <1>18, AnsweredIs DEF TypeOK, SwitchTypeOK, CommandIsCurrent, Commanding,
     Stopping, WithCandidate, LedgerIsKept, TxKeeps, TxIs, Marks, Leaves
<1>19. ASSUME NEW p \in Plans, Change(p) PROVE PlanIsAgreed'
  BY <1>19 DEF TypeOK, SwitchTypeOK, CommandIsCurrent, Commanding,
     Stopping, WithCandidate, LedgerIsKept, Change
<1>20. CASE Gate
  BY <1>20 DEF TypeOK, SwitchTypeOK, CommandIsCurrent, Commanding,
     Stopping, WithCandidate, LedgerIsKept, Gate, Connect, ConnEnds,
     RetireBackend, CancelDirect, FinishDirect
<1> QED
  BY <1>1, <1>2, <1>3, <1>4, <1>5, <1>6, <1>7, <1>8, <1>9, <1>10, <1>11,
     <1>12, <1>13, <1>14, <1>15, <1>16, <1>17, <1>18, <1>19, <1>20 DEF Next,
     Asking, Transaction, Monitor, Worker, Environment

LEMMA ClaimStep ==
  ASSUME TypeOK, CommandIsCurrent, PublishersAreKnown, LedgerIsKept, ProcessesAreClaimed, [Next]_vars
  PROVE  ProcessesAreClaimed'
<1> USE DEF ProcessesAreClaimed, Busy, WithCandidate, ReleaseIsSafe
<1>1. CASE UNCHANGED <<proc, completion, claimed, published, retiring, worker, mon, tx, ledger, direct>>
  BY <1>1
<1>2. ASSUME UNCHANGED vars \/ RecoverRefused
     PROVE  UNCHANGED <<proc, completion, claimed, published, retiring, worker, mon, tx, ledger, direct>>
  BY <1>2 DEF RecoverRefused
<1>3. ASSUME TakeRecovery
     PROVE  UNCHANGED <<proc, completion, claimed, published, retiring, worker, mon, tx, ledger, direct>>
  BY <1>3 DEF TakeRecovery
<1>4. ASSUME PressRetry \/ StopReceiver
     PROVE  UNCHANGED <<proc, completion, claimed, published, retiring, worker, mon, tx, ledger, direct>>
  BY <1>4 DEF PressRetry, StopReceiver
<1>5. CASE Recover
  BY <1>5 DEF TypeOK, SwitchTypeOK, CommandIsCurrent, Commanding, Stopping,
     Handed, PublishersAreKnown, OnlyRuns, OnePublisher, LedgerIsKept,
     Recover, CoordinatorFree, MayRecover, RouteKnown, Room
<1>6. CASE Delay
  BY <1>6 DEF TypeOK, SwitchTypeOK, CommandIsCurrent, Commanding, Stopping,
     Handed, PublishersAreKnown, OnlyRuns, OnePublisher, LedgerIsKept, Delay,
     Ends
<1>7. CASE Prepare
  BY SMTT(60), <1>7, PrepareIs DEF TypeOK, SwitchTypeOK, CommandIsCurrent, Commanding,
     Stopping, Handed, PublishersAreKnown, OnlyRuns, OnePublisher,
     LedgerIsKept, TxKeeps, TxIs, Marks, KeepsDrain, MayPrepare, PlanToUse
<1>8. CASE StartBackend
  BY SMTT(60), <1>8, StartBackendIs DEF TypeOK, SwitchTypeOK, CommandIsCurrent,
     Commanding, Stopping, Handed, PublishersAreKnown, OnlyRuns, OnePublisher,
     LedgerIsKept, TxKeeps, TxIs, Marks, KeepsDrain
<1>9. CASE Submit
  BY <1>9 DEF TypeOK, SwitchTypeOK, CommandIsCurrent, Commanding, Stopping,
     Handed, PublishersAreKnown, OnlyRuns, OnePublisher, LedgerIsKept, Submit,
     Submittable
<1>10. CASE WaitCancelled
  BY <1>10 DEF WaitCancelled
<1>11. CASE Judge
  BY <1>11 DEF TypeOK, SwitchTypeOK, CommandIsCurrent, Commanding,
     Stopping, Handed, PublishersAreKnown, OnlyRuns, OnePublisher,
     LedgerIsKept, Judge, CoordinatorFree, Committed, Ends
<1>12. CASE Abort
  BY SMTT(60), <1>12, AbortIs DEF TypeOK, SwitchTypeOK, CommandIsCurrent, Commanding,
     Stopping, Handed, PublishersAreKnown, OnlyRuns, OnePublisher,
     LedgerIsKept, TxKeeps, TxIs, Marks, Releases, KeepsDrain
<1>13. CASE Take
  BY <1>13 DEF TypeOK, SwitchTypeOK, CommandIsCurrent, Commanding,
     Stopping, Handed, PublishersAreKnown, OnlyRuns, OnePublisher,
     LedgerIsKept, Take, Answered
<1>14. CASE StopOld
  BY SMTT(60), <1>14, StopOldIs DEF TypeOK, SwitchTypeOK, CommandIsCurrent, Commanding,
     Stopping, Handed, PublishersAreKnown, OnlyRuns, OnePublisher,
     LedgerIsKept, TxKeeps, TxIs, Marks, Outcome
<1>15. CASE Claim
  BY <1>15 DEF TypeOK, SwitchTypeOK, CommandIsCurrent, Commanding,
     Stopping, Handed, PublishersAreKnown, OnlyRuns, OnePublisher,
     LedgerIsKept, Claim, CanAbort, CandidateFree, CoordinatorFree,
     RouteKnown, FailsAfterStop
<1>16. CASE StartCandidate
  BY <1>16 DEF TypeOK, SwitchTypeOK, CommandIsCurrent, Commanding,
     Stopping, Handed, PublishersAreKnown, OnlyRuns, OnePublisher,
     LedgerIsKept, StartCandidate, FailsAfterStop
<1>17. CASE Prove
  BY <1>17 DEF Prove, Exited
<1>18. CASE Join
  BY <1>18 DEF TypeOK, SwitchTypeOK, CommandIsCurrent, Commanding,
     Stopping, Handed, PublishersAreKnown, OnlyRuns, OnePublisher,
     LedgerIsKept, Join
<1>19. CASE CommitCandidate
  BY <1>19 DEF TypeOK, SwitchTypeOK, CommandIsCurrent, Commanding,
     Stopping, Handed, PublishersAreKnown, OnlyRuns, OnePublisher,
     LedgerIsKept, CommitCandidate, CanAbort, CandidateFree, CoordinatorFree,
     Exited, OldExitConfirmed, Commit, Drained, CommitFails
<1>20. CASE Adopt
  BY <1>20 DEF TypeOK, SwitchTypeOK, CommandIsCurrent, Commanding,
     Stopping, Handed, PublishersAreKnown, OnlyRuns, OnePublisher,
     LedgerIsKept, Adopt, Answered
<1>21. CASE Cleanup
  BY <1>21, CleanupIs DEF TypeOK, SwitchTypeOK, CommandIsCurrent, Commanding,
     Stopping, Handed, PublishersAreKnown, OnlyRuns, OnePublisher,
     LedgerIsKept, TxKeeps, TxIs, Marks, Outcome
<1>22. CASE FinishFailed
  BY SMTT(60), <1>22, FinishFailedIs DEF TypeOK, SwitchTypeOK, CommandIsCurrent,
     Commanding, Stopping, Handed, PublishersAreKnown, OnlyRuns, OnePublisher,
     LedgerIsKept, TxKeeps, TxIs, Marks, KeepsDrain, Releases
<1>23. CASE Answer
  BY <1>23 DEF TypeOK, SwitchTypeOK, CommandIsCurrent, Commanding,
     Stopping, Handed, PublishersAreKnown, OnlyRuns, OnePublisher,
     LedgerIsKept, Answer, Answered
<1>24. CASE SeesExit
  BY <1>24 DEF SeesExit, Exited, Ended, HandleExit
<1>25. CASE SeesRetiringExit
  BY <1>25 DEF SeesRetiringExit, Exited, Ended
<1>26. CASE TakeRetry
  BY <1>26 DEF TakeRetry, HandleExit
<1>27. CASE Finish
  BY <1>27 DEF Finish
<1>28. CASE StopPublisher
  BY SMTT(60), <1>28, StopPublisherIs DEF TypeOK, SwitchTypeOK, CommandIsCurrent,
     Commanding, Stopping, Handed, PublishersAreKnown, OnlyRuns, OnePublisher,
     LedgerIsKept, TxKeeps, TxIs, Marks, Outcome
<1>29. CASE Seal
  BY SMTT(60), <1>29, SealIs DEF TypeOK, SwitchTypeOK, CommandIsCurrent, Commanding,
     Stopping, Handed, PublishersAreKnown, OnlyRuns, OnePublisher,
     LedgerIsKept, TxKeeps, TxIs, Marks, Outcome
<1>30. CASE StopsDirect
  BY <1>30 DEF StopsDirect
<1>31. CASE Leaves
  BY <1>31 DEF TypeOK, SwitchTypeOK, CommandIsCurrent, Commanding,
     Stopping, Handed, PublishersAreKnown, OnlyRuns, OnePublisher,
     LedgerIsKept, Leaves, Answered
<1>32. CASE Drain
  BY <1>32 DEF Drain, BeginDrain, RouteKnown
<1>33. CASE Validated
  BY <1>33 DEF Validated, HoldDrain, Drained
<1>34. CASE Rejected
  BY <1>34 DEF Rejected, AbortDrain
<1>35. ASSUME NEW p \in Plans, Change(p) PROVE ProcessesAreClaimed'
  BY <1>35 DEF TypeOK, SwitchTypeOK, CommandIsCurrent, Commanding,
     Stopping, Handed, PublishersAreKnown, OnlyRuns, OnePublisher,
     LedgerIsKept, Change, CoordinatorFree, RouteKnown, Room
<1>36. CASE PublisherDies
  BY <1>36 DEF PublisherDies, On
<1>37. CASE Gate
  BY <1>37 DEF Gate, On, Connect, ConnEnds, RetireBackend, CancelDirect,
     FinishDirect
<1> QED
  BY <1>1, <1>2, <1>3, <1>4, <1>5, <1>6, <1>7, <1>8, <1>9, <1>10, <1>11,
     <1>12, <1>13, <1>14, <1>15, <1>16, <1>17, <1>18, <1>19, <1>20, <1>21,
     <1>22, <1>23, <1>24, <1>25, <1>26, <1>27, <1>28, <1>29, <1>30, <1>31,
     <1>32, <1>33, <1>34, <1>35, <1>36, <1>37 DEF Next, Asking, Transaction,
     Monitor, Worker, Environment

LEMMA SwitchTypeStep ==
  ASSUME TypeOK, CommandIsCurrent, [Next]_vars
  PROVE  SwitchTypeOK'
<1> USE DEF SwitchTypeOK
<1>1. CASE UNCHANGED <<direct, active, planOf, ledger, pending, held, draining, conn, backend>>
  BY <1>1 DEF TypeOK, TxSteps, MonitorSteps
<1>2. ASSUME UNCHANGED vars \/ Recover \/ RecoverRefused \/ Delay \/ Submit \/
            WaitCancelled \/ Judge
     PROVE  UNCHANGED <<direct, active, planOf, ledger, pending, held, draining, conn, backend>>
  BY <1>2 DEF Recover, RecoverRefused, Delay, Ends, Submit, WaitCancelled,
     Judge
<1>3. ASSUME Take \/ StopOld \/ Claim \/ StartCandidate \/ Prove \/ Join \/
            Adopt \/ Cleanup \/ Answer \/ SeesExit \/ SeesRetiringExit \/
            TakeRetry \/ TakeRecovery \/ Finish \/ StopPublisher \/ Seal \/
            Leaves
     PROVE  UNCHANGED <<direct, active, planOf, ledger, pending, held, draining, conn, backend>>
  BY <1>3 DEF Take, Answered, StopOld, Ended, Claim, FailsAfterStop,
     StartCandidate, Prove, Join, Adopt, Cleanup, Answer, SeesExit,
     HandleExit, SeesRetiringExit, TakeRetry, TakeRecovery, Finish,
     StopPublisher, Unconfirmed, Seal, Leaves
<1>4. ASSUME (\E p \in Plans : Change(p)) \/ PressRetry \/ StopReceiver \/
            PublisherDies
     PROVE  UNCHANGED <<direct, active, planOf, ledger, pending, held, draining, conn, backend>>
  BY <1>4 DEF Change, PressRetry, StopReceiver, PublisherDies
<1>5. CASE Prepare
  <2>1. PlanToUse \in Plans \cup {NoPlan}
    BY DEF PlanToUse, TypeOK, SwitchTypeOK
  <2>2. ASSUME NEW g \in Generations, Reserve(g, PlanToUse) \/ ReserveFails(g)
        PROVE  SwitchTypeOK'
    BY <2>1, <2>2, SwitchOperations DEF TypeOK
  <2>3. CASE UNCHANGED switch
    BY <2>3 DEF TypeOK, SwitchTypeOK
  <2> QED
    BY <1>5, <2>2, <2>3 DEF Prepare
<1>6. CASE StartBackend
  <2>1. tx.gen \in Generations
    BY <1>6 DEF StartBackend, CommandIsCurrent, Handed
  <2>2. BackendStarts(tx.gen) \/ Abandon(tx.gen) \/ BackendLost(tx.gen)
    BY <1>6 DEF StartBackend
  <2>3. FirstPlan \in Plans \cup {NoPlan}
    OBVIOUS
  <2> QED
    BY <2>1, <2>2, <2>3, SwitchOperations DEF TypeOK
<1>7. CASE Abort
  <2>1. tx.gen \in Generations
    BY <1>7 DEF Abort, CommandIsCurrent, Handed
  <2> QED
    BY <1>7, <2>1, AbortTypes DEF Abort, TypeOK
<1>8. CASE CommitCandidate
  <2>1. tx.gen \in Generations
    BY <1>8 DEF CommitCandidate, CommandIsCurrent, Commanding, WithCandidate
  <2>2. CASE UNCHANGED switch
    BY <2>2 DEF TypeOK, SwitchTypeOK
  <2>3. FirstPlan \in Plans \cup {NoPlan}
    OBVIOUS
  <2>4. Commit(tx.gen) \/ CommitFails(tx.gen) \/ UNCHANGED switch
    BY <1>8 DEF CommitCandidate
  <2> QED
    BY <2>1, <2>2, <2>3, <2>4, SwitchOperations DEF TypeOK
<1>9. CASE FinishFailed
  <2>1. tx.gen \in Generations
    BY <1>9 DEF FinishFailed, CommandIsCurrent, Commanding
  <2>2. CASE UNCHANGED switch
    BY <2>2 DEF TypeOK, SwitchTypeOK
  <2> QED
    BY <1>9, <2>1, <2>2, AbortTypes DEF FinishFailed, TypeOK
<1>10. CASE StopsDirect
  BY <1>10 DEF TypeOK, CommandIsCurrent, Commanding, Stopping,
     WithCandidate, Handed, StopsDirect
<1>11. CASE Drain
  BY <1>11 DEF TypeOK, CommandIsCurrent, Commanding, Stopping,
     WithCandidate, Handed, Drain, BeginDrain
<1>12. CASE Validated
  BY <1>12 DEF TypeOK, CommandIsCurrent, Commanding, Stopping,
     WithCandidate, Handed, Validated, HoldDrain
<1>13. CASE Rejected
  BY ZenonT(60), <1>13 DEF TypeOK, CommandIsCurrent, Commanding, Stopping,
     WithCandidate, Handed, Rejected, AbortDrain
<1>14. CASE Gate
  <2>1. FirstPlan \in Plans \cup {NoPlan} /\ 1 \in Generations
    OBVIOUS
  <2>2. \E g \in Generations : Connect \/ ConnEnds(g) \/ RetireBackend(g)
                                \/ CancelDirect \/ FinishDirect
    BY <1>14, <2>1 DEF Gate
  <2> QED
    BY <2>1, <2>2, SwitchOperations DEF TypeOK
<1> QED
  BY <1>1, <1>2, <1>3, <1>4, <1>5, <1>6, <1>7, <1>8, <1>9, <1>10, <1>11,
     <1>12, <1>13, <1>14 DEF Next, Asking, Transaction, Monitor, Worker,
     Environment

LEMMA TxTypeStep ==
  ASSUME TypeOK, CommandIsCurrent, [Next]_vars
  PROVE  TxType'
<1> USE DEF TxType, TxSteps
<1>1. CASE UNCHANGED <<tx>>
  BY <1>1 DEF TypeOK
<1>2. ASSUME UNCHANGED vars \/ RecoverRefused
     PROVE  UNCHANGED <<tx>>
  BY <1>2 DEF RecoverRefused
<1>3. ASSUME StopOld \/ Claim \/ StartCandidate \/ Prove \/ Join \/
            CommitCandidate \/ Cleanup \/ FinishFailed \/ SeesExit \/
            SeesRetiringExit \/ TakeRetry \/ TakeRecovery \/ Finish \/
            StopPublisher \/ Seal \/ StopsDirect
     PROVE  UNCHANGED <<tx>>
  BY <1>3 DEF StopOld, Ended, Claim, FailsAfterStop, StartCandidate, Prove,
     Join, CommitCandidate, Commit, CommitFails, Cleanup, FinishFailed,
     AbortSucceeds, Abandon, AbortFails, AbandonFails, SeesExit, HandleExit,
     SeesRetiringExit, TakeRetry, TakeRecovery, Finish, StopPublisher,
     Unconfirmed, Seal, StopsDirect
<1>4. ASSUME Drain \/ Validated \/ Rejected \/ PressRetry \/ StopReceiver \/
            PublisherDies \/ Gate
     PROVE  UNCHANGED <<tx>>
  BY <1>4 DEF Drain, BeginDrain, Validated, HoldDrain, Rejected,
     AbortDrain, PressRetry, StopReceiver, PublisherDies, Gate, Connect,
     ConnEnds, RetireBackend, CancelDirect, FinishDirect
<1>5. CASE Recover
  BY <1>5 DEF TypeOK, SwitchTypeOK, MonitorSteps, CommandIsCurrent,
     Commanding, Stopping, WithCandidate, Handed, Recover, CoordinatorFree,
     MayRecover, RouteKnown, Room
<1>6. CASE Delay
  BY ZenonT(60), <1>6 DEF TypeOK, SwitchTypeOK, MonitorSteps, CommandIsCurrent,
     Commanding, Stopping, WithCandidate, Handed, Delay, Ends
<1>7. CASE Prepare
  <2>1. ASSUME NEW g \in Generations, tx' = [tx EXCEPT !.at = "backend", !.gen = g]
        PROVE  TxType'
    <3>1. g \in 0..MaxGeneration /\ "backend" \in TxSteps
      BY DEF TxSteps
    <3> QED
      BY <2>1, <3>1 DEF TypeOK, TxType
  <2>2. CASE tx' = [tx EXCEPT !.at = "idle"]
    BY <2>2 DEF TypeOK, TxType, TxSteps
  <2> QED
    BY <1>7, <2>1, <2>2 DEF Prepare, Ends
<1>8. CASE StartBackend
  BY ZenonT(60), <1>8 DEF TypeOK, SwitchTypeOK, MonitorSteps, CommandIsCurrent,
     Commanding, Stopping, WithCandidate, Handed, StartBackend,
     CoordinatorFree, BackendStarts, RouteKnown, Abandon, Stopped,
     Ends, BackendLost
<1>9. CASE Submit
  BY ZenonT(60), <1>9 DEF TypeOK, SwitchTypeOK, MonitorSteps, CommandIsCurrent,
     Commanding, Stopping, WithCandidate, Handed, Submit, Submittable
<1>10. CASE WaitCancelled
  BY <1>10 DEF TypeOK, SwitchTypeOK, MonitorSteps, CommandIsCurrent,
     Commanding, Stopping, WithCandidate, Handed, WaitCancelled
<1>11. CASE Judge
  BY ZenonT(60), <1>11 DEF TypeOK, SwitchTypeOK, MonitorSteps, CommandIsCurrent,
     Commanding, Stopping, WithCandidate, Handed, Judge, CoordinatorFree,
     Committed, Ends
<1>12. CASE Abort
  <2>1. CASE tx' = [tx EXCEPT !.at = "prepare", !.kind = "restore"]
    BY <2>1 DEF TypeOK, TxType, TxSteps
  <2>2. CASE tx' = [tx EXCEPT !.at = "idle"]
    BY <2>2 DEF TypeOK, TxType, TxSteps
  <2> QED
    BY <1>12, <2>1, <2>2 DEF Abort, Ends
<1>13. CASE Take
  BY <1>13 DEF TypeOK, SwitchTypeOK, MonitorSteps, CommandIsCurrent,
     Commanding, Stopping, WithCandidate, Handed, Take, Answered
<1>14. CASE Adopt
  BY ZenonT(60), <1>14 DEF TypeOK, SwitchTypeOK, MonitorSteps, CommandIsCurrent,
     Commanding, Stopping, WithCandidate, Handed, Adopt, Answered
<1>15. CASE Answer
  BY ZenonT(60), <1>15 DEF TypeOK, SwitchTypeOK, MonitorSteps, CommandIsCurrent,
     Commanding, Stopping, WithCandidate, Handed, Answer, Answered
<1>16. CASE Leaves
  BY ZenonT(60), <1>16 DEF TypeOK, SwitchTypeOK, MonitorSteps, CommandIsCurrent,
     Commanding, Stopping, WithCandidate, Handed, Leaves, Answered
<1>17. ASSUME NEW p \in Plans, Change(p) PROVE TxType'
  BY <1>17 DEF TypeOK, SwitchTypeOK, MonitorSteps, CommandIsCurrent,
     Commanding, Stopping, WithCandidate, Handed, Change, CoordinatorFree,
     RouteKnown, Room
<1> QED
  BY <1>1, <1>2, <1>3, <1>4, <1>5, <1>6, <1>7, <1>8, <1>9, <1>10, <1>11,
     <1>12, <1>13, <1>14, <1>15, <1>16, <1>17 DEF Next, Asking, Transaction,
     Monitor, Worker, Environment

LEMMA AnswerTypeStep ==
  ASSUME TypeOK, CommandIsCurrent, [Next]_vars
  PROVE  AnswerTypes'
<1> USE DEF AnswerTypes
<1>1. CASE UNCHANGED <<claimed, validated, dropped, attempted, answer>>
  BY <1>1 DEF TypeOK
<1>2. ASSUME UNCHANGED vars \/ RecoverRefused \/ Submit \/ WaitCancelled
     PROVE  UNCHANGED <<claimed, validated, dropped, attempted, answer>>
  BY <1>2 DEF RecoverRefused, Submit, WaitCancelled
<1>3. ASSUME Take \/ StopOld \/ StartCandidate \/ Prove \/ Join \/ Adopt \/
            Cleanup \/ Answer \/ SeesExit \/ SeesRetiringExit \/ TakeRetry \/
            TakeRecovery \/ Finish \/ StopPublisher \/ Seal \/ StopsDirect \/
            Leaves
     PROVE  UNCHANGED <<claimed, validated, dropped, attempted, answer>>
  BY <1>3 DEF Take, Answered, StopOld, Ended, StartCandidate,
     FailsAfterStop, Prove, Join, Adopt, Cleanup, Answer, SeesExit,
     HandleExit, SeesRetiringExit, TakeRetry, TakeRecovery, Finish,
     StopPublisher, Unconfirmed, Seal, StopsDirect, Leaves
<1>4. ASSUME Drain \/ Rejected \/ PressRetry \/ StopReceiver \/ PublisherDies
            \/ Gate
     PROVE  UNCHANGED <<claimed, validated, dropped, attempted, answer>>
  BY <1>4 DEF Drain, BeginDrain, Rejected, AbortDrain, PressRetry,
     StopReceiver, PublisherDies, Gate, Connect, ConnEnds, RetireBackend,
     CancelDirect, FinishDirect
<1>5. CASE Recover
  BY <1>5 DEF TypeOK, SwitchTypeOK, CommandIsCurrent, Commanding, Stopping,
     WithCandidate, Handed, Recover
<1>6. CASE Delay
  BY <1>6 DEF TypeOK, SwitchTypeOK, CommandIsCurrent, Commanding, Stopping,
     WithCandidate, Handed, Delay, Ends
<1>7. CASE Prepare
  BY <1>7 DEF TypeOK, SwitchTypeOK, CommandIsCurrent, Commanding, Stopping,
     WithCandidate, Handed, Prepare, Reserve, ReserveFails, Ends
<1>8. CASE StartBackend
  BY <1>8 DEF TypeOK, SwitchTypeOK, CommandIsCurrent, Commanding, Stopping,
     WithCandidate, Handed, StartBackend, BackendStarts, Abandon, Ends,
     BackendLost
<1>9. CASE Judge
  BY <1>9 DEF TypeOK, SwitchTypeOK, CommandIsCurrent, Commanding, Stopping,
     WithCandidate, Handed, Judge, Ends
<1>10. CASE Abort
  BY <1>10 DEF TypeOK, SwitchTypeOK, CommandIsCurrent, Commanding,
     Stopping, WithCandidate, Handed, Abort, AbortSucceeds, Abandon, Ends,
     AbortFails, AbandonFails
<1>11. CASE Claim
  BY <1>11 DEF TypeOK, SwitchTypeOK, CommandIsCurrent, Commanding,
     Stopping, WithCandidate, Handed, Claim, FailsAfterStop
<1>12. CASE CommitCandidate
  BY <1>12 DEF TypeOK, SwitchTypeOK, CommandIsCurrent, Commanding,
     Stopping, WithCandidate, Handed, CommitCandidate, Commit, CommitFails
<1>13. CASE FinishFailed
  <2>1. tx.gen \in Generations /\ UNCHANGED <<attempted, answer>>
    BY <1>13 DEF FinishFailed, CommandIsCurrent, Commanding
  <2>2. CASE UNCHANGED candidateVars
    BY <2>1, <2>2 DEF TypeOK, AnswerTypes
  <2>3. CASE AbortSucceeds(tx.gen) \/ AbortFails(tx.gen)
    BY <2>1, <2>3 DEF TypeOK, AnswerTypes, AbortSucceeds, AbortFails
  <2> QED
    BY <1>13, <2>2, <2>3 DEF FinishFailed
<1>14. CASE Validated
  BY <1>14 DEF TypeOK, SwitchTypeOK, CommandIsCurrent, Commanding,
     Stopping, WithCandidate, Handed, Validated, HoldDrain
<1>15. ASSUME NEW p \in Plans, Change(p) PROVE AnswerTypes'
  BY <1>15 DEF TypeOK, SwitchTypeOK, CommandIsCurrent, Commanding,
     Stopping, WithCandidate, Handed, Change
<1> QED
  BY <1>1, <1>2, <1>3, <1>4, <1>5, <1>6, <1>7, <1>8, <1>9, <1>10, <1>11,
     <1>12, <1>13, <1>14, <1>15 DEF Next, Asking, Transaction, Monitor,
     Worker, Environment

LEMMA MonitorTypeStep ==
  ASSUME TypeOK, CommandIsCurrent, [Next]_vars
  PROVE  MonitorTypes'
<1> USE DEF MonitorTypes, MonitorSteps
<1>1. CASE UNCHANGED <<command, mon, published, retiring, lastExit, faults>>
  BY <1>1 DEF TypeOK
<1>2. ASSUME UNCHANGED vars \/ Recover \/ RecoverRefused \/ Delay \/ Prepare \/
            StartBackend \/ WaitCancelled \/ Judge \/ Abort
     PROVE  UNCHANGED <<command, mon, published, retiring, lastExit, faults>>
  BY <1>2 DEF Recover, RecoverRefused, Delay, Ends, Prepare, Reserve,
     ReserveFails, StartBackend, BackendStarts, Abandon, BackendLost,
     WaitCancelled, Judge, Abort, AbortSucceeds, AbortFails, AbandonFails
<1>3. ASSUME TakeRecovery
     PROVE  UNCHANGED <<command, mon, published, retiring, lastExit, faults>>
  BY <1>3 DEF TakeRecovery
<1>4. ASSUME Drain \/ Validated \/ Rejected \/ (\E p \in Plans : Change(p)) \/
            PressRetry \/ StopReceiver \/ Gate
     PROVE  UNCHANGED <<command, mon, published, retiring, lastExit, faults>>
  BY <1>4 DEF Drain, BeginDrain, Validated, HoldDrain, Rejected,
     AbortDrain, Change, PressRetry, StopReceiver, Gate, Connect, ConnEnds,
     RetireBackend, CancelDirect, FinishDirect
<1>5. CASE Submit
  BY <1>5 DEF TypeOK, SwitchTypeOK, CommandIsCurrent, Commanding, Stopping,
     WithCandidate, Handed, Submit
<1>6. CASE Take
  BY <1>6 DEF TypeOK, SwitchTypeOK, TxSteps, CommandIsCurrent, Commanding,
     Stopping, WithCandidate, Handed, Take, Answered
<1>7. CASE StopOld
  BY <1>7 DEF TypeOK, SwitchTypeOK, TxSteps, CommandIsCurrent, Commanding,
     Stopping, WithCandidate, Handed, StopOld, Ended, Exited
<1>8. CASE Claim
  BY <1>8 DEF TypeOK, SwitchTypeOK, TxSteps, CommandIsCurrent, Commanding,
     Stopping, WithCandidate, Handed, Claim, CanAbort, CandidateFree,
     CoordinatorFree, RouteKnown, FailsAfterStop
<1>9. CASE StartCandidate
  BY <1>9 DEF TypeOK, SwitchTypeOK, TxSteps, CommandIsCurrent, Commanding,
     Stopping, WithCandidate, Handed, StartCandidate, FailsAfterStop
<1>10. CASE Prove
  BY <1>10 DEF TypeOK, SwitchTypeOK, TxSteps, CommandIsCurrent, Commanding,
     Stopping, WithCandidate, Handed, Prove, Exited
<1>11. CASE Join
  BY <1>11 DEF TypeOK, SwitchTypeOK, TxSteps, CommandIsCurrent, Commanding,
     Stopping, WithCandidate, Handed, Join, Busy
<1>12. CASE CommitCandidate
  BY <1>12 DEF TypeOK, SwitchTypeOK, TxSteps, CommandIsCurrent, Commanding,
     Stopping, WithCandidate, Handed, CommitCandidate, CanAbort,
     CandidateFree, CoordinatorFree, Exited, OldExitConfirmed, Commit,
     Drained, CommitFails
<1>13. CASE Adopt
  BY <1>13 DEF TypeOK, SwitchTypeOK, TxSteps, CommandIsCurrent, Commanding,
     Stopping, WithCandidate, Handed, Adopt, Answered
<1>14. CASE Cleanup
  BY <1>14 DEF TypeOK, SwitchTypeOK, TxSteps, CommandIsCurrent, Commanding,
     Stopping, WithCandidate, Handed, Cleanup, Ended, Exited, FailsAfterStop
<1>15. CASE FinishFailed
  BY <1>15 DEF TypeOK, SwitchTypeOK, TxSteps, CommandIsCurrent, Commanding,
     Stopping, WithCandidate, Handed, FinishFailed, CanAbort, CandidateFree,
     CoordinatorFree, AbortSucceeds, MayRelease, Abandon, Stopped,
     AbortFails, AbandonFails
<1>16. CASE Answer
  BY <1>16 DEF TypeOK, SwitchTypeOK, TxSteps, CommandIsCurrent, Commanding,
     Stopping, WithCandidate, Handed, Answer, Answered
<1>17. CASE SeesExit
  BY <1>17 DEF TypeOK, SwitchTypeOK, TxSteps, CommandIsCurrent, Commanding,
     Stopping, WithCandidate, Handed, SeesExit, Exited, Ended, HandleExit
<1>18. CASE SeesRetiringExit
  BY <1>18 DEF TypeOK, SwitchTypeOK, CommandIsCurrent, Commanding,
     Stopping, WithCandidate, Handed, SeesRetiringExit, Ended
<1>19. CASE TakeRetry
  BY <1>19 DEF TypeOK, SwitchTypeOK, TxSteps, CommandIsCurrent, Commanding,
     Stopping, WithCandidate, Handed, TakeRetry, HandleExit
<1>20. CASE Finish
  BY <1>20 DEF TypeOK, SwitchTypeOK, TxSteps, CommandIsCurrent, Commanding,
     Stopping, WithCandidate, Handed, Finish
<1>21. CASE StopPublisher
  BY <1>21 DEF TypeOK, SwitchTypeOK, TxSteps, CommandIsCurrent, Commanding,
     Stopping, WithCandidate, Handed, StopPublisher, Ended, Exited,
     Unconfirmed
<1>22. CASE Seal
  BY <1>22 DEF TypeOK, SwitchTypeOK, TxSteps, CommandIsCurrent, Commanding,
     Stopping, WithCandidate, Handed, Seal, Ended, Exited, Unconfirmed
<1>23. CASE StopsDirect
  BY <1>23 DEF TypeOK, SwitchTypeOK, TxSteps, CommandIsCurrent, Commanding,
     Stopping, WithCandidate, Handed, StopsDirect
<1>24. CASE Leaves
  BY <1>24 DEF TypeOK, SwitchTypeOK, TxSteps, CommandIsCurrent, Commanding,
     Stopping, WithCandidate, Handed, Leaves, Answered
<1>25. CASE PublisherDies
  BY <1>25 DEF TypeOK, SwitchTypeOK, CommandIsCurrent, Commanding,
     Stopping, WithCandidate, Handed, PublisherDies
<1> QED
  BY <1>1, <1>2, <1>3, <1>4, <1>5, <1>6, <1>7, <1>8, <1>9, <1>10, <1>11,
     <1>12, <1>13, <1>14, <1>15, <1>16, <1>17, <1>18, <1>19, <1>20, <1>21,
     <1>22, <1>23, <1>24, <1>25 DEF Next, Asking, Transaction, Monitor,
     Worker, Environment

LEMMA RecTypeStep ==
  ASSUME TypeOK, CommandIsCurrent, [Next]_vars
  PROVE  RecType'
<1> USE DEF RecType
<1>1. CASE UNCHANGED <<rec>>
  BY <1>1 DEF TypeOK
<1>2. ASSUME UNCHANGED vars \/ Submit \/ WaitCancelled
     PROVE  UNCHANGED <<rec>>
  BY <1>2 DEF Submit, WaitCancelled
<1>3. ASSUME Take \/ StopOld \/ Claim \/ StartCandidate \/ Prove \/ Join \/
            CommitCandidate \/ Adopt \/ Cleanup \/ FinishFailed \/ Answer \/
            SeesRetiringExit \/ Finish \/ StopPublisher \/ Seal \/ StopsDirect
            \/ Leaves
     PROVE  UNCHANGED <<rec>>
  BY <1>3 DEF Take, Answered, StopOld, Ended, Claim, FailsAfterStop,
     StartCandidate, Prove, Join, CommitCandidate, Commit, CommitFails, Adopt,
     Cleanup, FinishFailed, AbortSucceeds, Abandon, AbortFails, AbandonFails,
     Answer, SeesRetiringExit, Finish, StopPublisher, Unconfirmed, Seal,
     StopsDirect, Leaves
<1>4. ASSUME Drain \/ Validated \/ Rejected \/ (\E p \in Plans : Change(p)) \/
            PressRetry \/ StopReceiver \/ PublisherDies \/ Gate
     PROVE  UNCHANGED <<rec>>
  BY <1>4 DEF Drain, BeginDrain, Validated, HoldDrain, Rejected,
     AbortDrain, Change, PressRetry, StopReceiver, PublisherDies, Gate,
     Connect, ConnEnds, RetireBackend, CancelDirect, FinishDirect
<1>5. CASE Recover
  BY <1>5 DEF TypeOK, SwitchTypeOK, CommandIsCurrent, Commanding, Stopping,
     WithCandidate, Handed, Recover
<1>6. CASE RecoverRefused
  BY <1>6 DEF TypeOK, SwitchTypeOK, CommandIsCurrent, Commanding, Stopping,
     WithCandidate, Handed, RecoverRefused
<1>7. CASE Delay
  BY <1>7 DEF TypeOK, SwitchTypeOK, CommandIsCurrent, Commanding, Stopping,
     WithCandidate, Handed, Delay, Ends
<1>8. CASE Prepare
  BY ZenonT(60), <1>8 DEF TypeOK, SwitchTypeOK, CommandIsCurrent, Commanding, Stopping,
     WithCandidate, Handed, Prepare, Reserve, ReserveFails, Ends
<1>9. CASE StartBackend
  BY <1>9 DEF TypeOK, SwitchTypeOK, CommandIsCurrent, Commanding, Stopping,
     WithCandidate, Handed, StartBackend, BackendStarts, Abandon, Ends,
     BackendLost
<1>10. CASE Judge
  BY <1>10 DEF TypeOK, SwitchTypeOK, CommandIsCurrent, Commanding,
     Stopping, WithCandidate, Handed, Judge, Ends
<1>11. CASE Abort
  BY <1>11 DEF TypeOK, SwitchTypeOK, CommandIsCurrent, Commanding,
     Stopping, WithCandidate, Handed, Abort, AbortSucceeds, Abandon, Ends,
     AbortFails, AbandonFails
<1>12. CASE SeesExit
  BY <1>12 DEF TypeOK, SwitchTypeOK, CommandIsCurrent, Commanding,
     Stopping, WithCandidate, Handed, SeesExit, Ended, HandleExit
<1>13. CASE TakeRetry
  BY <1>13 DEF TypeOK, SwitchTypeOK, CommandIsCurrent, Commanding,
     Stopping, WithCandidate, Handed, TakeRetry, HandleExit
<1>14. CASE TakeRecovery
  BY <1>14 DEF TakeRecovery
<1> QED
  BY <1>1, <1>2, <1>3, <1>4, <1>5, <1>6, <1>7, <1>8, <1>9, <1>10, <1>11,
     <1>12, <1>13, <1>14 DEF Next, Asking, Transaction, Monitor, Worker,
     Environment

LEMMA WorkerTypeStep ==
  ASSUME TypeOK, CommandIsCurrent, [Next]_vars
  PROVE  WorkerType'
<1> USE DEF WorkerType
<1>1. CASE UNCHANGED <<worker>>
  BY <1>1 DEF TypeOK
<1>2. ASSUME UNCHANGED vars \/ Recover \/ RecoverRefused \/ Delay \/ Prepare \/
            StartBackend \/ Submit \/ WaitCancelled \/ Judge \/ Abort
     PROVE  UNCHANGED <<worker>>
  BY <1>2 DEF Recover, RecoverRefused, Delay, Ends, Prepare, Reserve,
     ReserveFails, StartBackend, BackendStarts, Abandon, BackendLost, Submit,
     WaitCancelled, Judge, Abort, AbortSucceeds, AbortFails, AbandonFails
<1>3. ASSUME Take \/ StopOld \/ Claim \/ StartCandidate \/ CommitCandidate \/
            Adopt \/ Cleanup \/ FinishFailed \/ Answer \/ SeesExit \/
            SeesRetiringExit \/ TakeRetry \/ TakeRecovery \/ Finish \/
            StopPublisher \/ Seal \/ StopsDirect \/ Leaves
     PROVE  UNCHANGED <<worker>>
  BY <1>3 DEF Take, Answered, StopOld, Ended, Claim, FailsAfterStop,
     StartCandidate, CommitCandidate, Commit, CommitFails, Adopt, Cleanup,
     FinishFailed, AbortSucceeds, Abandon, AbortFails, AbandonFails, Answer,
     SeesExit, HandleExit, SeesRetiringExit, TakeRetry, TakeRecovery, Finish,
     StopPublisher, Unconfirmed, Seal, StopsDirect, Leaves
<1>4. ASSUME (\E p \in Plans : Change(p)) \/ PressRetry \/ StopReceiver \/
            PublisherDies \/ Gate
     PROVE  UNCHANGED <<worker>>
  BY <1>4 DEF Change, PressRetry, StopReceiver, PublisherDies, Gate,
     Connect, ConnEnds, RetireBackend, CancelDirect, FinishDirect
<1>5. CASE Prove
  <2>1. tx.gen \in Generations
    BY <1>5 DEF Prove, CommandIsCurrent, Commanding, WithCandidate
  <2>2. [at |-> "probing", of |-> tx.gen, joined |-> TRUE]
          \in [at : {"none", "probing", "draining", "ok", "err"}, of : Generations,
               joined : BOOLEAN]
    BY <2>1
  <2> QED
    BY <1>5, <2>2 DEF Prove, TypeOK, WorkerType
<1>6. CASE Join
  BY ZenonT(60), <1>6 DEF TypeOK, SwitchTypeOK, CommandIsCurrent, Commanding, Stopping,
     WithCandidate, Handed, Join
<1>7. CASE Drain
  BY <1>7 DEF TypeOK, SwitchTypeOK, CommandIsCurrent, Commanding, Stopping,
     WithCandidate, Handed, Drain, BeginDrain
<1>8. CASE Validated
  BY <1>8 DEF TypeOK, SwitchTypeOK, CommandIsCurrent, Commanding, Stopping,
     WithCandidate, Handed, Validated, HoldDrain
<1>9. CASE Rejected
  BY <1>9 DEF TypeOK, SwitchTypeOK, CommandIsCurrent, Commanding, Stopping,
     WithCandidate, Handed, Rejected, AbortDrain
<1> QED
  BY <1>1, <1>2, <1>3, <1>4, <1>5, <1>6, <1>7, <1>8, <1>9 DEF Next, Asking,
     Transaction, Monitor, Worker, Environment

LEMMA ProcessTypeStep ==
  ASSUME TypeOK, CommandIsCurrent, [Next]_vars
  PROVE  ProcessTypes'
<1> USE DEF ProcessTypes
<1>1. CASE UNCHANGED <<proc, completion>>
  BY <1>1 DEF TypeOK
<1>2. ASSUME UNCHANGED vars \/ Recover \/ RecoverRefused \/ Delay \/ Prepare \/
            StartBackend \/ Submit \/ WaitCancelled \/ Judge \/ Abort
     PROVE  UNCHANGED <<proc, completion>>
  BY <1>2 DEF Recover, RecoverRefused, Delay, Ends, Prepare, Reserve,
     ReserveFails, StartBackend, BackendStarts, Abandon, BackendLost, Submit,
     WaitCancelled, Judge, Abort, AbortSucceeds, AbortFails, AbandonFails
<1>3. ASSUME Take \/ Claim \/ Prove \/ Join \/ CommitCandidate \/ Adopt \/
            FinishFailed \/ Answer \/ TakeRetry \/ TakeRecovery \/ Finish \/
            StopsDirect \/ Leaves
     PROVE  UNCHANGED <<proc, completion>>
  BY <1>3 DEF Take, Answered, Claim, FailsAfterStop, Prove, Join,
     CommitCandidate, Commit, CommitFails, Adopt, FinishFailed, AbortSucceeds,
     Abandon, AbortFails, AbandonFails, Answer, TakeRetry, HandleExit,
     TakeRecovery, Finish, StopsDirect, Leaves
<1>4. ASSUME Drain \/ Validated \/ Rejected \/ (\E p \in Plans : Change(p)) \/
            PressRetry \/ StopReceiver \/ Gate
     PROVE  UNCHANGED <<proc, completion>>
  BY <1>4 DEF Drain, BeginDrain, Validated, HoldDrain, Rejected,
     AbortDrain, Change, PressRetry, StopReceiver, Gate, Connect, ConnEnds,
     RetireBackend, CancelDirect, FinishDirect
<1>5. CASE StopOld
  <2>1. ASSUME NEW g \in Generations,
               (\E k \in {"clean", "crash"} : Ended(g, k)) \/ Unconfirmed(g)
        PROVE  ProcessTypes'
    BY <2>1, OutcomeTypes
  <2>2. CASE UNCHANGED processVars
    BY <2>2 DEF TypeOK, ProcessTypes
  <2>3. published \in Generations
    BY <1>5 DEF TypeOK
  <2> QED
    BY <1>5, <2>1, <2>2, <2>3 DEF StopOld
<1>6. CASE StartCandidate
  BY <1>6 DEF TypeOK, SwitchTypeOK, CommandIsCurrent, Commanding, Stopping,
     WithCandidate, Handed, StartCandidate, FailsAfterStop
<1>7. CASE Cleanup
  <2>1. ASSUME NEW g \in Generations,
               (\E k \in {"clean", "crash"} : Ended(g, k)) \/ Unconfirmed(g)
        PROVE  ProcessTypes'
    BY <2>1, OutcomeTypes
  <2>2. CASE UNCHANGED processVars
    BY <2>2 DEF TypeOK, ProcessTypes
  <2>3. tx.gen \in Generations
    BY <1>7 DEF Cleanup, CommandIsCurrent, Commanding, WithCandidate
  <2> QED
    BY <1>7, <2>1, <2>2, <2>3 DEF Cleanup
<1>8. CASE SeesExit
  BY <1>8 DEF TypeOK, SwitchTypeOK, CommandIsCurrent, Commanding, Stopping,
     WithCandidate, Handed, SeesExit, Ended, HandleExit
<1>9. CASE SeesRetiringExit
  BY <1>9 DEF TypeOK, SwitchTypeOK, CommandIsCurrent, Commanding, Stopping,
     WithCandidate, Handed, SeesRetiringExit, Ended
<1>10. CASE StopPublisher
  <2>1. ASSUME NEW g \in Generations,
               (\E k \in {"clean", "crash"} : Ended(g, k)) \/ Unconfirmed(g)
        PROVE  ProcessTypes'
    BY <2>1, OutcomeTypes
  <2>2. CASE UNCHANGED processVars
    BY <2>2 DEF TypeOK, ProcessTypes
  <2>3. published \in Generations
    BY <1>10 DEF TypeOK
  <2> QED
    BY <1>10, <2>1, <2>2, <2>3 DEF StopPublisher
<1>11. CASE Seal
  <2>1. ASSUME NEW g \in Generations,
               (\E k \in {"clean", "crash"} : Ended(g, k)) \/ Unconfirmed(g)
        PROVE  ProcessTypes'
    BY <2>1, OutcomeTypes
  <2>2. CASE UNCHANGED processVars
    BY <2>2 DEF TypeOK, ProcessTypes
  <2>3. retiring # 0 => retiring \in Generations
    BY <1>11 DEF TypeOK
  <2> QED
    BY <1>11, <2>1, <2>2, <2>3 DEF Seal
<1>12. CASE PublisherDies
  BY <1>12 DEF TypeOK, SwitchTypeOK, CommandIsCurrent, Commanding,
     Stopping, WithCandidate, Handed, PublisherDies
<1> QED
  BY <1>1, <1>2, <1>3, <1>4, <1>5, <1>6, <1>7, <1>8, <1>9, <1>10, <1>11,
     <1>12 DEF Next, Asking, Transaction, Monitor, Worker, Environment

LEMMA FlagStep ==
  ASSUME TypeOK, CommandIsCurrent, [Next]_vars
  PROVE  Flags'
<1> USE DEF Flags
<1>1. CASE UNCHANGED <<running, shown, retry, sealed, airplay>>
  BY <1>1 DEF TypeOK
<1>2. ASSUME UNCHANGED vars \/ Recover \/ RecoverRefused \/ Delay \/ Prepare \/
            StartBackend \/ Submit \/ WaitCancelled \/ Judge \/ Abort
     PROVE  UNCHANGED <<running, shown, retry, sealed, airplay>>
  BY <1>2 DEF Recover, RecoverRefused, Delay, Ends, Prepare, Reserve,
     ReserveFails, StartBackend, BackendStarts, Abandon, BackendLost, Submit,
     WaitCancelled, Judge, Abort, AbortSucceeds, AbortFails, AbandonFails
<1>3. ASSUME Take \/ Prove \/ Join \/ FinishFailed \/ Answer \/
            SeesRetiringExit \/ StopPublisher \/ StopsDirect
     PROVE  UNCHANGED <<running, shown, retry, sealed, airplay>>
  BY <1>3 DEF Take, Answered, Prove, Join, FinishFailed, AbortSucceeds,
     Abandon, AbortFails, AbandonFails, Answer, SeesRetiringExit, Ended,
     StopPublisher, Unconfirmed, StopsDirect
<1>4. ASSUME Drain \/ Validated \/ Rejected \/ (\E p \in Plans : Change(p)) \/
            PublisherDies \/ Gate
     PROVE  UNCHANGED <<running, shown, retry, sealed, airplay>>
  BY <1>4 DEF Drain, BeginDrain, Validated, HoldDrain, Rejected,
     AbortDrain, Change, PublisherDies, Gate, Connect, ConnEnds,
     RetireBackend, CancelDirect, FinishDirect
<1>5. CASE StopOld
  BY <1>5 DEF TypeOK, SwitchTypeOK, CommandIsCurrent, Commanding, Stopping,
     WithCandidate, Handed, StopOld, Ended
<1>6. CASE Claim
  BY <1>6 DEF TypeOK, SwitchTypeOK, CommandIsCurrent, Commanding, Stopping,
     WithCandidate, Handed, Claim, FailsAfterStop
<1>7. CASE StartCandidate
  BY <1>7 DEF TypeOK, SwitchTypeOK, CommandIsCurrent, Commanding, Stopping,
     WithCandidate, Handed, StartCandidate, FailsAfterStop
<1>8. CASE CommitCandidate
  BY <1>8 DEF TypeOK, SwitchTypeOK, CommandIsCurrent, Commanding, Stopping,
     WithCandidate, Handed, CommitCandidate, Commit, CommitFails
<1>9. CASE Adopt
  BY <1>9 DEF TypeOK, SwitchTypeOK, CommandIsCurrent, Commanding, Stopping,
     WithCandidate, Handed, Adopt, Answered
<1>10. CASE Cleanup
  BY <1>10 DEF TypeOK, SwitchTypeOK, CommandIsCurrent, Commanding,
     Stopping, WithCandidate, Handed, Cleanup, Ended, FailsAfterStop
<1>11. CASE SeesExit
  BY <1>11 DEF TypeOK, SwitchTypeOK, CommandIsCurrent, Commanding,
     Stopping, WithCandidate, Handed, SeesExit, Ended, HandleExit
<1>12. CASE TakeRetry
  BY <1>12 DEF TypeOK, SwitchTypeOK, CommandIsCurrent, Commanding,
     Stopping, WithCandidate, Handed, TakeRetry, HandleExit
<1>13. CASE TakeRecovery
  BY <1>13 DEF TypeOK, SwitchTypeOK, CommandIsCurrent, Commanding,
     Stopping, WithCandidate, Handed, TakeRecovery
<1>14. CASE Finish
  BY <1>14 DEF TypeOK, SwitchTypeOK, CommandIsCurrent, Commanding,
     Stopping, WithCandidate, Handed, Finish
<1>15. CASE Seal
  BY <1>15 DEF TypeOK, SwitchTypeOK, CommandIsCurrent, Commanding,
     Stopping, WithCandidate, Handed, Seal, Ended, Unconfirmed
<1>16. CASE Leaves
  BY <1>16 DEF TypeOK, SwitchTypeOK, CommandIsCurrent, Commanding,
     Stopping, WithCandidate, Handed, Leaves, Answered
<1>17. CASE PressRetry
  BY <1>17 DEF TypeOK, SwitchTypeOK, CommandIsCurrent, Commanding,
     Stopping, WithCandidate, Handed, PressRetry
<1>18. CASE StopReceiver
  BY <1>18 DEF TypeOK, SwitchTypeOK, CommandIsCurrent, Commanding,
     Stopping, WithCandidate, Handed, StopReceiver
<1> QED
  BY <1>1, <1>2, <1>3, <1>4, <1>5, <1>6, <1>7, <1>8, <1>9, <1>10, <1>11,
     <1>12, <1>13, <1>14, <1>15, <1>16, <1>17, <1>18 DEF Next, Asking,
     Transaction, Monitor, Worker, Environment

LEMMA RouteStep ==
  ASSUME TypeOK, OldRouteIsSilent, [Next]_vars
  PROVE  OldRouteIsSilent'
<1> USE DEF OldRouteIsSilent
<1>1. CASE UNCHANGED <<conn, active, direct>>
  BY <1>1
<1>2. ASSUME UNCHANGED vars \/ Recover \/ RecoverRefused \/ Delay \/ Prepare \/
            StartBackend \/ Submit \/ WaitCancelled \/ Judge \/ Abort
     PROVE  UNCHANGED <<conn, active, direct>>
  BY <1>2 DEF Recover, RecoverRefused, Delay, Ends, Prepare, Reserve,
     ReserveFails, StartBackend, BackendStarts, Abandon, BackendLost, Submit,
     WaitCancelled, Judge, Abort, AbortSucceeds, AbortFails, AbandonFails
<1>3. ASSUME Take \/ StopOld \/ Claim \/ StartCandidate \/ Prove \/ Join \/
            Adopt \/ Cleanup \/ FinishFailed \/ Answer \/ SeesExit \/
            SeesRetiringExit \/ TakeRetry \/ TakeRecovery \/ Finish \/
            StopPublisher \/ Seal \/ Leaves
     PROVE  UNCHANGED <<conn, active, direct>>
  BY <1>3 DEF Take, Answered, StopOld, Ended, Claim, FailsAfterStop,
     StartCandidate, Prove, Join, Adopt, Cleanup, FinishFailed, AbortSucceeds,
     Abandon, AbortFails, AbandonFails, Answer, SeesExit, HandleExit,
     SeesRetiringExit, TakeRetry, TakeRecovery, Finish, StopPublisher,
     Unconfirmed, Seal, Leaves
<1>4. ASSUME Drain \/ Validated \/ Rejected \/ (\E p \in Plans : Change(p)) \/
            PressRetry \/ StopReceiver \/ PublisherDies
     PROVE  UNCHANGED <<conn, active, direct>>
  BY <1>4 DEF Drain, BeginDrain, Validated, HoldDrain, Rejected,
     AbortDrain, Change, PressRetry, StopReceiver, PublisherDies
<1>5. CASE CommitCandidate
  BY <1>5 DEF CommitCandidate, CanAbort, CandidateFree, CoordinatorFree,
     Exited, OldExitConfirmed, Commit, Drained, CommitFails
<1>6. CASE StopsDirect
  BY <1>6 DEF StopsDirect
<1>7. CASE Gate
  BY <1>7 DEF Gate, Connect, ConnEnds, RetireBackend, CancelDirect,
     FinishDirect
<1> QED
  BY <1>1, <1>2, <1>3, <1>4, <1>5, <1>6, <1>7 DEF Next, Asking,
     Transaction, Monitor, Worker, Environment

-----------------------------------------------------------------------------
(* The specification.                                                      *)

NextRefined == [Promise!PromiseNext]_(Promise!promiseVars)

(* The transaction ends with an answer that is true.                       *)
LEMMA EndRefines ==
  ASSUME TypeOK, PlanIsAgreed, ~At("idle"), UNCHANGED <<active, planOf>>,
         NEW a \in {"applied", "restored", "failed"}, Ends(a),
         Changing => planOf[active] = IF a = "applied" THEN tx.asked ELSE planOf[tx.base]
  PROVE  NextRefined
<1>1. TxKeeps("idle") /\ ~Changing'
  BY EndsIs DEF TxKeeps, TxIs, Changing
<1>2. CASE Changing
  <2>1. tx.asked # NoPlan /\ answer' = a
    BY <1>2 DEF PlanIsAgreed, Changing, Ends
  <2>2. Promise!Reply(a)
    BY <1>1, <1>2, <2>1 DEF Promise!Reply
  <2> QED
    BY <2>2 DEF NextRefined, Promise!PromiseNext, Promise!Replies
<1>3. CASE ~Changing
  BY <1>1, <1>3 DEF Changing, Ends, NextRefined, Promise!promiseVars
<1> QED
  BY <1>2, <1>3

(* It goes on.                                                             *)
LEMMA MoveRefines ==
  ASSUME ~At("idle"), tx'.at # "idle", UNCHANGED <<active, answer>>,
         tx'.kind = "recover" <=> tx.kind = "recover",
         tx'.base = tx.base, tx'.asked = tx.asked,
         planOf'[active] = planOf[active], planOf'[tx.base] = planOf[tx.base]
  PROVE  NextRefined
BY DEF NextRefined, Changing, Promise!promiseVars

(* Between the submission and the verdict the settings are those of before *)
(* or those of the candidate.                                              *)
LEMMA PlanWhileHanded ==
  ASSUME TypeOK, PlanIsAgreed, ~At("idle"), ~At("wait"), ~At("judge")
  PROVE  active = tx.base
BY DEF PlanIsAgreed

LEMMA PrepareRefines ==
  ASSUME TypeOK, LedgerIsKept, PlanIsAgreed, Prepare
  PROVE  NextRefined
<1>1. At("prepare") /\ active = tx.base /\ ledger[active] = "committed"
  BY PlanWhileHanded DEF Prepare, LedgerIsKept
<1>2. CASE Ends("failed") /\ UNCHANGED <<active, planOf>>
  BY <1>1, <1>2, EndRefines
<1>3. ASSUME NEW g \in Generations, Reserve(g, PlanToUse), UNCHANGED answer,
             tx' = [tx EXCEPT !.at = "backend", !.gen = g]
      PROVE  NextRefined
  <2>1. TxIs("backend", tx.kind, g)
    BY <1>3 DEF TypeOK, TxIs
  <2>2. UNCHANGED active /\ g # active
    BY <1>1, <1>3 DEF Reserve, NextFree
  <2>3. planOf'[active] = planOf[active]
    BY <1>3, <2>2 DEF Reserve, TypeOK, SwitchTypeOK
  <2> QED
    BY <1>1, <1>3, <2>1, <2>2, <2>3, MoveRefines DEF TxIs
<1> QED
  BY <1>2, <1>3 DEF Prepare, ReserveFails

LEMMA StartBackendRefines ==
  ASSUME TypeOK, CommandIsCurrent, PlanIsAgreed, StartBackend
  PROVE  NextRefined
<1>1. At("backend") /\ active = tx.base
  BY PlanWhileHanded DEF StartBackend
<1>2. UNCHANGED <<active, planOf>>
  BY StartBackendIs DEF KeepsDrain
<1>3. CASE Ends("failed")
  BY <1>1, <1>2, <1>3, EndRefines
<1>4. CASE Moves("submit")
  BY <1>1, <1>2, <1>4, GoToIs, MoveRefines DEF TxSteps, TxKeeps, TxIs
<1> QED
  BY <1>3, <1>4 DEF StartBackend

LEMMA AbortRefines ==
  ASSUME TypeOK, CommandIsCurrent, PlanIsAgreed, Abort
  PROVE  NextRefined
<1>1. At("abort") /\ active = tx.base
  BY PlanWhileHanded DEF Abort
<1>2. UNCHANGED <<active, planOf>>
  BY AbortIs DEF KeepsDrain, Releases
<1>3. CASE Ends("failed")
  BY <1>1, <1>2, <1>3, EndRefines
<1>4. CASE /\ tx.kind = "change" /\ UNCHANGED answer
           /\ tx' = [tx EXCEPT !.at = "prepare", !.kind = "restore"]
  <2>1. TxIs("prepare", "restore", tx.gen)
    BY <1>4 DEF TypeOK, TxIs
  <2> QED
    BY <1>1, <1>2, <1>4, <2>1, MoveRefines DEF TxIs
<1> QED
  BY <1>3, <1>4 DEF Abort

LEMMA JudgeRefines ==
  ASSUME TypeOK, CommandIsCurrent, PlanIsAgreed, Judge
  PROVE  NextRefined
<1>1. At("judge") /\ UNCHANGED <<active, planOf>>
  BY DEF Judge
<1>2. CASE Committed /\ Ends(IF tx.kind = "change" THEN "applied" ELSE "restored")
  <2>1. planOf[active] = IF tx.kind = "change" THEN tx.asked ELSE planOf[tx.base]
    BY <1>1, <1>2 DEF Committed, PlanIsAgreed, Handed
  <2> QED
    BY <1>1, <1>2, <2>1, EndRefines
<1>3. CASE Moves("abort")
  BY <1>1, <1>3, GoToIs, MoveRefines DEF TxSteps, TxKeeps, TxIs
<1> QED
  BY <1>2, <1>3 DEF Judge

(* A commit brings the settings asked for, or, in a restoration and in a   *)
(* recovery, those that are in force.                                      *)
LEMMA CommitRefines ==
  ASSUME TypeOK, CommandIsCurrent, PlanIsAgreed, CommitCandidate
  PROVE  NextRefined
<1>1. UNCHANGED <<planOf, tx, answer>>
  BY DEF CommitCandidate, Commit, CommitFails
<1>2. CASE UNCHANGED active
  BY <1>1, <1>2 DEF NextRefined, Changing, Promise!promiseVars
<1>3. CASE Commit(Candidate)
  <2>1. At("wait") /\ Candidate \in Generations
    BY <1>3 DEF CommitCandidate, Commit, CommandIsCurrent, Commanding, WithCandidate
  <2>2. active = tx.base /\ active' = Candidate
    BY <1>3, <2>1 DEF Commit, PlanIsAgreed
  <2>3. planOf[Candidate] = IF tx.kind = "change" THEN tx.asked ELSE planOf[tx.base]
    BY <2>1 DEF PlanIsAgreed, Handed
  <2>4. CASE tx.kind = "change"
    <3>1. Changing /\ Changing' /\ tx.asked # NoPlan
      BY <1>1, <2>1, <2>4 DEF Changing, PlanIsAgreed
    <3>2. Promise!Switch
      BY <1>1, <2>2, <2>3, <2>4, <3>1 DEF Promise!Switch
    <3> QED
      BY <3>2 DEF NextRefined, Promise!PromiseNext
  <2>5. CASE tx.kind # "change"
    BY <1>1, <2>2, <2>3, <2>5 DEF NextRefined, Changing, Promise!promiseVars
  <2> QED
    BY <2>4, <2>5
<1> QED
  BY <1>2, <1>3 DEF CommitCandidate, CommitFails

LEMMA ChangeRefines ==
  ASSUME TypeOK, NEW p \in Plans, Change(p)
  PROVE  NextRefined
<1>1. /\ At("idle") /\ p # planOf[active] /\ UNCHANGED <<planOf, active>>
      /\ tx'.at = "prepare" /\ tx'.kind = "change" /\ tx'.asked = p
      /\ tx'.base = active /\ answer' = "none"
  BY DEF Change
<1>2. ~Changing /\ Changing'
  BY <1>1 DEF Changing
<1>3. Promise!AskFor(p)
  BY <1>1, <1>2 DEF Promise!AskFor
<1> QED
  BY <1>3 DEF NextRefined, Promise!PromiseNext

(* The other steps, of the transaction or with it.                         *)
LEMMA StepRefines ==
  ASSUME TypeOK, PlanIsAgreed,
         Recover \/ Delay \/ Submit \/ WaitCancelled \/ Take \/ Adopt \/ Answer \/ Leaves
  PROVE  NextRefined
<1>1. UNCHANGED <<active, planOf>>
  BY DEF Recover, Delay, Submit, WaitCancelled, Take, Adopt, Answer, Leaves
<1>2. CASE Recover
  BY <1>1, <1>2 DEF Recover, MayRecover, NextRefined, Changing, Promise!promiseVars
<1>3. CASE Delay
  <2>1. At("delay") /\ active = tx.base
    BY <1>3, PlanWhileHanded DEF Delay
  <2>2. CASE Ends("failed")
    BY <1>1, <2>1, <2>2, EndRefines
  <2>3. CASE Moves("prepare")
    BY <1>1, <2>1, <2>3, GoToIs, MoveRefines DEF TxSteps, TxKeeps, TxIs
  <2> QED
    BY <1>3, <2>2, <2>3 DEF Delay
<1>4. CASE Submit \/ WaitCancelled
  <2>1. \E s \in {"abort", "wait", "judge"} : ~At("idle") /\ Moves(s)
    BY <1>4 DEF Submit, WaitCancelled
  <2> QED
    BY <1>1, <2>1, GoToIs, MoveRefines DEF TxSteps, TxKeeps, TxIs
<1>5. CASE Take \/ Adopt \/ Answer \/ Leaves
  <2>1. UNCHANGED <<tx, answer>> \/ Answered
    BY <1>5 DEF Take, Adopt, Answer, Leaves
  <2>2. CASE UNCHANGED <<tx, answer>>
    BY <1>1, <2>2 DEF NextRefined, Changing, Promise!promiseVars
  <2>3. CASE Answered /\ At("wait")
    BY <1>1, <2>3, AnsweredIs, MoveRefines DEF Answered, TxKeeps, TxIs
  <2> QED
    BY <2>1, <2>2, <2>3 DEF Answered
<1> QED
  BY <1>2, <1>3, <1>4, <1>5

LEMMA PromiseStep ==
  ASSUME TypeOK, CommandIsCurrent, LedgerIsKept, PlanIsAgreed, [Next]_vars
  PROVE  NextRefined
<1>1. CASE UNCHANGED <<planOf, active, tx, answer>>
  BY <1>1 DEF NextRefined, Changing, Promise!promiseVars
<1>2. ASSUME UNCHANGED vars \/ RecoverRefused
     PROVE  UNCHANGED <<planOf, active, tx, answer>>
  BY <1>2 DEF RecoverRefused
<1>3. ASSUME StopOld \/ Claim \/ StartCandidate \/ Prove \/ Join \/ Cleanup \/
            FinishFailed \/ SeesExit \/ SeesRetiringExit \/ TakeRetry \/
            TakeRecovery \/ Finish \/ StopPublisher \/ Seal \/ StopsDirect
     PROVE  UNCHANGED <<planOf, active, tx, answer>>
  BY <1>3 DEF StopOld, Ended, Claim, FailsAfterStop, StartCandidate, Prove,
     Join, Cleanup, FinishFailed, AbortSucceeds, Abandon, AbortFails,
     AbandonFails, SeesExit, HandleExit, SeesRetiringExit, TakeRetry,
     TakeRecovery, Finish, StopPublisher, Unconfirmed, Seal, StopsDirect
<1>4. ASSUME Drain \/ Validated \/ Rejected \/ PressRetry \/ StopReceiver \/
            PublisherDies \/ Gate
     PROVE  UNCHANGED <<planOf, active, tx, answer>>
  BY <1>4 DEF Drain, BeginDrain, Validated, HoldDrain, Rejected,
     AbortDrain, PressRetry, StopReceiver, PublisherDies, Gate, Connect,
     ConnEnds, RetireBackend, CancelDirect, FinishDirect
<1>5. CASE Recover
  BY <1>5, StepRefines
<1>6. CASE Delay
  BY <1>6, StepRefines
<1>7. CASE Prepare
  BY <1>7, PrepareRefines
<1>8. CASE StartBackend
  BY <1>8, StartBackendRefines
<1>9. CASE Submit
  BY <1>9, StepRefines
<1>10. CASE WaitCancelled
  BY <1>10, StepRefines
<1>11. CASE Judge
  BY <1>11, JudgeRefines
<1>12. CASE Abort
  BY <1>12, AbortRefines
<1>13. CASE Take
  BY <1>13, StepRefines
<1>14. CASE CommitCandidate
  BY <1>14, CommitRefines
<1>15. CASE Adopt
  BY <1>15, StepRefines
<1>16. CASE Answer
  BY <1>16, StepRefines
<1>17. CASE Leaves
  BY <1>17, StepRefines
<1>18. ASSUME NEW p \in Plans, Change(p) PROVE NextRefined
  BY <1>18, ChangeRefines
<1> QED
  BY <1>1, <1>2, <1>3, <1>4, <1>5, <1>6, <1>7, <1>8, <1>9, <1>10, <1>11,
     <1>12, <1>13, <1>14, <1>15, <1>16, <1>17, <1>18 DEF Next, Asking,
     Transaction, Monitor, Worker, Environment

-----------------------------------------------------------------------------
IInv ==
  /\ TypeOK /\ CommandIsCurrent /\ PublishersAreKnown /\ LedgerIsKept
  /\ ProcessesAreClaimed /\ PlanIsAgreed /\ OldRouteIsSilent

LEMMA InvInit == Init => IInv
<1> SUFFICES ASSUME Init PROVE IInv
  OBVIOUS
<1> USE DEF Init, SwitchInit
<1>0. 1 \in Generations /\ 0 \in 0..MaxGeneration /\ 0 \in 0..MaxFaults
  OBVIOUS
<1>1. SwitchTypeOK
  BY <1>0 DEF SwitchTypeOK
<1>2. TxType /\ RecType /\ WorkerType
  BY <1>0 DEF TxType, RecType, WorkerType, TxSteps
<1>3. AnswerTypes /\ MonitorTypes /\ ProcessTypes
  BY <1>0 DEF AnswerTypes, MonitorTypes, ProcessTypes, MonitorSteps
<1>4. Flags
  BY DEF Flags
<1>5. TypeOK
  BY <1>1, <1>2, <1>3, <1>4, TypeParts
<1>6. CommandIsCurrent
  BY DEF CommandIsCurrent, Commanding, Stopping, WithCandidate, Handed
<1>7. PublishersAreKnown
  BY <1>0 DEF PublishersAreKnown, Stopping, WithCandidate, OnlyRuns, OnePublisher
<1>8. LedgerIsKept
  BY <1>0 DEF LedgerIsKept
<1>9. ProcessesAreClaimed
  BY <1>0 DEF ProcessesAreClaimed, Busy, WithCandidate, ReleaseIsSafe
<1>10. PlanIsAgreed
  BY <1>0 DEF PlanIsAgreed, Changing, Handed
<1>11. OldRouteIsSilent
  BY DEF OldRouteIsSilent
<1> QED
  BY <1>5, <1>6, <1>7, <1>8, <1>9, <1>10, <1>11 DEF IInv

LEMMA TypeStep ==
  ASSUME TypeOK, CommandIsCurrent, [Next]_vars
  PROVE  TypeOK'
BY SwitchTypeStep, TxTypeStep, AnswerTypeStep, MonitorTypeStep, RecTypeStep,
   WorkerTypeStep, ProcessTypeStep, FlagStep, Zenon
   DEF TypeOK, TxType, AnswerTypes, MonitorTypes, RecType, WorkerType, ProcessTypes, Flags

LEMMA InvStep == IInv /\ [Next]_vars => IInv'
BY TypeStep, CommandStep, PublisherStep, LedgerStep, ClaimStep, PlanStep, RouteStep
   DEF IInv

LEMMA Invariance == Spec => []IInv
BY InvInit, InvStep, PTL DEF Spec
-----------------------------------------------------------------------------
(* Type correctness, for any plans and numbers of generations: the monitor *)
(* works on a generation that the coordinator has allocated.               *)
THEOREM TypeCorrect == Spec => []TypeOK
<1>1. IInv => TypeOK
  BY DEF IInv
<1> QED
  BY <1>1, Invariance, PTL

(* Two publishers never run together, whatever stop is not confirmed and   *)
(* whoever asks next: the monitor's `running` and `retiring` name the one  *)
(* that may run, and a candidate is started when neither does.             *)
THEOREM PublishersAreSingle == Spec => []OnePublisher
<1>1. IInv => OnePublisher
  BY DEF IInv, PublishersAreKnown
<1> QED
  BY <1>1, Invariance, PTL

(* As long as the gate stands, public connections go to the backend of the *)
(* generation in force.                                                    *)
THEOREM RouteIsSilent == Spec => []OldRouteIsSilent
<1>1. IInv => OldRouteIsSilent
  BY DEF IInv
<1> QED
  BY <1>1, Invariance, PTL

(* A candidate that was given up has no publisher and no validation left,  *)
(* whoever gave it up: the transaction or the monitor.                     *)
THEOREM ReleasesAreSafe == Spec => []ReleaseIsSafe
<1>1. IInv => ReleaseIsSafe
  BY DEF IInv, ProcessesAreClaimed
<1> QED
  BY <1>1, Invariance, PTL

(* The session implements the promise made to the one who asks for other   *)
(* settings.                                                               *)
THEOREM DeliveryKeepsPromise == Spec => KeepsDeliveryPromise
<1>1. Init => Promise!PromiseInit
  BY DEF Init, SwitchInit, Changing, Promise!PromiseInit
<1>2. IInv /\ [Next]_vars => [Promise!PromiseNext]_(Promise!promiseVars)
  BY PromiseStep DEF IInv, NextRefined
<1> QED
  BY <1>1, <1>2, Invariance, PTL DEF Spec, KeepsDeliveryPromise, Promise!PromiseSpec


=============================================================================
