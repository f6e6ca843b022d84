---------------------------- MODULE WorkerSession ----------------------------
(***************************************************************************)
(* The niconico worker processes: nicoWorkerSessionManager of              *)
(* internal/server/niconico_worker_session.go, with what it sees of the    *)
(* process that runSession of internal/nicoexportworker/session.go runs.   *)
(*                                                                         *)
(* A job runs in the current session if that one has the job's identity,   *)
(* or else in a new one.  Jobs are serialised by runMu, and nothing is     *)
(* looked at by those who wait for it: there is one job at a time here.    *)
(* A session is retired when it was idle for a minute, after its last job, *)
(* when a job fails in it, when a job of another identity comes or when    *)
(* the owner's context ends: by goroutines of their own, which may come    *)
(* late.                                                                   *)
(*                                                                         *)
(* Sessions are numbered in the order in which they are started, and an    *)
(* idle period is named by the number of jobs before it.  The outputs of   *)
(* hello and ready, and of cleanup and ready, are one message each.        *)
(* start() and close(), which only tests call, are not modelled.           *)
(***************************************************************************)
EXTENDS Naturals, Sequences

CONSTANTS
  Identities,    \* what nicoWorkerSessionIdentity tells apart
  MaxRuns,       \* bound on the calls of run
  MaxSessions,   \* bound on the sessions that are started
  MaxJobs        \* maxJobs

ASSUME WorkerSessionAssumption ==
  /\ Identities # {}
  /\ MaxRuns \in Nat /\ MaxSessions \in Nat /\ MaxJobs \in Nat \ {0}

Sessions == 1..MaxSessions

VARIABLES
  ownerDone, canceled,  \* ended contexts: the owner's, the job's
  ownerSeen,      \* the goroutine that waits for the owner's has run
  current,        \* m.current, 0 for nil
  retirementErr,  \* m.retirementErr # nil
  runs,           \* how often run was called
  job,            \* run: where it is, in which session, with which identity
  session,        \* fields of nicoWorkerSession
  due,            \* timer goroutines that may still run
  retirer,        \* who waits in closeAndWait, except the jobs
  closing,        \* closeAndWait of each session
  process,        \* the worker process
  worker,         \* what it does
  output          \* the messages it wrote that the job has not read

contextVars == <<ownerDone, canceled, ownerSeen>>
managerVars == <<current, retirementErr, session, due>>
processVars == <<process, worker, output>>
vars == <<contextVars, managerVars, runs, job, retirer, closing, processVars>>

JobSteps == {"over", "ensure", "swap", "spawn", "hello", "publish", "send",
             "wait", "result", "fail", "complete", "close"}

(* Type correctness: every variable has its type, and sessions count up to *)
(* maxJobs jobs and no further.                                            *)
TypeOK ==
  /\ ownerDone \in BOOLEAN /\ ownerSeen \in BOOLEAN /\ canceled \in BOOLEAN
  /\ current \in 0..MaxSessions /\ retirementErr \in BOOLEAN
  /\ runs \in 0..MaxRuns
  /\ job \in [at : JobSteps, in : 0..MaxSessions, of : Identities]
  /\ session \in [Sessions -> [of : Identities, active : BOOLEAN,
                               served : 0..MaxJobs, deadline : 0..MaxJobs]]
  /\ due \subseteq Sessions \X (0..MaxJobs)
  /\ retirer \in [Sessions -> {"none", "idle", "owner"}]
  /\ closing \in [Sessions -> {"no", "wait", "clean", "failed"}]
  /\ process \in [Sessions -> {"none", "running", "gone"}]
  /\ worker \in [Sessions ->
                   {"none", "starting", "idle", "working", "finishing"}]
  /\ output \in [Sessions -> Seq({"ready", "good", "bad"})]

Someone == CHOOSE i \in Identities : TRUE

Init ==
  /\ ownerDone = FALSE /\ ownerSeen = FALSE /\ canceled = FALSE
  /\ current = 0 /\ retirementErr = FALSE
  /\ runs = 0 /\ job = [at |-> "over", in |-> 0, of |-> Someone]
  /\ session = [s \in Sessions |-> [of |-> Someone, active |-> FALSE,
                                    served |-> 0, deadline |-> 0]]
  /\ due = {} /\ retirer = [s \in Sessions |-> "none"]
  /\ closing = [s \in Sessions |-> "no"]
  /\ process = [s \in Sessions |-> "none"]
  /\ worker = [s \in Sessions |-> "none"]
  /\ output = [s \in Sessions |-> <<>>]
-----------------------------------------------------------------------------
(* Operations on a session under m.mu.                                     *)

(* stopIdleTimerLocked: a goroutine that was started already is not called *)
(* back, but its deadline does not hold any more.                          *)
StopTimer(s) == due' \in {due, {d \in due : d[1] # s}}
Unused(s) == [session EXCEPT ![s].active = FALSE, ![s].deadline = 0]

(* beginJobLocked; mutant: it is enough to stop the timer.                 *)
StopTimerOnly(s) == StopTimer(s) /\ UNCHANGED session
BeginJob(s) ==
  /\ StopTimer(s)
  /\ session' = [session EXCEPT ![s].active = TRUE, ![s].deadline = 0]

(* A session is forgotten and its timer stopped.                           *)
Forget(s) ==
  /\ current' = IF current = s THEN 0 ELSE current
  /\ StopTimer(s) /\ session' = Unused(s)
-----------------------------------------------------------------------------
(* run, for the job that holds runMu.                                      *)

At(step) == job.at = step
Go(step) == job' = [job EXCEPT !.at = step]
GoIn(step, s) == job' = [job EXCEPT !.at = step, !.in = s]

(* The job has got runMu.  The error of a retirement is reported to it.    *)
Begin ==
  /\ At("over") /\ runs < MaxRuns /\ runs' = runs + 1
  /\ IF retirementErr THEN UNCHANGED job
     ELSE \E i \in Identities : job' = [at |-> "ensure", in |-> 0, of |-> i]
  /\ retirementErr' = FALSE /\ canceled' = FALSE
  /\ UNCHANGED <<ownerDone, ownerSeen, current, session, due, retirer, closing,
                 processVars>>

(* What becomes of a session that is replaced; mutant: it is forgotten.    *)
ForgetReplaced == "spawn"
CloseReplaced == "swap"

(* ensureSession, first part: the current session is used, or replaced by  *)
(* a new one after it has been closed.                                     *)
Ensure ==
  /\ At("ensure")
  /\ \/ ownerDone /\ Go("over") /\ UNCHANGED <<current, session, due>>
     \/ /\ ~ownerDone /\ current # 0 /\ session[current].of = job.of
        /\ BeginJob(current) /\ GoIn("send", current)
        /\ UNCHANGED current
     \/ /\ ~ownerDone /\ current # 0 /\ session[current].of # job.of
        /\ Forget(current) /\ GoIn(CloseReplaced, current)
     \/ /\ ~ownerDone /\ current = 0
        /\ GoIn("spawn", 0) /\ UNCHANGED <<current, session, due>>
  /\ UNCHANGED <<contextVars, runs, retirementErr, retirer, closing, processVars>>

Closed(s) == closing[s] \in {"clean", "failed"}

(* The session that is replaced is closed; an error of that ends the job.  *)
Swap ==
  /\ At("swap") /\ Closed(job.in)
  /\ Go(IF closing[job.in] = "failed" THEN "over" ELSE "spawn")
  /\ UNCHANGED <<contextVars, runs, managerVars, retirer, closing, processVars>>

(* The process is started, or cannot be.                                   *)
Spawn ==
  /\ At("spawn")
  /\ \/ \E s \in Sessions :
          /\ process[s] = "none" /\ \A r \in 1..(s - 1) : process[r] # "none"
          /\ process' = [process EXCEPT ![s] = "running"]
          /\ worker' = [worker EXCEPT ![s] = "starting"]
          /\ session' = [session EXCEPT ![s].of = job.of]
          /\ GoIn("hello", s)
     \/ Go("over") /\ UNCHANGED <<process, worker, session>>
  /\ UNCHANGED <<contextVars, runs, current, retirementErr, due, retirer, closing,
                 output>>

First(s) == Head(output[s])
Read(s) == output' = [output EXCEPT ![s] = Tail(@)]

(* The process says hello and ready.  The wait for it ends with the        *)
(* owner's context; the job's is not looked at.                            *)
Hello ==
  LET s == job.in IN
  /\ At("hello")
  /\ \/ /\ output[s] # <<>> /\ Read(s)
        /\ Go(IF First(s) = "ready" /\ ~ownerDone THEN "publish" ELSE "close")
     \/ ownerDone /\ Go("close") /\ UNCHANGED output
  /\ UNCHANGED <<contextVars, runs, managerVars, retirer, closing, process, worker>>

(* The new session becomes the current one, even if the owner's context    *)
(* has ended since it was looked at.                                       *)
Publish ==
  /\ At("publish")
  /\ current' = job.in /\ session' = [session EXCEPT ![job.in].active = TRUE]
  /\ Go("send")
  /\ UNCHANGED <<contextVars, runs, retirementErr, due, retirer, closing, processVars>>

(* The job is written to the process.  A process that is gone takes it as  *)
(* well: the write ends in a buffer.                                       *)
Send ==
  LET s == job.in IN
  /\ At("send")
  /\ \/ /\ closing[s] = "no" /\ Go("wait")
        /\ worker' = [worker EXCEPT ![s] =
             IF process[s] = "running" /\ @ = "idle" THEN "working" ELSE @]
     \/ Go("fail") /\ UNCHANGED worker
  /\ UNCHANGED <<contextVars, runs, managerVars, retirer, closing, process, output>>

(* Mutant: only the job's own context is watched.                          *)
CanceledOnly == canceled
Interrupted == canceled \/ ownerDone

(* The messages of the process until it is ready again; what was written   *)
(* after a result may be unusable, and so may its CPU budget.              *)
Wait ==
  LET s == job.in IN
  /\ At("wait") \/ At("result")
  /\ \/ /\ output[s] # <<>> /\ Read(s)
        /\ \/ At("wait") /\ First(s) = "good" /\ Go("result")
           \/ At("result") /\ First(s) = "ready" /\ Go("complete")
           \/ Go("fail")
     \/ Interrupted /\ Go("fail") /\ UNCHANGED output
  /\ UNCHANGED <<contextVars, runs, managerVars, retirer, closing, process, worker>>

(* failSession.                                                            *)
Fail ==
  /\ At("fail")
  /\ Forget(job.in) /\ Go("close")
  /\ UNCHANGED <<contextVars, runs, retirementErr, retirer, closing, processVars>>

(* completeJob: the session is idle again, or has served its time.         *)
Complete ==
  LET s == job.in IN
  /\ At("complete")
  /\ IF current # s THEN Go("over") /\ UNCHANGED <<current, session, due>>
     ELSE LET n == session[s].served + 1 IN
       IF n < MaxJobs
       THEN /\ session' = [session EXCEPT ![s] = [@ EXCEPT !.active = FALSE,
                                                  !.served = n, !.deadline = n]]
            /\ due' = due \cup {<<s, n>>}
            /\ Go("over") /\ UNCHANGED current
       ELSE /\ current' = 0 /\ StopTimer(s)
            /\ session' = [session EXCEPT ![s] = [@ EXCEPT !.active = FALSE,
                                                  !.served = n, !.deadline = 0]]
            /\ Go("close")
  /\ UNCHANGED <<contextVars, runs, retirementErr, retirer, closing, processVars>>

(* closeAndWait has returned.                                              *)
Return ==
  /\ At("close") /\ Closed(job.in)
  /\ Go("over")
  /\ UNCHANGED <<contextVars, runs, managerVars, retirer, closing, processVars>>

Run ==
  \/ Ensure \/ Swap \/ Spawn \/ Hello \/ Publish
  \/ Send \/ Wait \/ Fail \/ Complete \/ Return
-----------------------------------------------------------------------------
(* The goroutines that retire sessions.                                    *)

(* retireIdle, from the timer of the idle period k.  Mutant: the deadline  *)
(* is not looked at.                                                       *)
MayRetireLate(s, k) == current = s /\ ~session[s].active
MayRetire(s, k) == current = s /\ ~session[s].active /\ session[s].deadline = k
RetireIdle(s, k) ==
  /\ <<s, k>> \in due
  /\ IF MayRetire(s, k)
     THEN /\ current' = 0
          /\ due' \in {due \ {<<s, k>>}, {d \in due : d[1] # s}}
          /\ session' = Unused(s)
          /\ retirer' = [retirer EXCEPT ![s] = "idle"]
     ELSE due' = due \ {<<s, k>>} /\ UNCHANGED <<current, session, retirer>>
  /\ UNCHANGED <<contextVars, runs, retirementErr, job, closing, processVars>>

(* retireCurrent, once, when the owner's context has ended.                *)
RetireCurrent ==
  /\ ownerDone /\ ~ownerSeen /\ ownerSeen' = TRUE
  /\ IF current = 0 THEN UNCHANGED <<current, session, due, retirer>>
     ELSE /\ Forget(current)
          /\ retirer' = [retirer EXCEPT ![current] = "owner"]
  /\ UNCHANGED <<ownerDone, canceled, retirementErr, runs, job, closing, processVars>>

(* The error of an idle retirement is kept for the next job.               *)
Retired(s) ==
  /\ retirer[s] = "idle" /\ Closed(s)
  /\ retirer' = [retirer EXCEPT ![s] = "none"]
  /\ retirementErr' = (retirementErr \/ closing[s] = "failed")
  /\ UNCHANGED <<contextVars, runs, current, session, due, job, closing, processVars>>

(* closeAndWait of a session that somebody closes, once: its input ends,   *)
(* and the process ends by itself or is ended after the time of grace;     *)
(* then its directory is removed.                                          *)
Closer(s) ==
  \/ retirer[s] # "none"
  \/ job.in = s /\ (At("swap") \/ At("close"))
CloseBegins(s) ==
  /\ closing[s] = "no" /\ Closer(s)
  /\ closing' = [closing EXCEPT ![s] = "wait"]
  /\ UNCHANGED <<contextVars, runs, managerVars, job, retirer, processVars>>
CloseEnds(s) ==
  /\ closing[s] = "wait"
  /\ \E end \in {"clean", "failed"} : closing' = [closing EXCEPT ![s] = end]
  /\ process' = [process EXCEPT ![s] = "gone"]
  /\ UNCHANGED <<contextVars, runs, managerVars, job, retirer, worker, output>>

CloseAndWait(s) == CloseBegins(s) \/ CloseEnds(s)
-----------------------------------------------------------------------------
(* The process: it may do nothing, or be gone, at any moment.  Its end is  *)
(* not a message: the pipe that the job reads is closed by closeAndWait.   *)

Says(s, m, next) ==
  /\ output' = [output EXCEPT ![s] = Append(@, m)]
  /\ worker' = [worker EXCEPT ![s] = next]
Works(s) ==
  /\ process[s] = "running"
  /\ \/ worker[s] = "starting" /\ \E m \in {"ready", "bad"} : Says(s, m, "idle")
     \/ worker[s] = "working" /\ \E m \in {"good", "bad"} : Says(s, m, "finishing")
     \/ worker[s] = "finishing" /\ Says(s, "ready", "idle")
  /\ UNCHANGED <<contextVars, runs, managerVars, job, retirer, closing, process>>
Exits(s) ==
  /\ process[s] = "running"
  /\ process' = [process EXCEPT ![s] = "gone"]
  /\ UNCHANGED <<contextVars, runs, managerVars, job, retirer, closing, worker, output>>

(* The context of a job is looked at only while it waits for the process.  *)
CancelJob ==
  /\ At("wait") \/ At("result")
  /\ canceled' = TRUE /\ UNCHANGED <<ownerDone, ownerSeen>>
  /\ UNCHANGED <<managerVars, runs, job, retirer, closing, processVars>>
CancelOwner ==
  /\ ownerDone' = TRUE /\ UNCHANGED <<canceled, ownerSeen>>
  /\ UNCHANGED <<managerVars, runs, job, retirer, closing, processVars>>
-----------------------------------------------------------------------------
Next ==
  \/ Begin \/ Run \/ CancelJob
  \/ \E s \in Sessions, k \in 0..MaxJobs : RetireIdle(s, k)
  \/ RetireCurrent \/ CancelOwner
  \/ \E s \in Sessions : Retired(s) \/ CloseAndWait(s) \/ Works(s) \/ Exits(s)

Spec == Init /\ [][Next]_vars

(* Goroutines are scheduled, timers fire and closeAndWait has deadlines;   *)
(* nothing is assumed of the process or of the contexts.                   *)
Fairness ==
  /\ WF_vars(Run)
  /\ WF_vars(RetireCurrent)
  /\ \A s \in Sessions, k \in 0..MaxJobs : WF_vars(RetireIdle(s, k))
  /\ \A s \in Sessions : WF_vars(Retired(s)) /\ WF_vars(CloseAndWait(s))

FairSpec == Spec /\ Fairness
-----------------------------------------------------------------------------
(* Properties.                                                             *)

(* A job works in a session of its own identity that is in use by nobody   *)
(* else; until the owner ends, no late timer, replacement or retirement    *)
(* takes the session away from it.                                         *)
JobHasItsSession ==
  At("send") \/ At("wait") \/ At("result") \/ At("complete") =>
    /\ session[job.in].of = job.of /\ session[job.in].served < MaxJobs
    /\ ~ownerDone => /\ current = job.in /\ session[job.in].active
                     /\ closing[job.in] = "no"

(* No process is left to itself: it is the current one's, or a goroutine   *)
(* that is still at work has it and will close it.                         *)
NoOrphan ==
  \A s \in Sessions : process[s] = "running" /\ current # s =>
    \/ Closer(s)
    \/ job.in = s /\ ~At("over")

(* A session is retired as idle only if it had no job since the timer was  *)
(* set that retires it: a timer that comes late does not shorten the next  *)
(* idle period.                                                            *)
IdleIsIdle ==
  [][\A s \in Sessions : retirer[s] # "idle" /\ retirer'[s] = "idle"
       => /\ <<s, session[s].served>> \in due
          /\ <<s, session[s].served>> \notin due']_vars

(* When the owner's context has ended, the last process ends, wherever the *)
(* jobs and the timers were, and none is started again.                    *)
ShutdownEndsWorkers ==
  <>[](ownerDone => \A s \in Sessions : process[s] # "running")
=============================================================================
