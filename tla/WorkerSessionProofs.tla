------------------------- MODULE WorkerSessionProofs -------------------------
(***************************************************************************)
(* Proofs about WorkerSession, for any number of calls, of sessions and of *)
(* jobs a session serves.                                                  *)
(*                                                                         *)
(* All of it rests on who may end a session: the current one has nobody    *)
(* who closes it (CurrentIsFree), and the job knows at each of its steps   *)
(* whether its session is still the current one (CurrentOfJob).            *)
(***************************************************************************)
EXTENDS WorkerSession, TLAPS

Using == At("send") \/ At("wait") \/ At("result") \/ At("complete")
Replacing == At("swap") \/ At("spawn")
Starting == At("hello") \/ At("publish")

(* The current session is started, and nobody closes it.                   *)
CurrentIsFree ==
  current # 0 =>
    /\ process[current] # "none" /\ closing[current] = "no"
    /\ retirer[current] = "none" /\ session[current].served < MaxJobs

(* The job's session is started; it has one from the hello on.             *)
JobIsStarted ==
  /\ job.in # 0 => process[job.in] # "none"
  /\ At("swap") \/ At("close") \/ At("fail") \/ Starting \/ Using => job.in # 0

(* A session that was never started has nobody to close it.                *)
UnstartedIsUnused ==
  \A s \in Sessions : process[s] = "none" =>
    closing[s] = "no" /\ retirer[s] = "none" /\ session[s].served = 0

(* So has a session that is being started, which has served no job.        *)
StartingIsFresh ==
  Starting => /\ closing[job.in] = "no" /\ retirer[job.in] = "none"
              /\ session[job.in].served = 0 /\ session[job.in].of = job.of

(* No other session than the job's becomes current while it runs.          *)
CurrentOfJob ==
  /\ Replacing \/ Starting \/ At("close") => current = 0
  /\ Using \/ At("fail") => current \in {0, job.in}

(* A session that was closed has no process; nor has one that was replaced.*)
ClosedIsGone ==
  /\ \A s \in Sessions : Closed(s) => process[s] = "gone"
  /\ At("spawn") /\ job.in # 0 => process[job.in] = "gone"
  /\ At("ensure") => job.in = 0

(* If the job's session is not current any more, it is being retired.      *)
LostIsRetired ==
  Using \/ At("fail") =>
    current = job.in \/ retirer[job.in] # "none" \/ process[job.in] = "gone"

(* A deadline is that of the idle period that is on.                       *)
DeadlineIsServed ==
  /\ \A s \in Sessions : session[s].deadline \in {0, session[s].served}
  /\ \A d \in due : d[2] # 0

IInv ==
  /\ TypeOK /\ CurrentIsFree /\ JobIsStarted /\ UnstartedIsUnused
  /\ StartingIsFresh /\ CurrentOfJob /\ ClosedIsGone /\ LostIsRetired
  /\ JobHasItsSession /\ NoOrphan /\ DeadlineIsServed
-----------------------------------------------------------------------------
USE WorkerSessionAssumption DEF Sessions

(* Types.                                                                  *)

JobType == [at : JobSteps, in : 0..MaxSessions, of : Identities]
SessionFields == [of : Identities, active : BOOLEAN,
                  served : 0..MaxJobs, deadline : 0..MaxJobs]

LEMMA SomeoneIsOne == Someone \in Identities
BY DEF Someone

LEMMA TypeInit == Init => TypeOK
<1> SUFFICES ASSUME Init PROVE TypeOK
  OBVIOUS
<1> USE SomeoneIsOne DEF Init
<1>1. job \in [at : JobSteps, in : 0..MaxSessions, of : Identities]
  BY DEF JobSteps
<1>2. session \in [Sessions -> SessionFields]
  BY DEF SessionFields
<1>3. output \in [Sessions -> Seq({"ready", "good", "bad"})]
  OBVIOUS
<1>4. /\ due \subseteq Sessions \X (0..MaxJobs)
      /\ retirer \in [Sessions -> {"none", "idle", "owner"}]
      /\ closing \in [Sessions -> {"no", "wait", "clean", "failed"}]
      /\ process \in [Sessions -> {"none", "running", "gone"}]
      /\ worker \in [Sessions ->
                       {"none", "starting", "idle", "working", "finishing"}]
  OBVIOUS
<1>5. ownerDone \in BOOLEAN /\ ownerSeen \in BOOLEAN /\ canceled \in BOOLEAN
      /\ retirementErr \in BOOLEAN
  BY Zenon
<1>6. current \in 0..MaxSessions /\ runs \in 0..MaxRuns
  OBVIOUS
<1> QED
  BY <1>1, <1>2, <1>3, <1>4, <1>5, <1>6, Zenon DEF TypeOK, SessionFields

(* A session whose flag and numbers change is a session.                   *)
LEMMA FieldsType ==
  ASSUME session \in [Sessions -> SessionFields], NEW s \in Sessions,
         NEW b \in BOOLEAN, NEW k \in 0..MaxJobs, NEW n \in 0..MaxJobs
  PROVE  /\ [session EXCEPT ![s].active = b] \in [Sessions -> SessionFields]
         /\ [session EXCEPT ![s].active = b, ![s].deadline = k]
              \in [Sessions -> SessionFields]
         /\ [session EXCEPT ![s] = [@ EXCEPT !.active = b, !.served = n,
                                            !.deadline = k]]
              \in [Sessions -> SessionFields]
<1>1. session[s] \in SessionFields
  OBVIOUS
<1>2. [session[s] EXCEPT !.active = b] \in SessionFields
  BY <1>1 DEF SessionFields
<1>3. [[session[s] EXCEPT !.active = b] EXCEPT !.deadline = k] \in SessionFields
  BY <1>2 DEF SessionFields
<1>4. [session[s] EXCEPT !.active = b, !.served = n, !.deadline = k] \in SessionFields
  BY <1>1 DEF SessionFields
<1> QED
  BY <1>2, <1>3, <1>4

(* Each operation on a session leaves a session.                           *)
LEMMA ForgetType ==
  ASSUME TypeOK, NEW s \in Sessions, Forget(s)
  PROVE  /\ current' \in 0..MaxSessions
         /\ session' \in [Sessions -> SessionFields]
         /\ due' \subseteq Sessions \X (0..MaxJobs)
<1>1. session \in [Sessions -> SessionFields] /\ 0 \in 0..MaxJobs
  BY DEF TypeOK, SessionFields
<1>2. session' \in [Sessions -> SessionFields]
  BY <1>1, FieldsType DEF Forget, Unused
<1> QED
  BY <1>2 DEF TypeOK, Forget, StopTimer

LEMMA BeginJobType ==
  ASSUME TypeOK, NEW s \in Sessions, BeginJob(s)
  PROVE  /\ session' \in [Sessions -> SessionFields]
         /\ due' \subseteq Sessions \X (0..MaxJobs)
<1>1. session \in [Sessions -> SessionFields] /\ 0 \in 0..MaxJobs
  BY DEF TypeOK, SessionFields
<1>2. session' \in [Sessions -> SessionFields]
  BY <1>1, FieldsType DEF BeginJob
<1> QED
  BY <1>2 DEF TypeOK, BeginJob, StopTimer

LEMMA GoType ==
  ASSUME TypeOK, NEW step \in JobSteps, NEW s \in 0..MaxSessions,
         Go(step) \/ GoIn(step, s)
  PROVE  job' \in JobType
BY DEF TypeOK, Go, GoIn, JobType
(* The other variables, by who writes them.                                *)
ScalarType ==
  /\ ownerDone \in BOOLEAN /\ ownerSeen \in BOOLEAN /\ canceled \in BOOLEAN
  /\ retirementErr \in BOOLEAN /\ current \in 0..MaxSessions /\ runs \in 0..MaxRuns
CloserType ==
  /\ due \subseteq Sessions \X (0..MaxJobs)
  /\ retirer \in [Sessions -> {"none", "idle", "owner"}]
  /\ closing \in [Sessions -> {"no", "wait", "clean", "failed"}]
ProcessType ==
  /\ process \in [Sessions -> {"none", "running", "gone"}]
  /\ worker \in [Sessions -> {"none", "starting", "idle", "working", "finishing"}]
  /\ output \in [Sessions -> Seq({"ready", "good", "bad"})]

LEMMA TypeParts ==
  TypeOK <=> /\ ScalarType /\ CloserType /\ ProcessType
             /\ job \in JobType /\ session \in [Sessions -> SessionFields]
BY DEF TypeOK, ScalarType, CloserType, ProcessType, JobType, SessionFields

LEMMA ReadType ==
  ASSUME ProcessType, NEW s \in Sessions, output[s] # <<>>, Read(s)
  PROVE  output' \in [Sessions -> Seq({"ready", "good", "bad"})]
<1>1. Tail(output[s]) \in Seq({"ready", "good", "bad"})
  BY DEF ProcessType
<1> QED
  BY <1>1 DEF ProcessType, Read

LEMMA ScalarStep == ASSUME TypeOK, [Next]_vars PROVE ScalarType'
<1> USE TypeParts DEF ScalarType, contextVars, managerVars, processVars
<1>1. CASE Begin
  <2>1. runs' \in 0..MaxRuns
    BY <1>1 DEF Begin
  <2> QED
    BY <1>1, <2>1, Zenon DEF Begin
<1>2. CASE Ensure \/ Swap \/ Spawn \/ Hello
  BY <1>2 DEF Ensure, Swap, Spawn, Hello, Forget
<1>3. CASE Publish \/ Send \/ Wait \/ Fail \/ Complete \/ Return
  BY <1>3 DEF Publish, Send, Wait, Fail, Forget, Complete, Return, JobType
<1>4. ASSUME NEW s \in Sessions, NEW k \in 0..MaxJobs, RetireIdle(s, k)
      PROVE  ScalarType'
  BY <1>4 DEF RetireIdle
<1>5. CASE RetireCurrent \/ CancelOwner \/ CancelJob
  <2>1. current' \in {0, current} /\ UNCHANGED <<retirementErr, runs>>
    BY <1>5 DEF RetireCurrent, CancelOwner, CancelJob, Forget
  <2>2. ownerDone' \in {ownerDone, TRUE} /\ ownerSeen' \in {ownerSeen, TRUE}
        /\ canceled' \in {canceled, TRUE}
    BY <1>5 DEF RetireCurrent, CancelOwner, CancelJob
  <2>3. current' \in 0..MaxSessions
    BY <2>1
  <2> QED
    BY <2>1, <2>2, <2>3, Zenon
<1>6. ASSUME NEW s \in Sessions, Retired(s) \/ CloseAndWait(s) \/ Works(s) \/ Exits(s)
      PROVE  ScalarType'
  BY <1>6 DEF Retired, CloseAndWait, CloseBegins, CloseEnds, Works, Exits
<1>7. CASE UNCHANGED vars
  BY <1>7 DEF vars
<1> QED
  BY <1>1, <1>2, <1>3, <1>4, <1>5, <1>6, <1>7 DEF Next, Run

LEMMA CloserStep ==
  ASSUME TypeOK, JobIsStarted, [Next]_vars PROVE CloserType'
<1> USE TypeParts DEF CloserType, contextVars, managerVars, processVars
<1>1. CASE Begin
  BY <1>1 DEF Begin
<1>2. CASE Ensure
  BY <1>2, ForgetType, BeginJobType DEF Ensure, ScalarType
<1>3. CASE Swap \/ Spawn \/ Hello \/ Publish \/ Send \/ Wait \/ Return
  BY <1>3 DEF Swap, Spawn, Hello, Publish, Send, Wait, Return
<1>4. CASE Fail
  <2>1. job.in \in Sessions
    BY <1>4 DEF Fail, JobIsStarted, JobType
  <2> QED
    BY <1>4, <2>1, ForgetType DEF Fail
<1>5. CASE Complete
  <2>1. job.in \in Sessions
    BY <1>5 DEF Complete, JobIsStarted, JobType, Using
  <2>2. session[job.in].served + 1 < MaxJobs
          => session[job.in].served + 1 \in 0..MaxJobs
    BY <2>1 DEF SessionFields
  <2> QED
    BY <1>5, <2>1, <2>2 DEF Complete, StopTimer
<1>6. ASSUME NEW s \in Sessions, NEW k \in 0..MaxJobs, RetireIdle(s, k)
      PROVE  CloserType'
  BY <1>6 DEF RetireIdle
<1>7. CASE RetireCurrent
  BY <1>7, ForgetType DEF RetireCurrent, ScalarType
<1>8. CASE CancelOwner \/ CancelJob
  BY <1>8 DEF CancelOwner, CancelJob
<1>9. ASSUME NEW s \in Sessions, Retired(s) \/ CloseAndWait(s) \/ Works(s) \/ Exits(s)
      PROVE  CloserType'
  BY <1>9 DEF Retired, CloseAndWait, CloseBegins, CloseEnds, Works, Exits
<1>10. CASE UNCHANGED vars
  BY <1>10 DEF vars
<1> QED
  BY <1>1, <1>2, <1>3, <1>4, <1>5, <1>6, <1>7, <1>8, <1>9, <1>10 DEF Next, Run
LEMMA ProcessStep == ASSUME TypeOK, JobIsStarted, [Next]_vars PROVE ProcessType'
<1> USE TypeParts DEF ProcessType, contextVars, managerVars, processVars
<1>1. CASE Begin \/ Ensure \/ Swap \/ Publish \/ Fail \/ Complete \/ Return
  BY <1>1 DEF Begin, Ensure, Swap, Publish, Fail, Complete, Return
<1>2. CASE Spawn
  BY <1>2 DEF Spawn
<1>3. CASE Hello \/ Wait
  <2>1. job.in \in Sessions
    BY <1>3 DEF Hello, Wait, JobIsStarted, JobType, Starting, Using
  <2> QED
    BY <1>3, <2>1, ReadType DEF Hello, Wait
<1>4. CASE Send
  BY <1>4 DEF Send
<1>5. ASSUME NEW s \in Sessions, NEW k \in 0..MaxJobs, RetireIdle(s, k)
      PROVE  ProcessType'
  BY <1>5 DEF RetireIdle
<1>6. CASE RetireCurrent \/ CancelOwner \/ CancelJob
  BY <1>6 DEF RetireCurrent, CancelOwner, CancelJob
<1>7. ASSUME NEW s \in Sessions, Works(s) PROVE ProcessType'
  <2>1. ASSUME NEW m \in {"ready", "good", "bad"},
               NEW next \in {"idle", "finishing"}, Says(s, m, next)
        PROVE  /\ worker' \in [Sessions ->
                       {"none", "starting", "idle", "working", "finishing"}]
               /\ output' \in [Sessions -> Seq({"ready", "good", "bad"})]
    <3>1. Append(output[s], m) \in Seq({"ready", "good", "bad"})
      OBVIOUS
    <3> QED
      BY <2>1, <3>1 DEF Says
  <2> QED
    BY <1>7, <2>1 DEF Works
<1>8. ASSUME NEW s \in Sessions, Retired(s) \/ CloseAndWait(s) \/ Exits(s)
      PROVE  ProcessType'
  BY <1>8 DEF Retired, CloseAndWait, CloseBegins, CloseEnds, Exits
<1>9. CASE UNCHANGED vars
  BY <1>9 DEF vars
<1> QED
  BY <1>1, <1>2, <1>3, <1>4, <1>5, <1>6, <1>7, <1>8, <1>9 DEF Next, Run

LEMMA JobStep == ASSUME TypeOK, JobIsStarted, [Next]_vars PROVE job' \in JobType
<1> USE TypeParts DEF contextVars, managerVars, processVars
<1>1. ASSUME NEW step \in JobSteps, NEW s \in 0..MaxSessions,
             Go(step) \/ GoIn(step, s)
      PROVE  job' \in JobType
  BY <1>1, GoType
<1>2. CASE Begin
  BY <1>2 DEF Begin, JobType, JobSteps
<1>3. CASE Ensure
  BY <1>1, <1>3 DEF Ensure, CloseReplaced, ScalarType, JobSteps
<1>4. CASE Swap \/ Spawn \/ Hello \/ Publish \/ Send
  BY <1>1, <1>4 DEF Swap, Spawn, Hello, Publish, Send, JobSteps
<1>5. CASE Wait \/ Fail \/ Complete \/ Return
  BY <1>1, <1>5 DEF Wait, Fail, Complete, Return, JobSteps
<1>6. ASSUME NEW s \in Sessions, NEW k \in 0..MaxJobs, RetireIdle(s, k)
      PROVE  job' \in JobType
  BY <1>6 DEF RetireIdle
<1>7. CASE RetireCurrent \/ CancelOwner \/ CancelJob
  BY <1>7 DEF RetireCurrent, CancelOwner, CancelJob
<1>8. ASSUME NEW s \in Sessions, Retired(s) \/ CloseAndWait(s) \/ Works(s) \/ Exits(s)
      PROVE  job' \in JobType
  BY <1>8 DEF Retired, CloseAndWait, CloseBegins, CloseEnds, Works, Exits
<1>9. CASE UNCHANGED vars
  BY <1>9 DEF vars
<1> QED
  BY <1>2, <1>3, <1>4, <1>5, <1>6, <1>7, <1>8, <1>9 DEF Next, Run

LEMMA SessionStep ==
  ASSUME TypeOK, JobIsStarted, JobHasItsSession, [Next]_vars
  PROVE  session' \in [Sessions -> SessionFields]
<1>0. session \in [Sessions -> SessionFields] /\ 0 \in 0..MaxJobs
  BY TypeParts
<1> USE TypeParts DEF contextVars, managerVars, processVars
<1>1. CASE Begin \/ Swap \/ Hello \/ Send \/ Wait \/ Return
  BY <1>1 DEF Begin, Swap, Hello, Send, Wait, Return
<1>2. CASE Ensure
  BY <1>2, ForgetType, BeginJobType DEF Ensure, ScalarType
<1>3. CASE Spawn
  <2>1. ASSUME NEW s \in Sessions, session' = [session EXCEPT ![s].of = job.of]
        PROVE  session' \in [Sessions -> SessionFields]
    BY <2>1 DEF SessionFields, JobType
  <2> QED
    BY <1>3, <2>1 DEF Spawn
<1>4. CASE Publish
  <2>1. job.in \in Sessions
    BY <1>4 DEF Publish, JobIsStarted, JobType, Starting
  <2>2. [session EXCEPT ![job.in].active = TRUE] \in [Sessions -> SessionFields]
    BY <1>0, <2>1, FieldsType
  <2> QED
    BY <1>4, <2>2 DEF Publish
<1>5. CASE Fail
  <2>1. job.in \in Sessions
    BY <1>5 DEF Fail, JobIsStarted, JobType
  <2> QED
    BY <1>5, <2>1, ForgetType DEF Fail
<1>6. CASE Complete
  <2>1. job.in \in Sessions
    BY <1>6 DEF Complete, JobIsStarted, JobType, Using
  <2>2. session[job.in].served < MaxJobs /\ session[job.in].served \in 0..MaxJobs
    BY <1>6, <2>1 DEF Complete, JobHasItsSession, SessionFields
  <2>3. session[job.in].served + 1 \in 0..MaxJobs /\ 0 \in 0..MaxJobs
    BY <2>2
  <2> DEFINE n == session[job.in].served + 1
             After(k) == [session EXCEPT ![job.in] =
                            [@ EXCEPT !.active = FALSE, !.served = n, !.deadline = k]]
  <2>4. After(0) \in [Sessions -> SessionFields]
        /\ After(n) \in [Sessions -> SessionFields]
    BY <1>0, <2>1, <2>3, FieldsType
  <2>5. session' \in {session, After(0), After(n)}
    BY <1>6 DEF Complete
  <2> QED
    BY <1>0, <2>4, <2>5
<1>7. ASSUME NEW s \in Sessions, NEW k \in 0..MaxJobs, RetireIdle(s, k)
      PROVE  session' \in [Sessions -> SessionFields]
  <2>1. Unused(s) \in [Sessions -> SessionFields]
    BY <1>0, FieldsType DEF Unused
  <2> QED
    BY <1>0, <1>7, <2>1 DEF RetireIdle
<1>8. CASE RetireCurrent
  BY <1>8, ForgetType DEF RetireCurrent, ScalarType
<1>9. CASE CancelOwner \/ CancelJob
  BY <1>9 DEF CancelOwner, CancelJob
<1>10. ASSUME NEW s \in Sessions, Retired(s) \/ CloseAndWait(s) \/ Works(s) \/ Exits(s)
       PROVE  session' \in [Sessions -> SessionFields]
  BY <1>10 DEF Retired, CloseAndWait, CloseBegins, CloseEnds, Works, Exits
<1>11. CASE UNCHANGED vars
  BY <1>11 DEF vars
<1> QED
  BY <1>1, <1>2, <1>3, <1>4, <1>5, <1>6, <1>7, <1>8, <1>9, <1>10, <1>11 DEF Next, Run
LEMMA TypeStep == IInv /\ [Next]_vars => TypeOK'
<1> SUFFICES ASSUME IInv, [Next]_vars PROVE TypeOK'
  OBVIOUS
<1>1. ScalarType' /\ CloserType' /\ ProcessType' /\ job' \in JobType
      /\ session' \in [Sessions -> SessionFields]
  BY ScalarStep, CloserStep, ProcessStep, JobStep, SessionStep DEF IInv
<1> QED
  BY <1>1 DEF TypeOK, ScalarType, CloserType, ProcessType, JobType, SessionFields
-----------------------------------------------------------------------------
(* What the steps do, apart from types.                                    *)

(* The steps of everyone but the job leave the job alone, and take the     *)
(* current session away from everyone or not at all.                       *)
Others ==
  \/ \E s \in Sessions, k \in 0..MaxJobs : RetireIdle(s, k)
  \/ RetireCurrent \/ CancelOwner \/ CancelJob
  \/ \E s \in Sessions : Retired(s) \/ CloseAndWait(s) \/ Works(s) \/ Exits(s)

LEMMA OthersFrame ==
  ASSUME TypeOK, Others \/ UNCHANGED vars
  PROVE  /\ UNCHANGED job /\ current' \in {0, current}
         /\ \A s \in Sessions : /\ session'[s].of = session[s].of
                                /\ session'[s].served = session[s].served
                                /\ session'[s].deadline \in {0, session[s].deadline}
         /\ due' \subseteq due
         /\ ownerDone => ownerDone'
<1> USE DEF contextVars, managerVars, processVars
<1>1. ASSUME NEW s \in Sessions, NEW r \in Sessions
      PROVE  /\ Unused(s)[r].of = session[r].of
             /\ Unused(s)[r].served = session[r].served
             /\ Unused(s)[r].deadline \in {0, session[r].deadline}
  BY DEF Unused, TypeOK
<1>2. ASSUME NEW s \in Sessions, NEW k \in 0..MaxJobs, RetireIdle(s, k)
      PROVE  /\ UNCHANGED <<job, ownerDone>> /\ current' \in {0, current}
             /\ session' \in {session, Unused(s)} /\ due' \subseteq due
  BY <1>2 DEF RetireIdle
<1>3. CASE RetireCurrent
  <2>1. UNCHANGED <<job, ownerDone>> /\ current' \in {0, current}
        /\ session' \in {session, Unused(current)} /\ due' \subseteq due
        /\ (current = 0 => session' = session)
    BY <1>3 DEF RetireCurrent, Forget, StopTimer
  <2> QED
    BY <1>1, <2>1 DEF TypeOK
<1>4. CASE CancelOwner \/ CancelJob
  BY <1>4 DEF CancelOwner, CancelJob
<1>5. ASSUME NEW s \in Sessions, Retired(s) \/ CloseAndWait(s) \/ Works(s) \/ Exits(s)
      PROVE  UNCHANGED <<job, current, session, due, ownerDone>>
  BY <1>5 DEF Retired, CloseAndWait, CloseBegins, CloseEnds, Works, Exits
<1>6. CASE UNCHANGED vars
  BY <1>6 DEF vars
<1> QED
  BY <1>1, <1>2, <1>3, <1>4, <1>5, <1>6 DEF Others

(* Who closes a session, and what becomes of its process.                  *)
LEMMA OthersClose ==
  ASSUME IInv, Others \/ UNCHANGED vars, NEW s \in Sessions
  PROVE  /\ closing'[s] = closing[s] \/ Closer(s) \/ closing[s] = "wait"
         /\ process'[s] = process[s]
              \/ /\ process'[s] = "gone"
                 /\ process[s] = "running" \/ closing[s] = "wait"
         /\ closing'[s] = closing[s] \/ closing'[s] = "wait" \/ process'[s] = "gone"
<1> USE DEF contextVars, managerVars, processVars
<1>1. /\ closing \in [Sessions -> {"no", "wait", "clean", "failed"}]
      /\ process \in [Sessions -> {"none", "running", "gone"}]
  BY DEF IInv, TypeOK
<1>2. CASE UNCHANGED <<closing, process>>
  BY <1>2
<1>3. ASSUME NEW r \in Sessions, NEW k \in 0..MaxJobs, RetireIdle(r, k)
      PROVE  UNCHANGED <<closing, process>>
  BY <1>3 DEF RetireIdle
<1>4. CASE RetireCurrent \/ CancelOwner \/ CancelJob
  BY <1>2, <1>4 DEF RetireCurrent, CancelOwner, CancelJob
<1>5. ASSUME NEW r \in Sessions, Retired(r) \/ Works(r)
      PROVE  UNCHANGED <<closing, process>>
  BY <1>5 DEF Retired, Works
<1>6. ASSUME NEW r \in Sessions, CloseBegins(r)
      PROVE  /\ UNCHANGED process /\ Closer(r)
             /\ closing' = [closing EXCEPT ![r] = "wait"]
  BY <1>6 DEF CloseBegins
<1>7. ASSUME NEW r \in Sessions, CloseEnds(r)
      PROVE  /\ closing[r] = "wait" /\ process'[r] = "gone"
             /\ \A q \in Sessions : q # r => closing'[q] = closing[q]
                                         /\ process'[q] = process[q]
  BY <1>1, <1>7 DEF CloseEnds
<1>8. ASSUME NEW r \in Sessions, Exits(r)
      PROVE  /\ UNCHANGED closing /\ process[r] = "running"
             /\ process' = [process EXCEPT ![r] = "gone"]
  BY <1>8 DEF Exits
<1>9. ASSUME NEW r \in Sessions, CloseAndWait(r) \/ Exits(r)
      PROVE  /\ closing'[s] = closing[s] \/ Closer(s) \/ closing[s] = "wait"
             /\ process'[s] = process[s]
                  \/ /\ process'[s] = "gone"
                     /\ process[s] = "running" \/ closing[s] = "wait"
             /\ closing'[s] = closing[s] \/ closing'[s] = "wait" \/ process'[s] = "gone"
  BY <1>1, <1>6, <1>7, <1>8, <1>9 DEF CloseAndWait
<1>10. CASE UNCHANGED vars
  BY <1>2, <1>10 DEF vars
<1> QED
  BY <1>2, <1>3, <1>4, <1>5, <1>9, <1>10 DEF Others

(* Who retires a session.                                                  *)
LEMMA OthersRetire ==
  ASSUME IInv, Others \/ UNCHANGED vars, NEW s \in Sessions
  PROVE  \/ /\ retirer'[s] = retirer[s]
                 \/ (process[s] = "gone" /\ retirer[s] # "none")
            /\ current' = current \/ current # s
         \/ current = s /\ current' = 0 /\ retirer'[s] # "none"
<1> USE DEF contextVars, managerVars, processVars
<1>1. retirer \in [Sessions -> {"none", "idle", "owner"}]
  BY DEF IInv, TypeOK
<1>2. CASE UNCHANGED <<retirer, current>>
  BY <1>2
<1>3. ASSUME NEW r \in Sessions, NEW k \in 0..MaxJobs, RetireIdle(r, k)
      PROVE  \/ UNCHANGED <<retirer, current>>
             \/ /\ current = r /\ current' = 0
                /\ retirer' = [retirer EXCEPT ![r] = "idle"]
  BY <1>3 DEF RetireIdle, MayRetire
<1>4. CASE RetireCurrent
  <2>1. \/ UNCHANGED <<retirer, current>>
        \/ /\ current # 0 /\ current' = 0
           /\ retirer' = [retirer EXCEPT ![current] = "owner"]
    BY <1>4 DEF RetireCurrent, Forget
  <2> QED
    BY <1>1, <1>2, <2>1
<1>5. CASE CancelOwner \/ CancelJob
  BY <1>2, <1>5 DEF CancelOwner, CancelJob
<1>6. ASSUME NEW r \in Sessions, Retired(r)
      PROVE  /\ UNCHANGED current /\ process[r] = "gone" /\ retirer[r] # "none"
             /\ retirer' = [retirer EXCEPT ![r] = "none"]
  BY <1>6 DEF Retired, IInv, ClosedIsGone
<1>7. ASSUME NEW r \in Sessions, CloseAndWait(r) \/ Works(r) \/ Exits(r)
      PROVE  UNCHANGED <<retirer, current>>
  BY <1>7 DEF CloseAndWait, CloseBegins, CloseEnds, Works, Exits
<1>8. CASE UNCHANGED vars
  BY <1>2, <1>8 DEF vars
<1>9. ASSUME NEW r \in Sessions, NEW k \in 0..MaxJobs, RetireIdle(r, k) \/ Retired(r)
      PROVE  \/ /\ retirer'[s] = retirer[s]
                 \/ (process[s] = "gone" /\ retirer[s] # "none")
                /\ current' = current \/ current # s
             \/ current = s /\ current' = 0 /\ retirer'[s] # "none"
  BY <1>1, <1>3, <1>6, <1>9
<1>10. 0 \in 0..MaxJobs
  OBVIOUS
<1> QED
  BY <1>2, <1>4, <1>5, <1>7, <1>8, <1>9, <1>10 DEF Others
(* Only the owner's end takes a session away that is in use.               *)
LEMMA OthersSpare ==
  ASSUME IInv, Others \/ UNCHANGED vars, current # 0, session[current].active,
         ~ownerDone'
  PROVE  current' = current /\ session'[current].active
<1> USE DEF contextVars, managerVars, processVars
<1>1. ASSUME NEW r \in Sessions, NEW k \in 0..MaxJobs, RetireIdle(r, k)
      PROVE  UNCHANGED <<session, current>>
  BY <1>1 DEF RetireIdle, MayRetire
<1>2. ~RetireCurrent
  BY DEF RetireCurrent
<1>3. CASE CancelOwner \/ CancelJob
  BY <1>3 DEF CancelOwner, CancelJob
<1>4. ASSUME NEW r \in Sessions, Retired(r) \/ CloseAndWait(r) \/ Works(r) \/ Exits(r)
      PROVE  UNCHANGED <<session, current>>
  BY <1>4 DEF Retired, CloseAndWait, CloseBegins, CloseEnds, Works, Exits
<1>5. CASE UNCHANGED vars
  BY <1>5 DEF vars
<1> QED
  BY <1>1, <1>2, <1>3, <1>4, <1>5 DEF Others

LEMMA OthersKeep ==
  ASSUME IInv, TypeOK', Others \/ UNCHANGED vars
  PROVE  IInv'
<1>1. /\ current \in 0..MaxSessions /\ job \in JobType
      /\ current # 0 => current \in Sessions
      /\ job.in \in 0..MaxSessions /\ (job.in # 0 => job.in \in Sessions)
  BY DEF IInv, TypeOK, JobType
<1>2. UNCHANGED job /\ current' \in {0, current} /\ (ownerDone => ownerDone')
  BY OthersFrame DEF IInv
<1>3. current # 0 => ~Closer(current)
  BY DEF IInv, CurrentIsFree, Closer, CurrentOfJob, Replacing
<1>4. ASSUME current # 0, current' = current PROVE closing'[current] = "no"
  BY <1>1, <1>3, <1>4, OthersClose DEF IInv, CurrentIsFree
<1>5. CurrentIsFree'
  <2> SUFFICES ASSUME current' # 0
               PROVE  /\ process'[current] # "none" /\ closing'[current] = "no"
                      /\ retirer'[current] = "none"
                      /\ session'[current].served < MaxJobs
    BY <1>2 DEF CurrentIsFree
  <2>1. current # 0 /\ current' = current
    BY <1>2
  <2>2. process'[current] # "none"
    BY <1>1, <2>1, OthersClose DEF IInv, CurrentIsFree
  <2>3. retirer'[current] = "none"
    BY <1>1, <2>1, OthersRetire DEF IInv, CurrentIsFree
  <2>4. session'[current].served < MaxJobs
    BY <1>1, <2>1, OthersFrame DEF IInv, CurrentIsFree
  <2> QED
    BY <1>4, <2>1, <2>2, <2>3, <2>4
<1>6. \A s \in Sessions : process[s] # "none" => process'[s] # "none"
  BY OthersClose
<1>7. JobIsStarted'
  BY <1>1, <1>2, <1>6 DEF IInv, JobIsStarted, At, Starting, Using
<1>8. UnstartedIsUnused'
  <2> SUFFICES ASSUME NEW s \in Sessions, process'[s] = "none"
               PROVE  closing'[s] = "no" /\ retirer'[s] = "none"
                      /\ session'[s].served = 0
    BY DEF UnstartedIsUnused
  <2>1. process[s] = "none"
    BY <1>6
  <2>2. closing[s] = "no" /\ retirer[s] = "none" /\ session[s].served = 0
    BY <2>1 DEF IInv, UnstartedIsUnused
  <2>3. ~Closer(s) /\ current # s
    BY <1>1, <2>1, <2>2 DEF IInv, Closer, JobIsStarted, CurrentIsFree
  <2>4. closing'[s] = "no"
    BY <2>2, <2>3, OthersClose
  <2>5. retirer'[s] = "none"
    BY <2>1, <2>2, <2>3, OthersRetire
  <2> QED
    BY <2>2, <2>4, <2>5, OthersFrame DEF IInv
<1>9. StartingIsFresh'
  <2> SUFFICES ASSUME Starting
               PROVE  /\ closing'[job.in] = "no" /\ retirer'[job.in] = "none"
                      /\ session'[job.in].served = 0
                      /\ session'[job.in].of = job.of
    BY <1>2 DEF StartingIsFresh, Starting, At
  <2>1. job.in \in Sessions /\ current = 0
    BY <1>1 DEF IInv, JobIsStarted, CurrentOfJob
  <2>2. closing[job.in] = "no" /\ retirer[job.in] = "none"
        /\ session[job.in].served = 0 /\ session[job.in].of = job.of
    BY DEF IInv, StartingIsFresh
  <2>3. ~Closer(job.in)
    BY <2>2 DEF Closer, Starting, At
  <2>4. closing'[job.in] = "no"
    BY <2>1, <2>2, <2>3, OthersClose
  <2>5. retirer'[job.in] = "none"
    BY <2>1, <2>2, OthersRetire
  <2> QED
    BY <2>1, <2>2, <2>4, <2>5, OthersFrame DEF IInv
<1>10. CurrentOfJob'
  BY <1>2 DEF IInv, CurrentOfJob, Replacing, Starting, Using, At
<1>11. \A s \in Sessions : process[s] = "gone" => process'[s] = "gone"
  BY OthersClose
<1>12. ClosedIsGone'
  <2>1. ASSUME NEW s \in Sessions, Closed(s)' PROVE process'[s] = "gone"
    BY <1>11, <2>1, OthersClose DEF IInv, ClosedIsGone, Closed
  <2> QED
    BY <1>1, <1>2, <1>11, <2>1 DEF IInv, ClosedIsGone, At
<1>13. LostIsRetired'
  <2> SUFFICES ASSUME Using \/ At("fail")
               PROVE  current' = job.in \/ retirer'[job.in] # "none"
                      \/ process'[job.in] = "gone"
    BY <1>2 DEF LostIsRetired, Using, At
  <2>1. job.in \in Sessions
    BY <1>1 DEF IInv, JobIsStarted
  <2>2. current = job.in \/ retirer[job.in] # "none" \/ process[job.in] = "gone"
    BY DEF IInv, LostIsRetired
  <2> QED
    BY <1>11, <2>1, <2>2, OthersRetire
<1>14. JobHasItsSession'
  <2> SUFFICES ASSUME Using
               PROVE  /\ session'[job.in].of = job.of
                      /\ session'[job.in].served < MaxJobs
                      /\ ~ownerDone' => /\ current' = job.in /\ session'[job.in].active
                                        /\ closing'[job.in] = "no"
    BY <1>2 DEF JobHasItsSession, Using, At
  <2>1. job.in \in Sessions
    BY <1>1 DEF IInv, JobIsStarted
  <2>2. session[job.in].of = job.of /\ session[job.in].served < MaxJobs
    BY DEF IInv, JobHasItsSession, Using
  <2>3. ASSUME ~ownerDone'
        PROVE  current' = job.in /\ session'[job.in].active /\ closing'[job.in] = "no"
    <3>1. current = job.in /\ session[job.in].active
      BY <1>2, <2>3 DEF IInv, JobHasItsSession, Using
    <3>2. current' = current /\ session'[current].active
      BY <2>1, <2>3, <3>1, OthersSpare
    <3> QED
      BY <1>4, <2>1, <3>1, <3>2
  <2> QED
    BY <2>1, <2>2, <2>3, OthersFrame DEF IInv
<1>15. NoOrphan'
  <2> SUFFICES ASSUME NEW s \in Sessions, process'[s] = "running", current' # s
               PROVE  Closer(s)' \/ (job.in = s /\ ~At("over"))
    BY <1>2 DEF NoOrphan, At
  <2>1. process[s] = "running"
    BY OthersClose
  <2>2. CASE current # s
    <3>1. Closer(s) \/ (job.in = s /\ ~At("over"))
      BY <2>1, <2>2 DEF IInv, NoOrphan
    <3>2. retirer'[s] = retirer[s]
      BY <2>1, <2>2, OthersRetire
    <3> QED
      BY <1>2, <3>1, <3>2 DEF Closer, At
  <2>3. CASE current = s
    BY <2>3, OthersRetire DEF Closer
  <2> QED
    BY <2>2, <2>3
<1>16. DeadlineIsServed'
  BY OthersFrame DEF IInv, DeadlineIsServed
<1> QED
  BY <1>5, <1>7, <1>8, <1>9, <1>10, <1>12, <1>13, <1>14, <1>15, <1>16 DEF IInv-----------------------------------------------------------------------------
(* The steps of the job.                                                   *)

LEMMA GoIs ==
  ASSUME TypeOK, NEW step, NEW s
  PROVE  /\ Go(step) => job'.at = step /\ job'.in = job.in /\ job'.of = job.of
         /\ GoIn(step, s) => job'.at = step /\ job'.in = s /\ job'.of = job.of
BY DEF TypeOK, Go, GoIn

LEMMA SessionsAre ==
  ASSUME TypeOK
  PROVE  /\ current \in 0..MaxSessions /\ (current # 0 => current \in Sessions)
         /\ job.in \in 0..MaxSessions /\ (job.in # 0 => job.in \in Sessions)
BY DEF TypeOK

(* A step that changes no session, no closer and no process, and moves the *)
(* job only: what is left to show concerns the job.                        *)
JobParts ==
  /\ JobIsStarted /\ StartingIsFresh /\ CurrentOfJob /\ LostIsRetired
  /\ JobHasItsSession
  /\ At("spawn") /\ job.in # 0 => process[job.in] = "gone"
  /\ At("ensure") => job.in = 0

LEMMA QuietKeep ==
  ASSUME IInv, TypeOK', JobParts',
         UNCHANGED <<current, session, due, retirer, closing, process, ownerDone>>,
         \/ job'.in = job.in /\ job'.at # "over" /\ ~(At("swap") /\ job'.at = "spawn")
         \/ At("over") \/ At("ensure") \/ At("spawn")
         \/ (At("swap") \/ At("close")) /\ Closed(job.in)
  PROVE  IInv'
<1> USE DEF At
<1>1. CurrentIsFree'
  BY DEF IInv, CurrentIsFree
<1>2. UnstartedIsUnused'
  BY DEF IInv, UnstartedIsUnused
<1>3. ClosedIsGone'
  BY DEF IInv, ClosedIsGone, Closed, JobParts
<1>4. NoOrphan'
  <2> SUFFICES ASSUME NEW s \in Sessions, process[s] = "running", current # s
               PROVE  retirer[s] # "none" \/ (job'.in = s /\ job'.at # "over")
    BY DEF NoOrphan, Closer
  <2>1. retirer[s] # "none" \/ (job.in = s /\ ~At("over"))
    BY DEF IInv, NoOrphan, Closer
  <2>2. ~Closed(s) /\ (At("ensure") \/ At("spawn") => job.in # s)
    BY DEF IInv, ClosedIsGone
  <2> QED
    BY <2>1, <2>2
<1>5. DeadlineIsServed'
  BY DEF IInv, DeadlineIsServed
<1> QED
  BY <1>1, <1>2, <1>3, <1>4, <1>5 DEF JobParts, IInv
LEMMA QuietStep ==
  ASSUME IInv, TypeOK', Begin \/ Swap \/ Hello \/ Send \/ Wait \/ Return
  PROVE  IInv'
<1> USE DEF contextVars, managerVars, processVars
<1> DEFINE Same == UNCHANGED <<current, session, due, retirer, closing, process, ownerDone>>
<1>1. CASE Begin
  <2>1. Same /\ At("over") /\ job' \in {job} \cup [at : {"ensure"}, in : {0}, of : Identities]
    BY <1>1 DEF Begin
  <2>2. JobParts'
    BY <2>1 DEF JobParts, IInv, JobIsStarted, StartingIsFresh, CurrentOfJob, LostIsRetired,
                JobHasItsSession, Replacing, Starting, Using, At
  <2> QED
    BY <2>1, <2>2, QuietKeep
<1>2. CASE Swap
  <2>1. Same /\ At("swap") /\ Closed(job.in) /\ job'.at \in {"over", "spawn"}
        /\ job'.in = job.in
    BY <1>2, GoIs DEF Swap, IInv
  <2>2. process[job.in] = "gone" /\ current = 0
    BY <2>1, SessionsAre DEF IInv, ClosedIsGone, JobIsStarted, CurrentOfJob, Replacing
  <2>3. JobParts'
    BY <2>1, <2>2 DEF JobParts, IInv, JobIsStarted, StartingIsFresh, CurrentOfJob,
                      LostIsRetired, JobHasItsSession, Replacing, Starting, Using, At
  <2> QED
    BY <2>1, <2>3, QuietKeep
<1>3. CASE Hello
  <2>1. Same /\ At("hello") /\ job'.at \in {"publish", "close"}
        /\ job'.in = job.in /\ job'.of = job.of
    BY <1>3, GoIs DEF Hello, IInv
  <2>2. JobParts'
    BY <2>1 DEF JobParts, IInv, JobIsStarted, StartingIsFresh, CurrentOfJob, LostIsRetired,
                JobHasItsSession, Replacing, Starting, Using, At
  <2> QED
    BY <2>1, <2>2, QuietKeep DEF At
<1>4. CASE Send \/ Wait
  <2>1. Same /\ (At("send") \/ At("wait") \/ At("result"))
        /\ job'.at \in {"wait", "result", "complete", "fail"}
        /\ job'.in = job.in /\ job'.of = job.of
    BY <1>4, GoIs DEF Send, Wait, IInv
  <2>2. JobParts'
    BY <2>1 DEF JobParts, IInv, JobIsStarted, StartingIsFresh, CurrentOfJob, LostIsRetired,
                JobHasItsSession, Replacing, Starting, Using, At
  <2> QED
    BY <2>1, <2>2, QuietKeep DEF At
<1>5. CASE Return
  <2>1. Same /\ At("close") /\ Closed(job.in) /\ job'.at = "over" /\ job'.in = job.in
    BY <1>5, GoIs DEF Return, IInv
  <2>2. JobParts'
    BY <2>1 DEF JobParts, IInv, JobIsStarted, StartingIsFresh, CurrentOfJob, LostIsRetired,
                JobHasItsSession, Replacing, Starting, Using, At
  <2> QED
    BY <2>1, <2>2, QuietKeep DEF At
<1> QED
  BY <1>1, <1>2, <1>3, <1>4, <1>5
(* A step that changes flags and deadlines of sessions, or counts a job.   *)
LEMMA FlagsKeep ==
  ASSUME IInv, TypeOK', UNCHANGED <<retirer, closing, process, ownerDone>>,
         current' \in {0, current}, due' \subseteq due,
         \A s \in Sessions : /\ session'[s].served = session[s].served
                            /\ session'[s].deadline \in {0, session[s].deadline},
         JobParts', NoOrphan'
  PROVE  IInv'
<1>1. CurrentIsFree'
  BY SessionsAre DEF IInv, CurrentIsFree
<1>2. UnstartedIsUnused'
  BY DEF IInv, UnstartedIsUnused
<1>3. ClosedIsGone'
  BY DEF IInv, ClosedIsGone, Closed, JobParts
<1>4. DeadlineIsServed'
  BY DEF IInv, DeadlineIsServed
<1> QED
  BY <1>1, <1>2, <1>3, <1>4 DEF JobParts, IInv

LEMMA FlagsAre ==
  ASSUME TypeOK, NEW s \in Sessions, BeginJob(s) \/ Forget(s)
  PROVE  /\ due' \subseteq due
         /\ \A r \in Sessions : /\ session'[r].of = session[r].of
                                /\ session'[r].served = session[r].served
                                /\ session'[r].deadline \in {0, session[r].deadline}
         /\ BeginJob(s) => session'[s].active
         /\ Forget(s) => current' = IF current = s THEN 0 ELSE current
<1>1. CASE BeginJob(s)
  BY <1>1 DEF TypeOK, BeginJob, StopTimer, Forget
<1>2. CASE Forget(s)
  BY <1>2 DEF TypeOK, Forget, StopTimer, Unused, BeginJob
<1> QED
  BY <1>1, <1>2

LEMMA EnsureStep == ASSUME IInv, TypeOK', Ensure PROVE IInv'
<1> USE DEF contextVars, managerVars, processVars
<1> DEFINE Same == UNCHANGED <<current, session, due>>
<1>1. /\ At("ensure") /\ job.in = 0 /\ TypeOK
      /\ UNCHANGED <<retirer, closing, process, ownerDone>>
  BY DEF Ensure, IInv, ClosedIsGone
<1>2. \/ Same /\ Go("over")
      \/ Same /\ current = 0 /\ GoIn("spawn", 0)
      \/ /\ current # 0 /\ session[current].of = job.of
         /\ BeginJob(current) /\ GoIn("send", current) /\ UNCHANGED current
      \/ current # 0 /\ Forget(current) /\ GoIn("swap", current)
  BY DEF Ensure, CloseReplaced
<1>3. CASE Same /\ (Go("over") \/ (current = 0 /\ GoIn("spawn", 0)))
  <2>1. job'.in = 0 /\ (job'.at = "over" \/ (job'.at = "spawn" /\ current = 0))
    BY <1>1, <1>3, GoIs
  <2>2. JobParts'
    BY <1>1, <1>3, <2>1 DEF JobParts, JobIsStarted, StartingIsFresh, CurrentOfJob,
         LostIsRetired, JobHasItsSession, Replacing, Starting, Using, At
  <2> QED
    BY <1>1, <1>3, <2>2, QuietKeep
<1>4. CASE /\ current # 0 /\ session[current].of = job.of
           /\ BeginJob(current) /\ GoIn("send", current) /\ UNCHANGED current
  <2>1. job'.at = "send" /\ job'.in = current /\ job'.of = job.of
    BY <1>1, <1>4, GoIs
  <2>2. current \in Sessions
    BY <1>1, <1>4, SessionsAre
  <2>3. /\ due' \subseteq due /\ session'[current].active
        /\ \A r \in Sessions : /\ session'[r].of = session[r].of
                               /\ session'[r].served = session[r].served
                               /\ session'[r].deadline \in {0, session[r].deadline}
    BY <1>1, <1>4, <2>2, FlagsAre
  <2>4. process[current] # "none" /\ closing[current] = "no"
        /\ session[current].served < MaxJobs
    BY <1>4 DEF IInv, CurrentIsFree
  <2>5. JobParts'
    BY <1>1, <1>4, <2>1, <2>2, <2>3, <2>4
       DEF JobParts, JobIsStarted, StartingIsFresh, CurrentOfJob,
           LostIsRetired, JobHasItsSession, Replacing, Starting, Using, At
  <2>6. NoOrphan'
    BY <1>1, <1>4, <2>1 DEF IInv, NoOrphan, Closer, At
  <2> QED
    BY <1>1, <1>4, <2>3, <2>5, <2>6, FlagsKeep
<1>5. CASE current # 0 /\ Forget(current) /\ GoIn("swap", current)
  <2>1. job'.at = "swap" /\ job'.in = current /\ job'.of = job.of
    BY <1>1, <1>5, GoIs
  <2>2. current \in Sessions
    BY <1>1, <1>5, SessionsAre
  <2>3. /\ due' \subseteq due /\ current' = 0
        /\ \A r \in Sessions : /\ session'[r].of = session[r].of
                               /\ session'[r].served = session[r].served
                               /\ session'[r].deadline \in {0, session[r].deadline}
    BY <1>1, <1>5, <2>2, FlagsAre
  <2>4. process[current] # "none"
    BY <1>5 DEF IInv, CurrentIsFree
  <2>5. JobParts'
    BY <1>1, <2>1, <2>2, <2>3, <2>4
       DEF JobParts, JobIsStarted, StartingIsFresh, CurrentOfJob,
           LostIsRetired, JobHasItsSession, Replacing, Starting, Using, At
  <2>6. NoOrphan'
    BY <1>1, <1>5, <2>1, <2>3 DEF IInv, NoOrphan, Closer, At
  <2> QED
    BY <1>1, <2>3, <2>5, <2>6, FlagsKeep
<1> QED
  BY <1>2, <1>3, <1>4, <1>5
LEMMA SpawnStep == ASSUME IInv, TypeOK', Spawn PROVE IInv'
<1> USE DEF contextVars, managerVars, processVars
<1>1. At("spawn") /\ current = 0 /\ TypeOK
      /\ UNCHANGED <<current, due, retirer, closing, ownerDone>>
  BY DEF Spawn, IInv, CurrentOfJob, Replacing
<1>2. CASE Go("over") /\ UNCHANGED <<process, session>>
  <2>1. job'.at = "over" /\ job'.in = job.in
    BY <1>1, <1>2, GoIs
  <2>2. JobParts'
    BY <1>1, <1>2, <2>1 DEF IInv, JobParts, JobIsStarted, StartingIsFresh, CurrentOfJob,
         LostIsRetired, JobHasItsSession, Replacing, Starting, Using, At
  <2> QED
    BY <1>1, <1>2, <2>2, QuietKeep
<1>3. ASSUME NEW s \in Sessions, process[s] = "none",
             process' = [process EXCEPT ![s] = "running"],
             session' = [session EXCEPT ![s].of = job.of],
             GoIn("hello", s)
      PROVE  IInv'
  <2>1. job'.at = "hello" /\ job'.in = s /\ job'.of = job.of
    BY <1>1, <1>3, GoIs
  <2>2. /\ process'[s] = "running" /\ session'[s].of = job.of
        /\ \A r \in Sessions : r # s => process'[r] = process[r]
        /\ \A r \in Sessions : /\ session'[r].served = session[r].served
                               /\ session'[r].deadline = session[r].deadline
    BY <1>1, <1>3 DEF TypeOK
  <2>3. closing[s] = "no" /\ retirer[s] = "none" /\ session[s].served = 0
    BY <1>3 DEF IInv, UnstartedIsUnused
  <2>4. CurrentIsFree' /\ UnstartedIsUnused' /\ DeadlineIsServed'
    BY <1>1, <2>2 DEF IInv, CurrentIsFree, UnstartedIsUnused, DeadlineIsServed
  <2>5. ClosedIsGone'
    <3>1. ASSUME NEW r \in Sessions, Closed(r)' PROVE process'[r] = "gone"
      BY <1>1, <2>2, <2>3, <3>1 DEF IInv, ClosedIsGone, Closed
    <3> QED
      BY <2>1, <3>1 DEF ClosedIsGone, At
  <2>6. JobIsStarted' /\ StartingIsFresh' /\ CurrentOfJob' /\ LostIsRetired'
        /\ JobHasItsSession'
    BY <1>1, <2>1, <2>2, <2>3
       DEF JobIsStarted, StartingIsFresh, CurrentOfJob, LostIsRetired,
           JobHasItsSession, Replacing, Starting, Using, At
  <2>7. NoOrphan'
    <3> SUFFICES ASSUME NEW r \in Sessions, r # s, process[r] = "running"
                 PROVE  retirer[r] # "none"
      BY <1>1, <2>1, <2>2 DEF NoOrphan, Closer, At
    <3>1. job.in # r
      BY <1>1 DEF IInv, ClosedIsGone
    <3> QED
      BY <1>1, <3>1 DEF IInv, NoOrphan, Closer
  <2> QED
    BY <2>4, <2>5, <2>6, <2>7 DEF IInv
<1> QED
  BY <1>2, <1>3 DEF Spawn

LEMMA PublishStep == ASSUME IInv, TypeOK', Publish PROVE IInv'
<1> USE DEF contextVars, managerVars, processVars
<1>1. At("publish") /\ current = 0 /\ TypeOK /\ job.in \in Sessions
      /\ UNCHANGED <<due, retirer, closing, process, ownerDone>> /\ current' = job.in
  BY SessionsAre DEF Publish, IInv, CurrentOfJob, JobIsStarted, Starting
<1>2. job'.at = "send" /\ job'.in = job.in /\ job'.of = job.of
  BY <1>1, GoIs DEF Publish
<1>3. /\ session'[job.in].active
      /\ \A r \in Sessions : /\ session'[r].served = session[r].served
                             /\ session'[r].deadline = session[r].deadline
                             /\ session'[r].of = session[r].of
  BY <1>1 DEF Publish, TypeOK
<1>4. /\ process[job.in] # "none" /\ closing[job.in] = "no" /\ retirer[job.in] = "none"
      /\ session[job.in].served = 0 /\ session[job.in].of = job.of
  BY <1>1 DEF IInv, StartingIsFresh, Starting, JobIsStarted
<1>5. CurrentIsFree' /\ UnstartedIsUnused' /\ DeadlineIsServed'
  BY <1>1, <1>3, <1>4 DEF IInv, CurrentIsFree, UnstartedIsUnused, DeadlineIsServed
<1>6. ClosedIsGone'
  BY <1>1, <1>2 DEF IInv, ClosedIsGone, Closed, At
<1>7. JobIsStarted' /\ StartingIsFresh' /\ CurrentOfJob' /\ LostIsRetired'
      /\ JobHasItsSession'
  BY <1>1, <1>2, <1>3, <1>4
     DEF JobIsStarted, StartingIsFresh, CurrentOfJob, LostIsRetired,
         JobHasItsSession, Replacing, Starting, Using, At
<1>8. NoOrphan'
  BY <1>1, <1>2 DEF IInv, NoOrphan, Closer, At
<1> QED
  BY <1>5, <1>6, <1>7, <1>8 DEF IInv

LEMMA FailStep == ASSUME IInv, TypeOK', Fail PROVE IInv'
<1> USE DEF contextVars, managerVars, processVars
<1>1. At("fail") /\ current \in {0, job.in} /\ TypeOK /\ job.in \in Sessions
      /\ UNCHANGED <<retirer, closing, process, ownerDone>> /\ Forget(job.in)
  BY SessionsAre DEF Fail, IInv, CurrentOfJob, JobIsStarted
<1>2. job'.at = "close" /\ job'.in = job.in /\ job'.of = job.of
  BY <1>1, GoIs DEF Fail
<1>3. /\ due' \subseteq due /\ current' = 0
      /\ \A r \in Sessions : /\ session'[r].of = session[r].of
                             /\ session'[r].served = session[r].served
                             /\ session'[r].deadline \in {0, session[r].deadline}
  BY <1>1, FlagsAre
<1>4. JobParts'
  BY <1>1, <1>2, <1>3
     DEF IInv, JobParts, JobIsStarted, StartingIsFresh, CurrentOfJob, LostIsRetired,
         JobHasItsSession, Replacing, Starting, Using, At
<1>5. NoOrphan'
  BY <1>1, <1>2, <1>3 DEF IInv, NoOrphan, Closer, At
<1> QED
  BY <1>1, <1>3, <1>4, <1>5, FlagsKeep

LEMMA CompleteStep == ASSUME IInv, TypeOK', Complete PROVE IInv'
<1> USE DEF contextVars, managerVars, processVars
<1> DEFINE n == session[job.in].served + 1
           After(k) == [session EXCEPT ![job.in] =
                          [@ EXCEPT !.active = FALSE, !.served = n, !.deadline = k]]
<1>1. At("complete") /\ current \in {0, job.in} /\ TypeOK /\ job.in \in Sessions
      /\ UNCHANGED <<retirer, closing, process, ownerDone>>
      /\ session[job.in].served \in 0..MaxJobs
  BY SessionsAre DEF Complete, IInv, CurrentOfJob, JobIsStarted, Using, TypeOK
<1>2. /\ process[job.in] # "none"
      /\ current = job.in \/ retirer[job.in] # "none" \/ process[job.in] = "gone"
  BY <1>1 DEF IInv, JobIsStarted, LostIsRetired, Using
<1>3. CASE current # job.in /\ Go("over") /\ UNCHANGED <<current, session, due>>
  <2>1. job'.at = "over" /\ job'.in = job.in
    BY <1>1, <1>3, GoIs
  <2>2. JobParts'
    BY <1>1, <1>3, <2>1
       DEF IInv, JobParts, JobIsStarted, StartingIsFresh, CurrentOfJob, LostIsRetired,
           JobHasItsSession, Replacing, Starting, Using, At
  <2>3. NoOrphan'
    BY <1>1, <1>2, <1>3, <2>1 DEF IInv, NoOrphan, Closer, At
  <2> QED
    BY <1>1, <1>3, <2>2, <2>3, FlagsKeep
<1>4. ASSUME NEW k \in {0, n}, session' = After(k),
             current = job.in, current' \in {0, job.in},
             current' # 0 => n < MaxJobs,
             due' \subseteq due \cup {<<job.in, n>>},
             Go(IF current' = 0 THEN "close" ELSE "over")
      PROVE  IInv'
  <2>1. job'.at = (IF current' = 0 THEN "close" ELSE "over") /\ job'.in = job.in
    BY <1>1, <1>4, GoIs
  <2>2. /\ session'[job.in].served = n /\ session'[job.in].deadline = k
        /\ \A r \in Sessions : r # job.in => session'[r] = session[r]
    BY <1>1, <1>4 DEF TypeOK
  <2>3. closing[job.in] = "no" /\ retirer[job.in] = "none"
    BY <1>1, <1>4 DEF IInv, CurrentIsFree
  <2>4. CurrentIsFree' /\ UnstartedIsUnused'
    BY <1>1, <1>2, <1>4, <2>2, <2>3 DEF IInv, CurrentIsFree, UnstartedIsUnused
  <2>5. DeadlineIsServed'
    <3>1. ASSUME NEW r \in Sessions
          PROVE  session'[r].deadline \in {0, session'[r].served}
      BY <1>4, <2>2 DEF IInv, DeadlineIsServed
    <3>2. ASSUME NEW d \in due' PROVE d[2] # 0
      BY <1>1, <1>4 DEF IInv, DeadlineIsServed
    <3> QED
      BY <3>1, <3>2 DEF DeadlineIsServed
  <2>6. ClosedIsGone'
    BY <1>1, <2>1 DEF IInv, ClosedIsGone, Closed, At
  <2>7. JobIsStarted' /\ StartingIsFresh' /\ CurrentOfJob' /\ LostIsRetired'
        /\ JobHasItsSession'
    BY <1>1, <1>2, <1>4, <2>1
       DEF JobIsStarted, StartingIsFresh, CurrentOfJob, LostIsRetired,
           JobHasItsSession, Replacing, Starting, Using, At
  <2>8. NoOrphan'
    BY <1>1, <1>4, <2>1 DEF IInv, NoOrphan, Closer, At
  <2> QED
    BY <2>4, <2>5, <2>6, <2>7, <2>8 DEF IInv
<1>5. CASE current = job.in /\ n < MaxJobs
  <2>1. session' = After(n) /\ due' = due \cup {<<job.in, n>>} /\ Go("over")
        /\ current' = job.in
    BY <1>5 DEF Complete
  <2> QED
    BY <1>1, <1>4, <1>5, <2>1
<1>6. CASE current = job.in /\ ~(n < MaxJobs)
  <2>1. session' = After(0) /\ due' \subseteq due /\ Go("close") /\ current' = 0
    BY <1>6 DEF Complete, StopTimer
  <2> QED
    BY <1>1, <1>4, <1>6, <2>1
<1> QED
  BY <1>3, <1>5, <1>6 DEF Complete-----------------------------------------------------------------------------
(* The invariant and what follows from it.                                 *)

LEMMA InvInit == Init => IInv
<1> SUFFICES ASSUME Init PROVE IInv
  OBVIOUS
<1>1. TypeOK
  BY TypeInit
<1>2. CurrentIsFree /\ JobIsStarted /\ StartingIsFresh /\ CurrentOfJob /\ LostIsRetired
      /\ JobHasItsSession
  BY DEF Init, CurrentIsFree, JobIsStarted, StartingIsFresh, CurrentOfJob, LostIsRetired,
         JobHasItsSession, Replacing, Starting, Using, At
<1>3. UnstartedIsUnused /\ ClosedIsGone /\ NoOrphan /\ DeadlineIsServed
  BY DEF Init, UnstartedIsUnused, ClosedIsGone, Closed, NoOrphan, DeadlineIsServed, At
<1> QED
  BY <1>1, <1>2, <1>3 DEF IInv

LEMMA InvStep == IInv /\ [Next]_vars => IInv'
<1> SUFFICES ASSUME IInv, [Next]_vars PROVE IInv'
  OBVIOUS
<1>1. TypeOK'
  BY TypeStep
<1>2. CASE Begin \/ Run
  BY <1>1, <1>2, QuietStep, EnsureStep, SpawnStep, PublishStep, FailStep, CompleteStep
     DEF Run
<1>3. CASE Others \/ UNCHANGED vars
  BY <1>1, <1>3, OthersKeep
<1> QED
  BY <1>2, <1>3 DEF Next, Others

LEMMA Invariance == Spec => []IInv
BY InvInit, InvStep, PTL DEF Spec

(* Type correctness for any number of calls, sessions and jobs; with it    *)
(* that no session serves more than maxJobs jobs, which completeJob has to *)
(* count while timers and the owner's end forget sessions.                 *)
THEOREM TypeCorrect == Spec => []TypeOK
<1>1. IInv => TypeOK
  BY DEF IInv
<1> QED
  BY <1>1, Invariance, PTL

(* A job keeps the session it was given, of its own identity, until it is  *)
(* through or the owner ends: run against retireIdle and retireCurrent.    *)
THEOREM JobKeepsItsSession == Spec => []JobHasItsSession
<1>1. IInv => JobHasItsSession
  BY DEF IInv
<1> QED
  BY <1>1, Invariance, PTL

(* Every worker process that runs is the current one's or has a goroutine  *)
(* that will close it, whoever of the five callers of closeAndWait it is.  *)
THEOREM NothingIsOrphaned == Spec => []NoOrphan
<1>1. IInv => NoOrphan
  BY DEF IInv
<1> QED
  BY <1>1, Invariance, PTL

(* retireIdle of a timer that comes late does not end the idle period of a *)
(* later job.                                                              *)
THEOREM IdleCorrect == Spec => IdleIsIdle
<1> DEFINE Idle ==
      \A s \in Sessions : retirer[s] # "idle" /\ retirer'[s] = "idle"
        => /\ <<s, session[s].served>> \in due
           /\ <<s, session[s].served>> \notin due'
<1>1. IInv /\ [Next]_vars => [Idle]_vars
  <2> SUFFICES ASSUME IInv, Next, NEW s \in Sessions,
                      retirer[s] # "idle", retirer'[s] = "idle"
               PROVE  /\ <<s, session[s].served>> \in due
                      /\ <<s, session[s].served>> \notin due'
    OBVIOUS
  <2>1. retirer \in [Sessions -> {"none", "idle", "owner"}]
    BY DEF IInv, TypeOK
  <2>2. PICK r \in Sessions, k \in 0..MaxJobs : RetireIdle(r, k)
    <3> USE DEF contextVars, managerVars, processVars
    <3>1. ~Begin /\ ~CancelJob /\ ~CancelOwner
      BY DEF Begin, CancelJob, CancelOwner
    <3>2. ~Run
      BY DEF Run, Ensure, Swap, Spawn, Hello, Publish, Send, Wait, Fail, Complete, Return
    <3>3. ~RetireCurrent
      BY <2>1 DEF RetireCurrent
    <3>4. ASSUME NEW q \in Sessions, Retired(q) \/ CloseAndWait(q) \/ Works(q) \/ Exits(q)
          PROVE  FALSE
      BY <2>1, <3>4 DEF Retired, CloseAndWait, CloseBegins, CloseEnds, Works, Exits
    <3> QED
      BY <3>1, <3>2, <3>3, <3>4 DEF Next
  <2>3. /\ <<r, k>> \in due /\ MayRetire(r, k) /\ r = s
        /\ <<r, k>> \notin due'
    BY <2>1, <2>2 DEF RetireIdle
  <2>4. k # 0 /\ session[s].deadline \in {0, session[s].served}
    BY <2>3 DEF IInv, DeadlineIsServed
  <2>5. k = session[s].served
    BY <2>3, <2>4 DEF MayRetire
  <2> QED
    BY <2>3, <2>5
<1>2. IdleIsIdle <=> [][Idle]_vars
  BY DEF IdleIsIdle
<1> QED
  BY <1>1, <1>2, Invariance, PTL DEF Spec
=============================================================================
