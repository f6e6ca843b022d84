-------------------------- MODULE ObsReceiverProofs --------------------------
(***************************************************************************)
(* Proofs about ObsReceiver, for any number of handlers, listeners and     *)
(* sessions.                                                               *)
(*                                                                         *)
(* Everything follows from one invariant, IInv.  Its heart is OwnerStreams *)
(* and OwnerOffers: what is shown of a session belongs to the listener     *)
(* that owns the generation, and to a step of its round at which the       *)
(* session may still be shown.  A revoked listener therefore finds nothing *)
(* that it could take for its own, although session ids are used again     *)
(* and neither finalizeAcceptedSession nor the clearing of the endpoint    *)
(* looks at `running`.                                                     *)
(***************************************************************************)
EXTENDS ObsReceiver, TLAPS

(* The steps of a round at which its stream is connected, and at which its *)
(* endpoint may be known.                                                  *)
StreamSteps == {"onStart", "endpoint", "onReady", "streaming"}
OfferSteps == {"onReady", "streaming", "onDone", "mark", "cleanup"}

RunningIsNumbered == running => listener # 0
UnstartedIsOff == \A g \in Listener : g > listener => loop[g].at = "off"
BusyCallsNothing ==
  \A c \in Callers : caller[c].at # "idle" =>
    caller[c].start = 0 /\ caller[c].ready = 0
OwnerStreams ==
  current # 0 =>
    /\ running /\ current = mediaGen
    /\ loop[listener].at \in StreamSteps /\ idOf[current] = loop[listener].id
OwnerOffers ==
  endpoint # 0 =>
    /\ running /\ endpoint = mediaGen
    /\ loop[listener].at \in OfferSteps /\ idOf[endpoint] = loop[listener].id
TimerIsLatest == timer # 0 => timer = mediaGen
DoneIsOver ==
  \A g \in Listener :
    /\ loop[g].media <= mediaGen
    /\ loop[g].at \in {"onDone", "mark"} /\ loop[g].media = mediaGen => current = 0
RecordedIsOver ==
  phase \in {"recorded", "converted"} /\ current # 0 => shown # current

IInv ==
  /\ TypeOK /\ RunningIsNumbered /\ UnstartedIsOff /\ BusyCallsNothing
  /\ OwnerStreams /\ OwnerOffers /\ UrlIsOfCurrent
  /\ TimerIsLatest /\ DoneIsOver /\ RecordedIsOver
-----------------------------------------------------------------------------
USE ObsReceiverAssumption DEF Listener, Media

(* UNCHANGED of a group of variables is UNCHANGED of each of them.         *)
USE DEF listenerVars, sessionVars, statusVars, timerVars, itemVars

LEMMA CancelTimerType ==
  ASSUME SessionType, CancelTimer
  PROVE  timer' = 0 /\ due' \subseteq 1..mediaGen
BY DEF SessionType, CancelTimer

LEMMA CommitStartType ==
  ASSUME NEW s \in 0..MaxMedia, SessionType, CommitStart(s)
  PROVE  shown' \in 0..mediaGen /\ phase' \in Phases
BY DEF SessionType, CommitStart, Active, Phases

LEMMA Numbers ==
  ASSUME TypeOK
  PROVE  mediaGen \in Nat /\ 0 \in 0..mediaGen /\ current \in 0..mediaGen
BY DEF TypeOK, SessionType

(* The timer that a stream leaves behind was set for a session.            *)
LEMMA FinalizeTimerType ==
  ASSUME TypeOK, NEW g \in Listener, Finalize(g)
  PROVE  timer' \in 0..mediaGen /\ due' \subseteq 1..mediaGen
<1>1. MayFinalize(g) => current \in 1..mediaGen
  BY Numbers DEF MayFinalize
<1>2. CASE MayFinalize(g) /\ publishing /\ continuous
  BY <1>1, <1>2 DEF Finalize, TypeOK, SessionType
<1>3. CASE MayFinalize(g) /\ ~(publishing /\ continuous)
  BY <1>3, Numbers, CancelTimerType DEF Finalize, TypeOK
<1>4. CASE ~MayFinalize(g)
  BY <1>4 DEF Finalize, TypeOK, SessionType
<1> QED
  BY <1>2, <1>3, <1>4

LEMMA ListenerTypeStep ==
  ASSUME TypeOK, RunningIsNumbered, [Next]_vars
  PROVE  ListenerType'
<1> USE DEF TypeOK, ListenerType, RunningIsNumbered
<1>1. ASSUME NEW c \in Callers, Handler(c) PROVE ListenerType'
  <2>1. CASE TurnOn(c) \/ StartAgain(c) \/ Publish(c) \/ Disarm(c) \/
     Rekey(c) \/ CallerOnStart(c)
    BY <2>1 DEF TurnOn, StartAgain, Publish, Disarm, Rekey, CallerOnStart,
       Start, StartPublishing, StopContinuous
  <2>2. CASE StopNow(c) \/ Restart(c) \/ SetStreamKey(c)
    <3>1. PICK next : Stop(c, next)
      BY <2>2 DEF StopNow, Restart, SetStreamKey
    <3>2. /\ listener < MaxListener /\ listener' = listener + 1 /\ runtime' = 0
          /\ canceled' = IF running THEN canceled \cup {listener} ELSE canceled
      BY <3>1 DEF Stop
    <3>3. canceled' \subseteq 1..listener'
      BY <3>2
    <3> QED
      BY <3>2, <3>3
  <2> QED
    BY <1>1, <2>1, <2>2 DEF Handler
<1>2. ASSUME NEW g \in Listener, Round(g) PROVE ListenerType'
  <2>1. CASE LoopTop(g) \/ WaitEnds(g) \/ LoopOnStart(g) \/ LoopOnDone(g) \/
     MarkDone(g)
    BY <2>1 DEF LoopTop, WaitEnds, LoopOnStart, LoopOnDone, MarkDone
  <2>2. CASE Setup(g)
    BY <2>2 DEF Setup
  <2>3. CASE SetEndpoint(g)
    BY <2>3 DEF SetEndpoint
  <2>4. CASE Accept(g) \/ Finalize(g)
    BY <2>4 DEF Accept, Finalize
  <2>5. CASE Cleanup(g) \/ Failed(g)
    BY <2>5 DEF Cleanup, Failed
  <2>6. CASE Leave(g)
    BY <2>6 DEF Leave
  <2> QED
    BY <1>2, <2>1, <2>2, <2>3, <2>4, <2>5, <2>6 DEF Round
<1>3. CASE ServerStep \/ \E t \in Media : TimerRuns(t)
  BY <1>3 DEF ServerStep, TimerRuns, CallerOnReady, TurnOff, LoopOnReady,
     LoopOnRTSPDone, PublishURL
<1> QED
  BY <1>1, <1>2, <1>3 DEF Next, ReceiverStep, vars

LEMMA FlagTypeStep ==
  ASSUME TypeOK, RunningIsNumbered, [Next]_vars
  PROVE  FlagType'
<1> USE DEF TypeOK, FlagType
<1>1. ASSUME NEW c \in Callers, Handler(c) PROVE FlagType'
  <2>1. CASE TurnOn(c) \/ StartAgain(c) \/ Publish(c) \/ Disarm(c) \/
     Rekey(c) \/ CallerOnStart(c)
    BY <2>1 DEF TurnOn, StartAgain, Publish, Disarm, Rekey, CallerOnStart,
       Start, StartPublishing, StopContinuous
  <2>2. CASE StopNow(c) \/ Restart(c) \/ SetStreamKey(c)
    BY <2>2 DEF StopNow, Restart, SetStreamKey, Stop
  <2> QED
    BY <1>1, <2>1, <2>2 DEF Handler
<1>2. ASSUME NEW g \in Listener, Round(g) PROVE FlagType'
  <2>1. CASE LoopTop(g) \/ WaitEnds(g) \/ LoopOnStart(g) \/ LoopOnDone(g) \/
     MarkDone(g)
    BY <2>1 DEF LoopTop, WaitEnds, LoopOnStart, LoopOnDone, MarkDone
  <2>2. CASE Setup(g)
    BY <2>2 DEF Setup
  <2>3. CASE SetEndpoint(g)
    BY <2>3 DEF SetEndpoint
  <2>4. CASE Accept(g) \/ Finalize(g)
    BY <2>4 DEF Accept, Finalize
  <2>5. CASE Cleanup(g) \/ Failed(g)
    BY <2>5 DEF Cleanup, Failed
  <2>6. CASE Leave(g)
    BY <2>6 DEF Leave
  <2> QED
    BY <1>2, <2>1, <2>2, <2>3, <2>4, <2>5, <2>6 DEF Round
<1>3. CASE ServerStep \/ \E t \in Media : TimerRuns(t)
  BY <1>3 DEF ServerStep, TimerRuns, CallerOnReady, TurnOff, LoopOnReady,
     LoopOnRTSPDone, PublishURL
<1> QED
  BY <1>1, <1>2, <1>3 DEF Next, ReceiverStep, vars

LEMMA SessionTypeStep ==
  ASSUME TypeOK, RunningIsNumbered, [Next]_vars
  PROVE  SessionType'
<1> USE DEF TypeOK, SessionType
<1>1. ASSUME NEW c \in Callers, Handler(c) PROVE SessionType'
  <2>1. CASE TurnOn(c) \/ StartAgain(c)
    BY <2>1 DEF TurnOn, StartAgain, Start
  <2>2. CASE Publish(c)
    BY <2>2, Numbers, CancelTimerType DEF Publish, StartPublishing
  <2>3. CASE Disarm(c)
    BY <2>3, Numbers, CancelTimerType DEF Disarm, StopContinuous
  <2>4. CASE StopNow(c) \/ Restart(c) \/ SetStreamKey(c)
    BY <2>4, Numbers, CancelTimerType DEF StopNow, Restart, SetStreamKey,
       Stop
  <2>5. CASE Rekey(c)
    BY <2>5, Numbers DEF Rekey
  <2>6. CASE CallerOnStart(c)
    BY <2>6, CommitStartType DEF CallerOnStart, GoroutineType, Calls
  <2> QED
    BY <1>1, <2>1, <2>2, <2>3, <2>4, <2>5, <2>6 DEF Handler
<1>2. ASSUME NEW g \in Listener, Round(g) PROVE SessionType'
  <2>1. CASE LoopTop(g) \/ Setup(g) \/ WaitEnds(g)
    BY <2>1 DEF LoopTop, Setup, WaitEnds
  <2>2. CASE Accept(g)
    BY <2>2, Numbers, CancelTimerType DEF Accept, GoroutineType, Rounds
  <2>3. CASE LoopOnStart(g)
    BY <2>3, CommitStartType DEF LoopOnStart, GoroutineType, Rounds
  <2>4. CASE SetEndpoint(g) \/ Cleanup(g)
    BY <2>4, Numbers DEF SetEndpoint, Cleanup
  <2>5. CASE Finalize(g)
    BY <2>5, FinalizeTimerType, Numbers DEF Finalize
  <2>6. CASE LoopOnDone(g)
    BY <2>6, Numbers DEF LoopOnDone, DoneCommits, CommitDone, Latest, Phases
  <2>8. CASE MarkDone(g)
    BY <2>8 DEF MarkDone, Phases
  <2>7. CASE Leave(g) \/ Failed(g)
    BY <2>7, Numbers DEF Leave, Failed
  <2> QED
    BY <1>2, <2>1, <2>2, <2>3, <2>4, <2>5, <2>6, <2>7, <2>8 DEF Round
<1>3. CASE ServerStep \/ \E t \in Media : TimerRuns(t)
  BY <1>3, Numbers DEF ServerStep, TimerRuns, CallerOnReady, TurnOff,
     LoopOnReady, LoopOnRTSPDone, PublishURL, SetRTSPEndpointURL, Active
<1> QED
  BY <1>1, <1>2, <1>3 DEF Next, ReceiverStep, vars

(* What the goroutines write into their records is of the right type.      *)
LEMMA GoType ==
  ASSUME GoroutineType, NEW c \in Callers, NEW step \in CallSteps, Go(c, step)
  PROVE  caller' \in [Callers -> Calls]
BY DEF GoroutineType, Calls, Go

LEMMA CallsBackType ==
  ASSUME GoroutineType, NEW g \in Listener, NEW step \in LoopSteps,
         NEW s \in 0..MaxMedia, CallsBack(g, step, s)
  PROVE  loop' \in [Listener -> Rounds]
BY DEF GoroutineType, Rounds, CallsBack

LEMMA LoopGoType ==
  ASSUME GoroutineType, NEW g \in Listener, NEW step \in LoopSteps,
         GoLoop(g, step)
  PROVE  loop' \in [Listener -> Rounds]
<1>1. CallsBack(g, step, 0)
  BY DEF GoLoop, CallsBack
<1> QED
  BY <1>1, CallsBackType

LEMMA NewRoundType ==
  ASSUME GoroutineType, NEW g \in Listener, NEW step \in LoopSteps,
         NEW now \in BOOLEAN, NewRound(g, step, now)
  PROVE  loop' \in [Listener -> Rounds]
BY DEF GoroutineType, Rounds, NewRound, Fresh

LEMMA SessionsAreMedia ==
  ASSUME TypeOK
  PROVE  current \in 0..MaxMedia /\ endpoint \in 0..MaxMedia
BY DEF TypeOK, SessionType

LEMMA StartPublishingType ==
  ASSUME TypeOK, NEW c \in Callers, NEW cont \in BOOLEAN, StartPublishing(c, cont)
  PROVE  GoroutineType'
<1> DEFINE on == current # 0 /\ connected
           start == IF on /\ ~announced THEN current ELSE 0
           ready == IF on /\ endpoint # 0 /\ idOf[endpoint] = idOf[current]
                    THEN endpoint ELSE 0
<1>1. start \in 0..MaxMedia /\ ready \in 0..MaxMedia
  BY SessionsAreMedia
<1>2. caller' = [caller EXCEPT ![c] = [at |-> "idle", start |-> start, ready |-> ready]]
  BY DEF StartPublishing
<1>3. UNCHANGED loop
  BY DEF StartPublishing
<1> HIDE DEF start, ready
<1> QED
  BY <1>1, <1>2, <1>3 DEF TypeOK, GoroutineType, Calls, CallSteps

LEMMA AcceptType ==
  ASSUME TypeOK, NEW g \in Listener, Accept(g)
  PROVE  GoroutineType'
<1> DEFINE s == mediaGen + 1
           id == IF loop[g].id = 0 THEN s ELSE loop[g].id
           media == IF publishing THEN s ELSE 0
           at == IF publishing THEN "onStart" ELSE "endpoint"
<1>1. s \in 0..MaxMedia
  BY Numbers DEF TypeOK, SessionType, Accept
<1>2. id \in 0..MaxMedia /\ media \in 0..MaxMedia /\ at \in LoopSteps
  BY <1>1 DEF TypeOK, GoroutineType, Rounds, LoopSteps
<1>3. loop' = [loop EXCEPT ![g].id = id, ![g].media = media, ![g].at = at]
  BY DEF Accept
<1>4. UNCHANGED caller
  BY DEF Accept
<1> HIDE DEF id, media, at
<1> QED
  BY <1>2, <1>3, <1>4 DEF TypeOK, GoroutineType, Rounds

(* Finalize goes on to tell the server that the current session is done,   *)
(* or to the cleanup.                                                      *)
LEMMA FinalizeLoop ==
  ASSUME TypeOK, NEW g \in Listener, Finalize(g)
  PROVE  \E step, s :
           /\ loop' = [loop EXCEPT ![g].at = step, ![g].media = s,
                                   ![g].armed = FALSE]
           /\ \/ step = "onDone" /\ s = current /\ MayFinalize(g)
              \/ step = "cleanup" /\ s = loop[g].media
<1>1. loop[g] \in Rounds
  BY DEF TypeOK, GoroutineType
<1>2. CASE MayFinalize(g) /\ (loop[g].armed \/ announced)
  <2>1. loop' = [loop EXCEPT ![g].at = "onDone", ![g].media = current,
                             ![g].armed = FALSE]
    BY <1>1, <1>2 DEF Finalize, Rounds, TypeOK, GoroutineType
  <2> QED
    BY <1>2, <2>1
<1>3. CASE ~(MayFinalize(g) /\ (loop[g].armed \/ announced))
  <2>1. loop' = [loop EXCEPT ![g].at = "cleanup", ![g].media = loop[g].media,
                             ![g].armed = FALSE]
    BY <1>1, <1>3 DEF Finalize, Rounds, TypeOK, GoroutineType
  <2> QED
    BY <2>1
<1> QED
  BY <1>2, <1>3

LEMMA FinalizeType ==
  ASSUME TypeOK, NEW g \in Listener, Finalize(g)
  PROVE  GoroutineType'
<1>1. PICK step, s :
        /\ loop' = [loop EXCEPT ![g].at = step, ![g].media = s, ![g].armed = FALSE]
        /\ step \in {"onDone", "cleanup"} /\ s \in {current, loop[g].media}
  BY FinalizeLoop
<1>2. s \in 0..MaxMedia /\ step \in LoopSteps
  BY <1>1, SessionsAreMedia DEF TypeOK, GoroutineType, Rounds, LoopSteps
<1>3. UNCHANGED caller
  BY DEF Finalize
<1> QED
  BY <1>1, <1>2, <1>3 DEF TypeOK, GoroutineType, Rounds

LEMMA LeaveType ==
  ASSUME TypeOK, NEW g \in Listener, Leave(g)
  PROVE  GoroutineType'
<1>1. CASE NewRound(g, "top", FALSE) \/ NewRound(g, "failed", FALSE)
  BY <1>1, NewRoundType DEF Leave, TypeOK, GoroutineType, LoopSteps
<1>2. CASE loop' = [loop EXCEPT ![g] =
             [at |-> "setup", id |-> @.id, media |-> 0,
              armed |-> publishing, again |-> TRUE]]
  <2>1. loop[g].id \in 0..MaxMedia /\ publishing \in BOOLEAN
    BY DEF TypeOK, GoroutineType, FlagType, Rounds
  <2> QED
    BY <1>2, <2>1 DEF Leave, TypeOK, GoroutineType, Rounds, LoopSteps
<1> QED
  BY <1>1, <1>2 DEF Leave

LEMMA GoroutineTypeStep ==
  ASSUME TypeOK, RunningIsNumbered, [Next]_vars
  PROVE  GoroutineType'
<1> USE DEF TypeOK
<1>1. ASSUME NEW c \in Callers, Handler(c) PROVE GoroutineType'
  <2>1. CASE TurnOn(c) \/ StartAgain(c)
    BY <2>1, GoType DEF TurnOn, StartAgain, Start, CallSteps, GoroutineType,
       Rounds, LoopSteps
  <2>2. CASE Publish(c)
    BY <2>2, StartPublishingType DEF Publish
  <2>3. CASE Disarm(c)
    BY <2>3 DEF Disarm, StopContinuous, GoroutineType
  <2>4. CASE StopNow(c) \/ Restart(c) \/ SetStreamKey(c)
    BY <2>4, GoType DEF StopNow, Restart, SetStreamKey, Stop, GoroutineType,
       CallSteps
  <2>5. CASE Rekey(c)
    BY <2>5, GoType DEF Rekey, GoroutineType, CallSteps
  <2>6. CASE CallerOnStart(c)
    BY <2>6 DEF CallerOnStart, GoroutineType, Calls
  <2> QED
    BY <1>1, <2>1, <2>2, <2>3, <2>4, <2>5, <2>6 DEF Handler
<1>2. ASSUME NEW g \in Listener, Round(g) PROVE GoroutineType'
  <2>1. CASE LoopTop(g)
    BY <2>1, LoopGoType, NewRoundType DEF LoopTop, GoroutineType, LoopSteps,
       FlagType
  <2>2. CASE Setup(g) \/ WaitEnds(g) \/ LoopOnStart(g)
    BY <2>2, LoopGoType DEF Setup, WaitEnds, LoopOnStart, GoroutineType,
       LoopSteps
  <2>3. CASE LoopOnDone(g) \/ MarkDone(g)
    BY <2>3, LoopGoType, CallsBackType DEF LoopOnDone, MarkDone,
       GoroutineType, Rounds, LoopSteps
  <2>4. CASE Accept(g)
    BY <2>4, AcceptType
  <2>5. CASE SetEndpoint(g) \/ Cleanup(g)
    BY <2>5, LoopGoType, CallsBackType, SessionsAreMedia DEF SetEndpoint,
       Cleanup, GoroutineType, LoopSteps
  <2>6. CASE Finalize(g)
    BY <2>6, FinalizeType
  <2>7. CASE Leave(g)
    BY <2>7, LeaveType
  <2>8. CASE Failed(g)
    BY <2>8, LoopGoType DEF Failed, GoroutineType, LoopSteps
  <2> QED
    BY <1>2, <2>1, <2>2, <2>3, <2>4, <2>5, <2>6, <2>7, <2>8 DEF Round
<1>3. ASSUME NEW t \in Media, TimerRuns(t) PROVE GoroutineType'
  <2>1. Timeout \in Callers
    BY DEF Callers
  <2> QED
    BY <1>3, <2>1, GoType DEF TimerRuns, GoroutineType, CallSteps
<1>4. ASSUME NEW c \in Callers, CallerOnReady(c) \/ TurnOff(c)
      PROVE  GoroutineType'
  BY <1>4, GoType DEF CallerOnReady, TurnOff, GoroutineType, Calls, CallSteps
<1>5. ASSUME NEW g \in Listener, LoopOnReady(g) \/ LoopOnRTSPDone(g)
      PROVE  GoroutineType'
  BY <1>5, LoopGoType DEF LoopOnReady, LoopOnRTSPDone, GoroutineType, LoopSteps
<1>6. ASSUME NEW s \in Media, PublishURL(s) PROVE GoroutineType'
  BY <1>6 DEF PublishURL, GoroutineType
<1> QED
  BY <1>1, <1>2, <1>3, <1>4, <1>5, <1>6
     DEF Next, ReceiverStep, ServerStep, vars, GoroutineType

LEMMA TypeStep ==
  ASSUME TypeOK, RunningIsNumbered, [Next]_vars
  PROVE  TypeOK'
BY ListenerTypeStep, GoroutineTypeStep, SessionTypeStep, FlagTypeStep DEF TypeOK

-----------------------------------------------------------------------------
(* A step of a round changes its own listener's record only, and no        *)
(* listener does anything before it is started.                            *)
LoopStep(g) == Round(g) \/ LoopOnReady(g) \/ LoopOnRTSPDone(g)

LEMMA LoopStepFrame ==
  ASSUME TypeOK, NEW g \in Listener, LoopStep(g)
  PROVE  /\ UNCHANGED <<listener, running>>
         /\ loop[g].at # "off"
         /\ \A h \in Listener \ {g} : loop'[h] = loop[h]
<1> USE DEF TypeOK, GoroutineType
<1>1. CASE LoopTop(g) \/ Setup(g)
BY <1>1 DEF LoopTop, Setup, AtLoop, GoLoop, NewRound, Owns
<1>2. CASE WaitEnds(g) \/ LoopOnStart(g)
BY <1>2 DEF WaitEnds, LoopOnStart, AtLoop, GoLoop
<1>3. CASE Accept(g)
BY <1>3 DEF Accept, AtLoop
<1>4. CASE SetEndpoint(g) \/ Cleanup(g)
BY <1>4 DEF SetEndpoint, Cleanup, AtLoop, GoLoop, CallsBack
<1>5. CASE Finalize(g)
BY <1>5 DEF Finalize, AtLoop
<1>6. CASE LoopOnDone(g) \/ MarkDone(g)
BY <1>6 DEF LoopOnDone, MarkDone, AtLoop, GoLoop, CallsBack
<1>7. CASE Leave(g)
BY <1>7 DEF Leave, AtLoop, NewRound
<1>8. CASE Failed(g)
BY <1>8 DEF Failed, AtLoop, GoLoop
<1>9. CASE LoopOnReady(g) \/ LoopOnRTSPDone(g)
BY <1>9 DEF LoopOnReady, LoopOnRTSPDone, AtLoop, GoLoop
<1> QED
  BY <1>1, <1>2, <1>3, <1>4, <1>5, <1>6, <1>7, <1>8, <1>9 DEF LoopStep, Round

(* Start has begun a new generation, or nothing.                           *)
LEMMA StartEffect ==
  ASSUME NEW c \in Callers, TurnOn(c) \/ StartAgain(c)
  PROVE  \/ UNCHANGED <<listener, running, loop>>
         \/ /\ listener < MaxListener /\ ~running
            /\ listener' = listener + 1 /\ running' = TRUE
            /\ loop' = [loop EXCEPT ![listener + 1].at = "top"]
<1>1. PICK next : Start(c, next)
  BY DEF TurnOn, StartAgain
<1> QED
  BY <1>1 DEF Start

LEMMA RunningStep ==
  ASSUME TypeOK, RunningIsNumbered, [Next]_vars
  PROVE  RunningIsNumbered'
<1> USE DEF TypeOK, ListenerType, RunningIsNumbered
<1>1. ASSUME NEW c \in Callers, Handler(c) PROVE RunningIsNumbered'
  <2>1. CASE TurnOn(c) \/ StartAgain(c)
    <3>1. CASE UNCHANGED <<listener, running>>
      BY <3>1
    <3>2. CASE listener' = listener + 1
      BY <3>2
    <3> QED
      BY <2>1, <3>1, <3>2, StartEffect
  <2>2. CASE ~(TurnOn(c) \/ StartAgain(c))
    BY <1>1, <2>2 DEF Handler, Publish, StartPublishing, Disarm, StopContinuous,
       StopNow, Restart, SetStreamKey, Stop, Rekey, CallerOnStart
  <2> QED
    BY <2>1, <2>2
<1>2. ASSUME NEW g \in Listener, LoopStep(g) PROVE RunningIsNumbered'
  BY <1>2, LoopStepFrame
<1>3. ASSUME NEW c \in Callers, CallerOnReady(c) \/ TurnOff(c)
      PROVE  RunningIsNumbered'
  BY <1>3 DEF CallerOnReady, TurnOff
<1>4. ASSUME NEW s \in Media, TimerRuns(s) \/ PublishURL(s)
      PROVE  RunningIsNumbered'
  BY <1>4 DEF TimerRuns, PublishURL
<1> QED
  BY <1>1, <1>2, <1>3, <1>4 DEF Next, ReceiverStep, ServerStep, LoopStep, vars

LEMMA UnstartedStep ==
  ASSUME TypeOK, UnstartedIsOff, [Next]_vars
  PROVE  UnstartedIsOff'
<1> USE DEF TypeOK, ListenerType, GoroutineType, UnstartedIsOff
<1>1. ASSUME NEW c \in Callers, TurnOn(c) \/ StartAgain(c)
      PROVE  UnstartedIsOff'
  <2>1. CASE UNCHANGED <<listener, loop>>
    BY <2>1
  <2>2. CASE /\ listener < MaxListener /\ listener' = listener + 1
             /\ loop' = [loop EXCEPT ![listener + 1].at = "top"]
    <3>1. \A g \in Listener \ {listener + 1} : loop'[g] = loop[g]
      BY <2>2
    <3> QED
      BY <2>2, <3>1
  <2> QED
    BY <1>1, <2>1, <2>2, StartEffect
<1>2. ASSUME NEW c \in Callers, StopNow(c) \/ Restart(c) \/ SetStreamKey(c)
      PROVE  UnstartedIsOff'
  BY <1>2 DEF StopNow, Restart, SetStreamKey, Stop
<1>3. ASSUME NEW c \in Callers,
             Publish(c) \/ Disarm(c) \/ Rekey(c) \/ CallerOnStart(c)
               \/ CallerOnReady(c) \/ TurnOff(c)
      PROVE  UnstartedIsOff'
  BY <1>3 DEF Publish, StartPublishing, Disarm, StopContinuous, Rekey,
     CallerOnStart, CallerOnReady, TurnOff
<1>4. ASSUME NEW g \in Listener, LoopStep(g) PROVE UnstartedIsOff'
  BY <1>4, LoopStepFrame
<1>5. ASSUME NEW s \in Media, TimerRuns(s) \/ PublishURL(s)
      PROVE  UnstartedIsOff'
  BY <1>5 DEF TimerRuns, PublishURL
<1> QED
  BY <1>1, <1>2, <1>3, <1>4, <1>5
     DEF Next, ReceiverStep, ServerStep, Handler, LoopStep, vars

(* Whoever starts publishing is idle afterwards, apart from its callbacks. *)
LEMMA PublishEffect ==
  ASSUME NEW c \in Callers, Publish(c)
  PROVE  \E rec : caller' = [caller EXCEPT ![c] = rec] /\ rec.at = "idle"
<1>1. PICK cont \in BOOLEAN : StartPublishing(c, cont)
  BY DEF Publish
<1> DEFINE on == current # 0 /\ connected
           rec == [at |-> "idle",
                   start |-> IF on /\ ~announced THEN current ELSE 0,
                   ready |-> IF on /\ endpoint # 0 /\ idOf[endpoint] = idOf[current]
                             THEN endpoint ELSE 0]
<1>2. caller' = [caller EXCEPT ![c] = rec]
  BY <1>1 DEF StartPublishing
<1>3. rec.at = "idle"
  OBVIOUS
<1> HIDE DEF rec
<1> QED
  BY <1>2, <1>3

LEMMA BusyStep ==
  ASSUME TypeOK, BusyCallsNothing, [Next]_vars
  PROVE  BusyCallsNothing'
<1> USE DEF TypeOK, GoroutineType, Calls, BusyCallsNothing
<1>1. ASSUME NEW c \in Callers, NEW step \in CallSteps, Go(c, step),
             caller[c].start = 0, caller[c].ready = 0
      PROVE  BusyCallsNothing'
  BY <1>1 DEF Go
<1>2. ASSUME NEW c \in Callers, Free(c) \/ caller[c].at # "idle"
      PROVE  caller[c].start = 0 /\ caller[c].ready = 0
  BY <1>2 DEF Free, Idle
<1>3. ASSUME NEW c \in Callers, TurnOn(c) \/ StartAgain(c) \/ TurnOff(c)
      PROVE  BusyCallsNothing'
  BY <1>1, <1>2, <1>3 DEF TurnOn, StartAgain, TurnOff, Start, At, CallSteps
<1>4. ASSUME NEW c \in Callers, StopNow(c) \/ Restart(c) \/ SetStreamKey(c)
      PROVE  BusyCallsNothing'
  BY <1>1, <1>2, <1>4 DEF StopNow, Restart, SetStreamKey, Stop, At, CallSteps
<1>5. ASSUME NEW c \in Callers, Publish(c) PROVE BusyCallsNothing'
  <2>1. PICK rec : caller' = [caller EXCEPT ![c] = rec] /\ rec.at = "idle"
    BY <1>5, PublishEffect
  <2> QED
    BY <2>1
<1>6. ASSUME NEW c \in Callers, Rekey(c) PROVE BusyCallsNothing'
  BY <1>1, <1>2, <1>6 DEF Rekey, At, CallSteps
<1>7. ASSUME NEW c \in Callers, Disarm(c) \/ CallerOnStart(c) \/ CallerOnReady(c)
      PROVE  BusyCallsNothing'
  BY <1>7 DEF Disarm, StopContinuous, CallerOnStart, CallerOnReady
<1>8. ASSUME NEW g \in Listener, LoopStep(g) PROVE BusyCallsNothing'
  BY <1>8 DEF LoopStep, Round, LoopTop, Setup, Accept, WaitEnds, LoopOnStart,
     SetEndpoint, Finalize, LoopOnDone, MarkDone, Cleanup, Leave, Failed,
     LoopOnReady, LoopOnRTSPDone
<1>9. ASSUME NEW s \in Media, TimerRuns(s) \/ PublishURL(s)
      PROVE  BusyCallsNothing'
  <2>1. Timeout \in Callers
    BY DEF Callers
  <2> QED
    BY <1>1, <1>9, <2>1 DEF TimerRuns, PublishURL, Idle, CallSteps
<1> QED
  BY <1>3, <1>4, <1>5, <1>6, <1>7, <1>8, <1>9
     DEF Next, ReceiverStep, ServerStep, Handler, LoopStep, vars

-----------------------------------------------------------------------------
(* What is shown of a session belongs to the listener that owns the        *)
(* generation.                                                             *)
OwnInv == OwnerStreams /\ OwnerOffers /\ UrlIsOfCurrent

LEMMA OwnHandlerStep ==
  ASSUME TypeOK, OwnInv, NEW c \in Callers, Handler(c)
  PROVE  OwnInv'
<1> USE DEF OwnInv, OwnerStreams, OwnerOffers, UrlIsOfCurrent
<1>1. CASE TurnOn(c) \/ StartAgain(c)
  <2>1. UNCHANGED <<mediaGen, idOf, current, endpoint, url>>
    BY <1>1 DEF TurnOn, StartAgain, Start
  <2>2. CASE UNCHANGED <<listener, running, loop>>
    BY <2>1, <2>2
  <2>3. CASE ~running
    BY <2>1, <2>3
  <2> QED
    BY <1>1, <2>2, <2>3, StartEffect
<1>2. CASE Publish(c) \/ Disarm(c) \/ CallerOnStart(c)
  BY <1>2 DEF Publish, StartPublishing, Disarm, StopContinuous, CallerOnStart
<1>3. CASE StopNow(c) \/ Restart(c) \/ SetStreamKey(c)
  BY <1>3 DEF StopNow, Restart, SetStreamKey, Stop
<1>4. CASE Rekey(c)
  BY <1>4 DEF Rekey
<1> QED
  BY <1>1, <1>2, <1>3, <1>4 DEF Handler

LEMMA GoLoopEffect ==
  ASSUME TypeOK, NEW g \in Listener, NEW step, NEW s,
         GoLoop(g, step) \/ CallsBack(g, step, s)
  PROVE  loop'[g].at = step /\ loop'[g].id = loop[g].id
BY DEF TypeOK, GoroutineType, Rounds, GoLoop, CallsBack

LEMMA GoLoopMoves ==
  ASSUME TypeOK, NEW g \in Listener, NEW step, GoLoop(g, step)
  PROVE  loop'[g].at = step /\ loop'[g].id = loop[g].id
BY GoLoopEffect

(* A listener that does not own the generation touches no session.         *)
LEMMA OthersTouchNothing ==
  ASSUME OwnInv, NEW g \in Listener, LoopStep(g), ~Owns(g)
  PROVE  UNCHANGED <<sessionVars, endpoint, url>>
<1> USE DEF OwnInv, OwnerStreams, OwnerOffers, Owns
<1>1. ~MayFinalize(g) /\ ~MayClear(g)
  BY DEF MayFinalize, MayClear
<1>2. CASE LoopTop(g) \/ Setup(g) \/ WaitEnds(g) \/ LoopOnStart(g)
             \/ LoopOnDone(g) \/ MarkDone(g) \/ LoopOnReady(g)
  BY <1>2 DEF LoopTop, Setup, WaitEnds, LoopOnStart, LoopOnDone, MarkDone,
     LoopOnReady
<1>3. CASE Leave(g) \/ Failed(g) \/ LoopOnRTSPDone(g)
  BY <1>3 DEF Leave, Failed, LoopOnRTSPDone
<1>4. CASE Accept(g) \/ SetEndpoint(g)
  BY <1>4 DEF Accept, MayAccept, SetEndpoint
<1>5. CASE Finalize(g) \/ Cleanup(g)
  BY <1>1, <1>5 DEF Finalize, Cleanup
<1> QED
  BY <1>2, <1>3, <1>4, <1>5 DEF LoopStep, Round

LEMMA OwnRoundStep ==
  ASSUME TypeOK, RunningIsNumbered, OwnInv, NEW g \in Listener, LoopStep(g)
  PROVE  OwnInv'
<1> USE DEF OwnInv, OwnerStreams, OwnerOffers, UrlIsOfCurrent
<1>1. /\ UNCHANGED <<listener, running>>
      /\ \A h \in Listener \ {g} : loop'[h] = loop[h]
  BY LoopStepFrame
<1>2. CASE g # listener
  <2>1. UNCHANGED <<mediaGen, idOf, current, endpoint, url>>
    BY <1>2, OthersTouchNothing DEF Owns
  <2>2. running => listener \in Listener \ {g}
    BY <1>2 DEF TypeOK, ListenerType, RunningIsNumbered
  <2> QED
    BY <1>1, <2>1, <2>2
<1>3. CASE g = listener
  <2> USE <1>1, <1>3, GoLoopMoves DEF StreamSteps, OfferSteps, AtLoop
  <2>1. CASE LoopTop(g) \/ Setup(g) \/ Leave(g) \/ LoopOnRTSPDone(g)
    <3>1. UNCHANGED <<mediaGen, idOf, current, endpoint, url>>
      BY <2>1 DEF LoopTop, Setup, Leave, LoopOnRTSPDone
    <3>2. current = 0 /\ endpoint = 0
      BY <2>1 DEF LoopTop, Setup, Leave, LoopOnRTSPDone
    <3> QED
      BY <3>1, <3>2
  <2>2. CASE Failed(g)
    <3>1. current' = 0 /\ endpoint' = 0 /\ url' = 0
      BY <2>2 DEF Failed
    <3> QED
      BY <3>1
  <2>3. CASE Accept(g)
    <3>1. current = 0 /\ endpoint = 0 /\ url = 0
      BY <2>3 DEF Accept
    <3>2. endpoint' = 0 /\ url' = 0 /\ running'
      BY <2>3, <3>1 DEF Accept, MayAccept, Owns
    <3>3. current' = mediaGen' /\ loop'[g].at \in StreamSteps
      BY <2>3 DEF Accept, TypeOK, GoroutineType, Rounds
    <3>4. idOf'[current'] = loop'[g].id
      BY <2>3 DEF Accept, TypeOK, GoroutineType, SessionType, Rounds
    <3> QED
      BY <3>2, <3>3, <3>4
  <2>4. CASE WaitEnds(g)
    <3>1. current' = 0 /\ endpoint' = 0 /\ url' = 0
      BY <2>4 DEF WaitEnds
    <3> QED
      BY <3>1
  <2>5. CASE LoopOnStart(g)
    <3>1. endpoint = 0 /\ UNCHANGED <<mediaGen, idOf, current, endpoint, url>>
      BY <2>5 DEF LoopOnStart
    <3>2. loop'[g].at = "endpoint" /\ loop'[g].id = loop[g].id
      BY <2>5 DEF LoopOnStart
    <3> QED
      BY <3>1, <3>2
  <2>6. CASE LoopOnReady(g)
    <3>1. UNCHANGED <<mediaGen, idOf, current, endpoint, url>>
      BY <2>6 DEF LoopOnReady
    <3>2. loop'[g].at = "streaming" /\ loop'[g].id = loop[g].id
      BY <2>6 DEF LoopOnReady
    <3> QED
      BY <3>1, <3>2
  <2>7. CASE SetEndpoint(g)
    <3>1. loop'[g].at \in {"onReady", "streaming"} /\ loop'[g].id = loop[g].id
      BY <2>7, GoLoopEffect DEF SetEndpoint
    <3>2. UNCHANGED <<mediaGen, idOf, current>>
      BY <2>7 DEF SetEndpoint
    <3>3. \/ UNCHANGED <<endpoint, url>>
          \/ current # 0 /\ endpoint' = current /\ url' = 0
      BY <2>7 DEF SetEndpoint
    <3> QED
      BY <3>1, <3>2, <3>3
  <2>8. CASE Finalize(g)
    <3>1. loop'[g].at \in {"onDone", "cleanup"} /\ loop'[g].id = loop[g].id
      <4>1. PICK step, s :
              /\ loop' = [loop EXCEPT ![g].at = step, ![g].media = s,
                                      ![g].armed = FALSE]
              /\ \/ step = "onDone" /\ s = current /\ MayFinalize(g)
                 \/ step = "cleanup" /\ s = loop[g].media
        BY <2>8, FinalizeLoop
      <4> QED
        BY <4>1 DEF TypeOK, GoroutineType, Rounds
    <3>2. current' = 0 /\ url' = 0 /\ UNCHANGED <<mediaGen, idOf, endpoint>>
      BY <2>8 DEF Finalize, MayFinalize
    <3> QED
      BY <3>1, <3>2
  <2>9. CASE LoopOnDone(g) \/ MarkDone(g)
    <3>1. UNCHANGED <<mediaGen, idOf, current, endpoint, url>> /\ current = 0
      BY <2>9 DEF LoopOnDone, MarkDone
    <3>2. loop'[g].at \in {"mark", "cleanup"} /\ loop'[g].id = loop[g].id
      BY <2>9, GoLoopEffect DEF LoopOnDone, MarkDone
    <3> QED
      BY <3>1, <3>2
  <2>10. CASE Cleanup(g)
    <3>1. current' = 0 /\ endpoint' = 0 /\ url' = 0
      BY <2>10 DEF Cleanup, MayClear
    <3> QED
      BY <3>1
  <2> QED
    BY <2>1, <2>2, <2>3, <2>4, <2>5, <2>6, <2>7, <2>8, <2>9, <2>10
       DEF LoopStep, Round
<1> QED
  BY <1>2, <1>3

LEMMA OwnStep ==
  ASSUME TypeOK, RunningIsNumbered, OwnInv, [Next]_vars
  PROVE  OwnInv'
<1>1. ASSUME NEW c \in Callers, CallerOnReady(c) \/ TurnOff(c) PROVE OwnInv'
  BY <1>1 DEF CallerOnReady, TurnOff, OwnInv, OwnerStreams, OwnerOffers,
     UrlIsOfCurrent
<1>2. ASSUME NEW s \in Media, TimerRuns(s) PROVE OwnInv'
  BY <1>2 DEF TimerRuns, OwnInv, OwnerStreams, OwnerOffers, UrlIsOfCurrent
<1>3. ASSUME NEW s \in Media, PublishURL(s) PROVE OwnInv'
  BY <1>3 DEF PublishURL, SetRTSPEndpointURL, Active, OwnInv, OwnerStreams,
     OwnerOffers, UrlIsOfCurrent
<1>4. CASE UNCHANGED vars
  BY <1>4 DEF vars, OwnInv, OwnerStreams, OwnerOffers, UrlIsOfCurrent
<1> QED
  BY <1>1, <1>2, <1>3, <1>4, OwnHandlerStep, OwnRoundStep
     DEF Next, ReceiverStep, ServerStep, LoopStep

-----------------------------------------------------------------------------
(* The timer is that of the latest session.                                *)
LEMMA TimerStep ==
  ASSUME TypeOK, RunningIsNumbered, OwnInv, TimerIsLatest, [Next]_vars
  PROVE  TimerIsLatest'
<1> USE DEF TimerIsLatest
<1>1. ASSUME UNCHANGED mediaGen, timer' \in {0, timer} PROVE TimerIsLatest'
  BY <1>1
<1>2. ASSUME NEW c \in Callers, Handler(c) PROVE TimerIsLatest'
  BY <1>1, <1>2 DEF Handler, TurnOn, StartAgain, Start, Publish,
     StartPublishing, Disarm, StopContinuous, StopNow, Restart, SetStreamKey,
     Stop, Rekey, CallerOnStart, CancelTimer
<1>3. ASSUME NEW g \in Listener, Finalize(g) PROVE TimerIsLatest'
  <2>1. UNCHANGED mediaGen /\ timer' \in {0, timer, current}
    BY <1>3 DEF Finalize, CancelTimer
  <2> QED
    BY <2>1 DEF OwnInv, OwnerStreams
<1>4. ASSUME NEW g \in Listener, Accept(g) PROVE TimerIsLatest'
  BY <1>4 DEF Accept, CancelTimer
<1>5. ASSUME NEW g \in Listener, LoopStep(g), ~Finalize(g), ~Accept(g)
      PROVE  TimerIsLatest'
  BY <1>1, <1>5 DEF LoopStep, Round, LoopTop, Setup, WaitEnds, LoopOnStart,
     SetEndpoint, LoopOnDone, MarkDone, Cleanup, Leave, Failed, LoopOnReady,
     LoopOnRTSPDone
<1>6. ASSUME NEW s \in Media, TimerRuns(s) \/ PublishURL(s)
      PROVE  TimerIsLatest'
  BY <1>1, <1>6 DEF TimerRuns, PublishURL
<1>7. ASSUME NEW c \in Callers, CallerOnReady(c) \/ TurnOff(c)
      PROVE  TimerIsLatest'
  BY <1>1, <1>7 DEF CallerOnReady, TurnOff
<1> QED
  BY <1>1, <1>2, <1>3, <1>4, <1>5, <1>6, <1>7
     DEF Next, ReceiverStep, ServerStep, LoopStep, vars

(* A session is told to be done after it is over.                          *)
LEMMA MediaMoves ==
  ASSUME TypeOK, NEW g \in Listener, NEW step, GoLoop(g, step)
  PROVE  loop'[g].at = step /\ loop'[g].media = 0
BY DEF TypeOK, GoroutineType, Rounds, GoLoop

LEMMA MediaCalls ==
  ASSUME TypeOK, NEW g \in Listener, NEW step, NEW s, CallsBack(g, step, s)
  PROVE  loop'[g].at = step /\ loop'[g].media = s
BY DEF TypeOK, GoroutineType, Rounds, CallsBack

LEMMA DoneStep ==
  ASSUME TypeOK, RunningIsNumbered, OwnInv, DoneIsOver, [Next]_vars
  PROVE  DoneIsOver'
<1> USE Numbers DEF DoneIsOver
<1>1. ASSUME UNCHANGED <<loop, mediaGen>>, current' \in {0, current}
      PROVE  DoneIsOver'
  BY <1>1
<1>2. ASSUME NEW c \in Callers, Handler(c) PROVE DoneIsOver'
  <2>1. CASE TurnOn(c) \/ StartAgain(c)
    <3>1. UNCHANGED <<mediaGen, current>>
      BY <2>1 DEF TurnOn, StartAgain, Start
    <3>2. CASE UNCHANGED loop
      BY <1>1, <3>1, <3>2
    <3>3. CASE loop' = [loop EXCEPT ![listener + 1].at = "top"]
      BY <3>1, <3>3 DEF TypeOK, GoroutineType, Rounds
    <3> QED
      BY <2>1, <3>2, <3>3, StartEffect
  <2>2. CASE ~(TurnOn(c) \/ StartAgain(c))
    BY <1>1, <1>2, <2>2 DEF Handler, Publish, StartPublishing, Disarm,
       StopContinuous, StopNow, Restart, SetStreamKey, Stop, Rekey, CallerOnStart
  <2> QED
    BY <2>1, <2>2
<1>3. ASSUME NEW g \in Listener, LoopStep(g) PROVE DoneIsOver'
  <2>1. \A h \in Listener \ {g} : loop'[h] = loop[h]
    BY <1>3, LoopStepFrame
  <2>2. ASSUME UNCHANGED mediaGen, current' \in {0, current},
               loop'[g].media <= mediaGen,
               loop'[g].at \in {"onDone", "mark"} /\ loop'[g].media = mediaGen
                 => current' = 0
        PROVE  DoneIsOver'
    BY <2>1, <2>2
  <2>3. ASSUME UNCHANGED <<mediaGen, current>>, NEW step,
               step \notin {"onDone", "mark"}, GoLoop(g, step)
        PROVE  DoneIsOver'
    BY <2>2, <2>3, MediaMoves
  <2>4. ASSUME UNCHANGED <<mediaGen, current>>, NEW step, NEW now,
               step \notin {"onDone", "mark"}, NewRound(g, step, now)
        PROVE  DoneIsOver'
    <3>1. loop'[g].at = step /\ loop'[g].media = 0
      BY <2>4 DEF NewRound, Fresh, TypeOK, GoroutineType
    <3> QED
      BY <2>2, <2>4, <3>1
  <2>5. CASE LoopTop(g)
    BY <2>3, <2>4, <2>5 DEF LoopTop
  <2>6. CASE Setup(g) \/ WaitEnds(g) \/ LoopOnStart(g) \/ MarkDone(g)
    BY <2>3, <2>6 DEF Setup, WaitEnds, LoopOnStart, MarkDone
  <2>7. CASE Failed(g) \/ LoopOnReady(g) \/ LoopOnRTSPDone(g)
    BY <2>3, <2>7 DEF Failed, LoopOnReady, LoopOnRTSPDone
  <2>8. CASE Accept(g)
    <3>1. mediaGen' = mediaGen + 1
      BY <2>8 DEF Accept
    <3>2. loop'[g].media <= mediaGen' /\ loop'[g].at \notin {"onDone", "mark"}
      BY <2>8 DEF Accept, TypeOK, GoroutineType, Rounds
    <3>3. \A h \in Listener : loop[h].media \in Nat
      BY DEF TypeOK, GoroutineType, Rounds
    <3> QED
      BY <2>1, <3>1, <3>2, <3>3
  <2>9. CASE SetEndpoint(g)
    <3>1. UNCHANGED <<mediaGen, current>>
      BY <2>9 DEF SetEndpoint
    <3>2. CASE GoLoop(g, "streaming")
      BY <2>3, <3>1, <3>2
    <3>3. CASE CallsBack(g, "onReady", current)
      <4>1. loop'[g].at = "onReady" /\ loop'[g].media = current
        BY <3>3, MediaCalls
      <4> QED
        BY <2>2, <3>1, <4>1
    <3> QED
      BY <2>9, <3>2, <3>3 DEF SetEndpoint
  <2>10. CASE Finalize(g)
    <3>1. PICK step, s :
            /\ loop' = [loop EXCEPT ![g].at = step, ![g].media = s,
                                    ![g].armed = FALSE]
            /\ \/ step = "onDone" /\ s = current /\ MayFinalize(g)
               \/ step = "cleanup" /\ s = loop[g].media
      BY <2>10, FinalizeLoop
    <3>2. loop'[g].at = step /\ loop'[g].media = s
      BY <3>1 DEF TypeOK, GoroutineType, Rounds
    <3>3. UNCHANGED mediaGen /\ current' \in {0, current}
      BY <2>10 DEF Finalize
    <3>4. MayFinalize(g) => current' = 0
      BY <2>10 DEF Finalize
    <3> QED
      <4>1. loop'[g].media <= mediaGen
        BY <3>1, <3>2
      <4>2. loop'[g].at \in {"onDone", "mark"} => current' = 0
        BY <3>1, <3>2, <3>4
      <4> QED
        BY <2>2, <3>3, <4>1, <4>2
  <2>11. CASE LoopOnDone(g)
    <3>1. UNCHANGED <<mediaGen, current>> /\ loop[g].at = "onDone"
      BY <2>11 DEF LoopOnDone, AtLoop
    <3>2. CASE GoLoop(g, "cleanup")
      BY <2>3, <3>1, <3>2
    <3>3. CASE CallsBack(g, "mark", loop[g].media)
      <4>1. loop'[g].media = loop[g].media
        BY <3>3, MediaCalls
      <4> QED
        BY <2>2, <3>1, <4>1
    <3> QED
      BY <2>11, <3>2, <3>3 DEF LoopOnDone
  <2>12. CASE Cleanup(g)
    <3>1. UNCHANGED <<mediaGen, current>>
      BY <2>12 DEF Cleanup
    <3>2. CASE GoLoop(g, "leave")
      BY <2>3, <3>1, <3>2
    <3>3. CASE MayClear(g) /\ CallsBack(g, "onRtspDone", endpoint)
      <4>1. endpoint = mediaGen
        BY <3>3 DEF MayClear, OwnInv, OwnerOffers
      <4> QED
        <5>1. loop'[g].at = "onRtspDone" /\ loop'[g].media = endpoint
          BY <3>3, MediaCalls
        <5> QED
          BY <2>2, <3>1, <4>1, <5>1
    <3> QED
      BY <2>12, <3>2, <3>3 DEF Cleanup
  <2>13. CASE Leave(g)
    <3>1. UNCHANGED <<mediaGen, current>>
      BY <2>13 DEF Leave
    <3>2. CASE NewRound(g, "top", FALSE) \/ NewRound(g, "failed", FALSE)
      BY <2>4, <3>1, <3>2
    <3>3. CASE loop' = [loop EXCEPT ![g] =
                 [at |-> "setup", id |-> @.id, media |-> 0,
                  armed |-> publishing, again |-> TRUE]]
      <4>1. loop'[g].at = "setup" /\ loop'[g].media = 0
        BY <3>3 DEF TypeOK, GoroutineType
      <4> QED
        BY <2>2, <3>1, <4>1
    <3> QED
      BY <2>13, <3>2, <3>3 DEF Leave
  <2> QED
    BY <1>3, <2>5, <2>6, <2>7, <2>8, <2>9, <2>10, <2>11, <2>12, <2>13
       DEF LoopStep, Round
<1>4. ASSUME NEW s \in Media, TimerRuns(s) \/ PublishURL(s) PROVE DoneIsOver'
  BY <1>1, <1>4 DEF TimerRuns, PublishURL
<1>5. ASSUME NEW c \in Callers, CallerOnReady(c) \/ TurnOff(c) PROVE DoneIsOver'
  BY <1>1, <1>5 DEF CallerOnReady, TurnOff
<1> QED
  BY <1>1, <1>2, <1>3, <1>4, <1>5
     DEF Next, ReceiverStep, ServerStep, LoopStep, vars

(* A recorded item is not that of the session that is connected.           *)
LEMMA RecordedStep ==
  ASSUME TypeOK, OwnInv, DoneIsOver, RecordedIsOver, [Next]_vars
  PROVE  RecordedIsOver'
<1> USE DEF RecordedIsOver
<1>1. ASSUME UNCHANGED itemVars, current' \in {0, current}
      PROVE  RecordedIsOver'
  BY <1>1
<1>2. ASSUME NEW s, CommitStart(s), UNCHANGED current PROVE RecordedIsOver'
  BY <1>2 DEF CommitStart
<1>3. ASSUME NEW c \in Callers, Handler(c) PROVE RecordedIsOver'
  BY <1>1, <1>2, <1>3 DEF Handler, TurnOn, StartAgain, Start, Publish,
     StartPublishing, Disarm, StopContinuous, StopNow, Restart, SetStreamKey,
     Stop, Rekey, CallerOnStart
<1>4. ASSUME NEW g \in Listener, LoopStep(g) PROVE RecordedIsOver'
  <2>1. CASE LoopTop(g) \/ Setup(g) \/ WaitEnds(g) \/ SetEndpoint(g)
             \/ Finalize(g) \/ Cleanup(g)
    BY <1>1, <2>1 DEF LoopTop, Setup, WaitEnds, SetEndpoint, Finalize, Cleanup
  <2>2. CASE Leave(g) \/ Failed(g) \/ LoopOnReady(g) \/ LoopOnRTSPDone(g)
    BY <1>1, <2>2 DEF Leave, Failed, LoopOnReady, LoopOnRTSPDone
  <2>3. CASE LoopOnStart(g)
    BY <1>2, <2>3 DEF LoopOnStart
  <2>4. CASE Accept(g)
    BY <2>4 DEF Accept, TypeOK, SessionType
  <2>5. ASSUME Latest(loop[g].media), loop[g].at \in {"onDone", "mark"}
        PROVE  current = 0
    BY <2>5 DEF Latest, DoneIsOver
  <2>6. CASE LoopOnDone(g)
    <3>1. UNCHANGED current
      BY <2>6 DEF LoopOnDone
    <3>2. CASE DoneCommits(loop[g].media)
      BY <2>5, <2>6, <3>1, <3>2 DEF LoopOnDone, DoneCommits, AtLoop
    <3>3. CASE ~DoneCommits(loop[g].media)
      BY <1>1, <2>6, <3>1, <3>3 DEF LoopOnDone
    <3> QED
      BY <3>2, <3>3
  <2>7. CASE MarkDone(g)
    <3>1. UNCHANGED <<current, shown>>
      BY <2>7 DEF MarkDone
    <3>2. CASE Latest(loop[g].media)
      BY <2>5, <2>7, <3>1, <3>2 DEF MarkDone, AtLoop
    <3>3. CASE ~Latest(loop[g].media)
      BY <2>7, <3>1, <3>3 DEF MarkDone
    <3> QED
      BY <3>2, <3>3
  <2> QED
    BY <1>4, <2>1, <2>2, <2>3, <2>4, <2>6, <2>7 DEF LoopStep, Round
<1>5. ASSUME NEW s \in Media, TimerRuns(s) \/ PublishURL(s)
      PROVE  RecordedIsOver'
  BY <1>1, <1>5 DEF TimerRuns, PublishURL
<1>6. ASSUME NEW c \in Callers, CallerOnReady(c) \/ TurnOff(c)
      PROVE  RecordedIsOver'
  BY <1>1, <1>6 DEF CallerOnReady, TurnOff
<1> QED
  BY <1>1, <1>3, <1>4, <1>5, <1>6
     DEF Next, ReceiverStep, ServerStep, LoopStep, vars

-----------------------------------------------------------------------------
LEMMA InitInv == Init => IInv
<1> SUFFICES ASSUME Init PROVE IInv
  OBVIOUS
<1> USE DEF Init
<1>1. TypeOK
  <2>1. ListenerType
    BY DEF ListenerType
  <2>2. GoroutineType
    BY DEF GoroutineType, Rounds, Calls, LoopSteps, CallSteps, Fresh
  <2>3. SessionType
    BY DEF SessionType, Phases
  <2>4. FlagType
    BY DEF FlagType
  <2> QED
    BY <2>1, <2>2, <2>3, <2>4 DEF TypeOK
<1>2. RunningIsNumbered /\ UnstartedIsOff /\ BusyCallsNothing
  BY DEF RunningIsNumbered, UnstartedIsOff, BusyCallsNothing, Fresh
<1>3. OwnerStreams /\ OwnerOffers /\ UrlIsOfCurrent /\ TimerIsLatest
  BY DEF OwnerStreams, OwnerOffers, UrlIsOfCurrent, TimerIsLatest
<1>4. DoneIsOver /\ RecordedIsOver
  BY DEF DoneIsOver, RecordedIsOver, Fresh
<1> QED
  BY <1>1, <1>2, <1>3, <1>4 DEF IInv

LEMMA NextInv == IInv /\ [Next]_vars => IInv'
BY TypeStep, RunningStep, UnstartedStep, BusyStep, OwnStep, TimerStep, DoneStep,
   RecordedStep DEF IInv, OwnInv

LEMMA Invariance == Spec => []IInv
BY InitInv, NextInv, PTL DEF Spec

(* The state of the Manager has its type in every behaviour.               *)
THEOREM TypeCorrect == Spec => []TypeOK
<1>1. IInv => TypeOK
  BY DEF IInv
<1> QED
  BY <1>1, Invariance, PTL

(* A public URL is shown only for the session that is connected.           *)
THEOREM UrlCorrect == Spec => []UrlIsOfCurrent
<1>1. IInv => UrlIsOfCurrent
  BY DEF IInv
<1> QED
  BY <1>1, Invariance, PTL

-----------------------------------------------------------------------------
(* What a step may not do.                                                 *)

(* A listener that was revoked, but has not ended yet, changes nothing of  *)
(* the Manager: neither the state of its successor nor that of a stop.     *)
THEOREM RevokedLoopCorrect == Spec => RevokedLoopIsInert
<1>1. ASSUME IInv, [Next]_vars, NEW g \in Listener,
             loop[g] # loop'[g], loop[g].at # "off", ~Owns(g)
      PROVE  UNCHANGED <<listenerVars, sessionVars, statusVars, timerVars>>
  <2>1. LoopStep(g)
    <3>1. ASSUME NEW c \in Callers, Handler(c) PROVE FALSE
      <4>1. CASE TurnOn(c) \/ StartAgain(c)
        <5>1. g # listener + 1
          BY <1>1 DEF IInv, TypeOK, ListenerType, UnstartedIsOff
        <5> QED
          BY <1>1, <4>1, <5>1, StartEffect DEF IInv, TypeOK, GoroutineType
      <4>2. CASE ~(TurnOn(c) \/ StartAgain(c))
        BY <1>1, <3>1, <4>2 DEF Handler, Publish, StartPublishing, Disarm,
           StopContinuous, StopNow, Restart, SetStreamKey, Stop, Rekey,
           CallerOnStart
      <4> QED
        BY <4>1, <4>2
    <3>2. ASSUME NEW h \in Listener, LoopStep(h), h # g PROVE FALSE
      BY <1>1, <3>2, LoopStepFrame DEF IInv
    <3>3. ASSUME NEW s \in Media, TimerRuns(s) \/ PublishURL(s) PROVE FALSE
      BY <1>1, <3>3 DEF TimerRuns, PublishURL
    <3>4. ASSUME NEW c \in Callers, CallerOnReady(c) \/ TurnOff(c) PROVE FALSE
      BY <1>1, <3>4 DEF CallerOnReady, TurnOff
    <3> QED
      BY <1>1, <3>1, <3>2, <3>3, <3>4
         DEF Next, ReceiverStep, ServerStep, LoopStep, vars
  <2>2. UNCHANGED <<sessionVars, endpoint, url>>
    BY <1>1, <2>1, OthersTouchNothing DEF IInv, OwnInv
  <2>3. ~MayFinalize(g)
    BY <1>1 DEF IInv, OwnerStreams, MayFinalize, Owns
  <2>4. UNCHANGED <<listenerVars, connected, publishing, continuous, runtime, timerVars>>
    <3>1. CASE LoopTop(g) \/ Setup(g) \/ WaitEnds(g) \/ LoopOnStart(g)
               \/ LoopOnDone(g) \/ MarkDone(g) \/ LoopOnReady(g)
      BY <1>1, <3>1 DEF LoopTop, Setup, WaitEnds, LoopOnStart, LoopOnDone,
         MarkDone, LoopOnReady
    <3>2. CASE Leave(g) \/ Failed(g) \/ LoopOnRTSPDone(g) \/ Cleanup(g)
      BY <1>1, <3>2 DEF Leave, Failed, LoopOnRTSPDone, Cleanup
    <3>3. CASE Accept(g) \/ SetEndpoint(g)
      BY <1>1, <3>3 DEF Accept, MayAccept, SetEndpoint
    <3>4. CASE Finalize(g)
      BY <2>3, <3>4 DEF Finalize
    <3> QED
      BY <2>1, <3>1, <3>2, <3>3, <3>4 DEF LoopStep, Round
  <2> QED
    BY <2>2, <2>4
<1>2. ASSUME IInv, [Next]_vars
      PROVE  \A g \in Listener :
               loop[g] # loop'[g] /\ loop[g].at # "off" /\ ~Owns(g)
                 => UNCHANGED <<listenerVars, sessionVars, statusVars, timerVars>>
  <2> HIDE DEF listenerVars, sessionVars, timerVars
  <2> QED
    BY <1>1, <1>2
<1> QED
  BY <1>2, Invariance, PTL DEF RevokedLoopIsInert, Spec

(* The current item moves forward: from a session to a later one, and from *)
(* live to recorded; a callback that comes late never takes it back.       *)
THEOREM ShownCorrect == Spec => ShownMovesForward
<1> DEFINE Forward ==
      /\ shown' >= shown
      /\ shown' = shown /\ phase \in {"recorded", "converted"} => phase' # "live"
<1>1. ASSUME IInv, [Next]_vars PROVE Forward
  <2> USE <1>1
  <2>1. shown \in Nat
    BY DEF IInv, TypeOK, SessionType
  <2>2. ASSUME UNCHANGED itemVars PROVE Forward
    BY <2>1, <2>2
  <2>3. ASSUME NEW s \in Nat, CommitStart(s) PROVE Forward
    BY <2>1, <2>3 DEF CommitStart, Active, IInv, RecordedIsOver
  <2>4. ASSUME NEW c \in Callers, Handler(c) PROVE Forward
    <3>1. CASE CallerOnStart(c)
      <4>1. caller[c].start \in Nat
        BY DEF IInv, TypeOK, GoroutineType, Calls
      <4> QED
        BY <2>3, <3>1, <4>1 DEF CallerOnStart
    <3>2. CASE ~CallerOnStart(c)
      BY <2>2, <2>4, <3>2 DEF Handler, TurnOn, StartAgain, Start, Publish,
         StartPublishing, Disarm, StopContinuous, StopNow, Restart,
         SetStreamKey, Stop, Rekey
    <3> QED
      BY <3>1, <3>2
  <2>5. ASSUME NEW g \in Listener, LoopStep(g) PROVE Forward
    <3>1. loop[g].media \in Nat
      BY DEF IInv, TypeOK, GoroutineType, Rounds
    <3>2. CASE LoopOnStart(g)
      BY <2>3, <3>1, <3>2 DEF LoopOnStart
    <3>3. CASE LoopOnDone(g)
      BY <2>1, <3>1, <3>3 DEF LoopOnDone, DoneCommits, CommitDone
    <3>4. CASE MarkDone(g)
      BY <2>1, <3>4 DEF MarkDone
    <3>5. CASE ~(LoopOnStart(g) \/ LoopOnDone(g) \/ MarkDone(g))
      BY <2>2, <2>5, <3>5 DEF LoopStep, Round, LoopTop, Setup, Accept, WaitEnds,
         SetEndpoint, Finalize, Cleanup, Leave, Failed, LoopOnReady,
         LoopOnRTSPDone
    <3> QED
      BY <3>2, <3>3, <3>4, <3>5
  <2>6. ASSUME NEW s \in Media, TimerRuns(s) \/ PublishURL(s) PROVE Forward
    BY <2>2, <2>6 DEF TimerRuns, PublishURL
  <2>7. ASSUME NEW c \in Callers, CallerOnReady(c) \/ TurnOff(c) PROVE Forward
    BY <2>2, <2>7 DEF CallerOnReady, TurnOff
  <2> HIDE DEF Forward
  <2> QED
    BY <2>2, <2>4, <2>5, <2>6, <2>7
       DEF Next, ReceiverStep, ServerStep, LoopStep, vars
<1> QED
  BY <1>1, Invariance, PTL DEF ShownMovesForward, Spec

(* A reconnect time-out ends the wait it was set for, never one that began *)
(* later, a publication that was not continuous or a connected stream.     *)
THEOREM TimeoutCorrect == Spec => TimeoutIsOwn
<1>1. ASSUME IInv, [Next]_vars,
             caller[Timeout].at = "idle", caller'[Timeout].at # "idle"
      PROVE  due \ due' = {mediaGen} /\ continuous /\ ~connected
  <2> DEFINE idle == caller'[Timeout].at = "idle"
  <2>1. /\ caller \in [Callers -> Calls] /\ Timeout \in Callers
        /\ caller[Timeout].at = "idle" /\ ~idle
    BY <1>1 DEF IInv, TypeOK, GoroutineType, Callers
  <2> HIDE DEF idle
  <2>2. ASSUME NEW c \in Callers, NEW step, Go(c, step), Free(c) \/ caller[c].at # "idle"
        PROVE  idle
    BY <2>1, <2>2 DEF Free, Go, Calls, idle
  <2>3. PICK s \in Media : TimerRuns(s)
    <3>1. ASSUME NEW c \in Callers, Handler(c) PROVE FALSE
      <4>1. CASE TurnOn(c) \/ StartAgain(c) \/ Rekey(c)
        BY <2>1, <2>2, <4>1 DEF TurnOn, StartAgain, Start, Rekey, At
      <4>2. CASE Publish(c)
        <5>1. PICK rec : caller' = [caller EXCEPT ![c] = rec] /\ rec.at = "idle"
          BY <4>2, PublishEffect
        <5> QED
          BY <2>1, <5>1 DEF idle
      <4>3. CASE StopNow(c) \/ Restart(c) \/ SetStreamKey(c)
        BY <2>1, <2>2, <4>3 DEF StopNow, Restart, SetStreamKey, Stop, At
      <4>4. CASE Disarm(c) \/ CallerOnStart(c)
        BY <2>1, <4>4 DEF Disarm, StopContinuous, CallerOnStart, Calls, idle
      <4> QED
        BY <3>1, <4>1, <4>2, <4>3, <4>4 DEF Handler
    <3>2. ASSUME NEW g \in Listener, LoopStep(g) PROVE FALSE
      BY <1>1, <3>2 DEF LoopStep, Round, LoopTop, Setup, Accept, WaitEnds,
         LoopOnStart, SetEndpoint, Finalize, LoopOnDone, MarkDone, Cleanup,
         Leave, Failed, LoopOnReady, LoopOnRTSPDone
    <3>3. ASSUME NEW s \in Media, PublishURL(s) PROVE FALSE
      BY <1>1, <3>3 DEF PublishURL
    <3>4. ASSUME NEW c \in Callers, CallerOnReady(c) \/ TurnOff(c) PROVE FALSE
      BY <2>1, <2>2, <3>4 DEF CallerOnReady, TurnOff, Calls, idle
    <3> QED
      BY <1>1, <3>1, <3>2, <3>3, <3>4
         DEF Next, ReceiverStep, ServerStep, LoopStep, vars
  <2>4. Expired(s) /\ ~connected /\ publishing /\ continuous
    BY <1>1, <2>3 DEF TimerRuns
  <2>5. s = mediaGen
    BY <1>1, <2>3, <2>4 DEF Expired, IInv, TimerIsLatest
  <2>6. due \ due' = {s}
    BY <2>3 DEF TimerRuns
  <2> QED
    BY <2>4, <2>5, <2>6
<1> QED
  BY <1>1, Invariance, PTL DEF TimeoutIsOwn, Spec

-----------------------------------------------------------------------------
(* The receiver implements ObsSessions.                                    *)
ReadyOf(g) == IF AtLoop(g, "onReady") THEN loop[g].media ELSE 0
DoneOf(g) == IF AtLoop(g, "onRtspDone") THEN loop[g].media ELSE 0

LEMMA ListenersCallNothingElse == Callers \cap Listener = {}
BY DEF Callers

(* A step of a listener touches its own callbacks only.                    *)
LEMMA LoopCalls ==
  ASSUME TypeOK, NEW g \in Listener, LoopStep(g)
  PROVE  /\ RtspReady' = [RtspReady EXCEPT ![g] = ReadyOf(g)']
         /\ RtspDone' = [RtspDone EXCEPT ![g] = DoneOf(g)']
<1>1. \A h \in Listener \ {g} : loop'[h] = loop[h]
  BY LoopStepFrame
<1>2. UNCHANGED caller
  BY DEF LoopStep, Round, LoopTop, Setup, Accept, WaitEnds, LoopOnStart,
     SetEndpoint, Finalize, LoopOnDone, MarkDone, Cleanup, Leave, Failed,
     LoopOnReady, LoopOnRTSPDone
<1> QED
  BY <1>1, <1>2, ListenersCallNothingElse DEF RtspReady, RtspDone, ReadyOf,
     DoneOf, AtLoop

(* A step of a handler touches its own callbacks only.                     *)
LEMMA HandlerCalls ==
  ASSUME TypeOK, NEW c \in Callers,
         \A d \in Callers \ {c} : caller'[d].ready = caller[d].ready,
         \A g \in Listener : ReadyOf(g)' = ReadyOf(g) /\ DoneOf(g)' = DoneOf(g)
  PROVE  /\ RtspReady' = [RtspReady EXCEPT ![c] = caller'[c].ready]
         /\ RtspDone' = RtspDone
BY ListenersCallNothingElse DEF RtspReady, RtspDone, ReadyOf, DoneOf, AtLoop

LEMMA CallsOf ==
  /\ \A c \in Callers : RtspReady[c] = caller[c].ready
  /\ \A g \in Listener : RtspReady[g] = ReadyOf(g) /\ RtspDone[g] = DoneOf(g)
BY ListenersCallNothingElse DEF RtspReady, RtspDone, ReadyOf, DoneOf

Shown == <<mediaGen, current, endpoint, url>>

LEMMA RoundRefines ==
  ASSUME IInv, NEW g \in Listener, LoopStep(g)
  PROVE  [Promise!SessionsNext]_(Promise!svars)
<1> USE DEF IInv, Shown
<1>1. /\ RtspReady' = [RtspReady EXCEPT ![g] = ReadyOf(g)']
      /\ RtspDone' = [RtspDone EXCEPT ![g] = DoneOf(g)']
      /\ RtspReady[g] = ReadyOf(g) /\ RtspDone[g] = DoneOf(g)
  BY LoopCalls, CallsOf
<1>2. /\ ReadyOf(g)' = ReadyOf(g) => UNCHANGED RtspReady
      /\ DoneOf(g)' = DoneOf(g) => UNCHANGED RtspDone
  BY <1>1 DEF RtspReady, RtspDone
<1>3. ASSUME UNCHANGED Shown, loop[g].at \notin {"onReady", "onRtspDone"},
             loop'[g].at \notin {"onReady", "onRtspDone"}
      PROVE  UNCHANGED Promise!svars
  <2>1. ReadyOf(g)' = ReadyOf(g) /\ DoneOf(g)' = DoneOf(g)
    BY <1>3 DEF ReadyOf, DoneOf, AtLoop
  <2> QED
    BY <1>2, <1>3, <2>1 DEF Promise!svars
<1>4. CASE LoopTop(g) \/ Setup(g) \/ WaitEnds(g) \/ LoopOnStart(g)
           \/ LoopOnDone(g) \/ MarkDone(g) \/ Leave(g) \/ Failed(g)
  <2>1. UNCHANGED Shown
    <3>1. CASE Failed(g)
      <4>1. Owns(g) => url = 0
        BY <3>1 DEF Failed, Owns, AtLoop, OwnerStreams, UrlIsOfCurrent, StreamSteps
      <4> QED
        BY <3>1, <4>1 DEF Failed, Shown
    <3>2. CASE ~Failed(g)
      BY <1>4, <3>2 DEF LoopTop, Setup, WaitEnds, LoopOnStart, LoopOnDone,
         MarkDone, Leave, Shown
    <3> QED
      BY <3>1, <3>2
  <2>2. loop[g].at \notin {"onReady", "onRtspDone"}
    BY <1>4 DEF LoopTop, Setup, WaitEnds, LoopOnStart, LoopOnDone, MarkDone,
       Leave, Failed, AtLoop
  <2>3. loop'[g].at \notin {"onReady", "onRtspDone"}
    <3>1. ASSUME NEW step, NEW now, NewRound(g, step, now) PROVE loop'[g].at = step
      BY <3>1 DEF NewRound, Fresh, TypeOK, GoroutineType
    <3>2. CASE LoopTop(g)
      BY <3>1, <3>2, MediaMoves DEF LoopTop
    <3>3. CASE Setup(g) \/ WaitEnds(g) \/ LoopOnStart(g) \/ MarkDone(g) \/ Failed(g)
      BY <3>3, MediaMoves DEF Setup, WaitEnds, LoopOnStart, MarkDone, Failed
    <3>4. CASE LoopOnDone(g)
      BY <3>4, MediaMoves, MediaCalls DEF LoopOnDone
    <3>5. CASE NewRound(g, "top", FALSE) \/ NewRound(g, "failed", FALSE)
      BY <3>1, <3>5
    <3>6. CASE loop' = [loop EXCEPT ![g] =
                 [at |-> "setup", id |-> @.id, media |-> 0,
                  armed |-> publishing, again |-> TRUE]]
      BY <3>6 DEF TypeOK, GoroutineType
    <3> QED
      BY <1>4, <3>2, <3>3, <3>4, <3>5, <3>6 DEF Leave
  <2> QED
    BY <1>3, <2>1, <2>2, <2>3
<1>5. CASE Accept(g)
  <2>1. loop[g].at = "waiting" /\ g = listener /\ running
    BY <1>5 DEF Accept, AtLoop, MayAccept, Owns
  <2>2. current = 0 /\ endpoint = 0 /\ url = 0
    BY <2>1 DEF OwnerStreams, OwnerOffers, UrlIsOfCurrent, StreamSteps, OfferSteps
  <2>3. loop'[g].at \notin {"onReady", "onRtspDone"}
    BY <1>5 DEF Accept, TypeOK, GoroutineType, Rounds
  <2>4. ReadyOf(g) = 0 /\ DoneOf(g) = 0 /\ ReadyOf(g)' = 0 /\ DoneOf(g)' = 0
    BY <2>1, <2>3 DEF ReadyOf, DoneOf, AtLoop
  <2>5. UNCHANGED <<RtspReady, RtspDone>>
    BY <1>2, <2>4
  <2>6. /\ mediaGen < MaxMedia /\ mediaGen' = mediaGen + 1
        /\ current' = mediaGen + 1 /\ UNCHANGED <<endpoint, url>>
    BY <1>5 DEF Accept
  <2> QED
    BY <1>1, <2>2, <2>4, <2>5, <2>6 DEF Promise!Accept, Promise!SessionsNext
<1>6. CASE SetEndpoint(g)
  <2>1. UNCHANGED <<mediaGen, current>> /\ loop[g].at = "endpoint"
    BY <1>6 DEF SetEndpoint, AtLoop
  <2>2. ReadyOf(g) = 0 /\ DoneOf(g) = 0
    BY <2>1 DEF ReadyOf, DoneOf, AtLoop
  <2>3. CASE GoLoop(g, "streaming")
    <3>1. loop'[g].at = "streaming"
      BY <2>3, MediaMoves
    <3>2. CASE UNCHANGED <<endpoint, url>>
      <4>1. UNCHANGED Shown
        BY <2>1, <3>2 DEF Shown
      <4> QED
        BY <1>3, <2>1, <3>1, <4>1
    <3>3. CASE current # 0 /\ endpoint' = current /\ url' = 0
      <4>1. ReadyOf(g)' = 0 /\ DoneOf(g)' = 0
        BY <3>1 DEF ReadyOf, DoneOf, AtLoop
      <4>2. UNCHANGED <<RtspReady, RtspDone>>
        BY <1>2, <2>2, <4>1
      <4> QED
        BY <1>1, <2>1, <2>2, <3>3, <4>2 DEF Promise!Offer, Promise!SessionsNext
    <3> QED
      BY <1>6, <3>2, <3>3 DEF SetEndpoint
  <2>4. CASE /\ CallsBack(g, "onReady", current)
             /\ current # 0 /\ endpoint' = current /\ url' = 0
    <3>1. loop'[g].at = "onReady" /\ loop'[g].media = current
      BY <2>4, MediaCalls
    <3>2. ReadyOf(g)' = current' /\ DoneOf(g)' = 0
      BY <2>1, <3>1 DEF ReadyOf, DoneOf, AtLoop
    <3>3. RtspReady' = [RtspReady EXCEPT ![g] = current]
      BY <1>1, <2>1, <3>2
    <3>4. UNCHANGED RtspDone
      BY <1>2, <2>2, <3>2
    <3> QED
      BY <1>1, <2>1, <2>2, <2>4, <3>3, <3>4 DEF Promise!Offer, Promise!SessionsNext
  <2> QED
    BY <1>6, <2>3, <2>4 DEF SetEndpoint
<1>7. CASE Finalize(g)
  <2>1. PICK step, s :
          /\ loop' = [loop EXCEPT ![g].at = step, ![g].media = s, ![g].armed = FALSE]
          /\ \/ step = "onDone" /\ s = current /\ MayFinalize(g)
             \/ step = "cleanup" /\ s = loop[g].media
    BY <1>7, FinalizeLoop
  <2>2. loop'[g].at = step /\ step \in {"onDone", "cleanup"}
    BY <2>1 DEF TypeOK, GoroutineType, Rounds
  <2>3. loop[g].at = "streaming" /\ UNCHANGED <<mediaGen, endpoint>>
    BY <1>7 DEF Finalize, AtLoop
  <2>4. CASE UNCHANGED <<current, url>>
    <3>1. UNCHANGED Shown
      BY <2>3, <2>4 DEF Shown
    <3> QED
      BY <1>3, <2>2, <2>3, <3>1
  <2>5. CASE current' = 0 /\ url' = 0
    <3>1. ReadyOf(g) = 0 /\ DoneOf(g) = 0 /\ ReadyOf(g)' = 0 /\ DoneOf(g)' = 0
      BY <2>2, <2>3 DEF ReadyOf, DoneOf, AtLoop
    <3>2. UNCHANGED <<RtspReady, RtspDone>>
      BY <1>2, <3>1
    <3> QED
      BY <2>3, <2>5, <3>2 DEF Promise!Disconnect, Promise!SessionsNext
  <2> QED
    BY <1>7, <2>4, <2>5 DEF Finalize
<1>8. CASE Cleanup(g)
  <2>1. UNCHANGED <<mediaGen, current>> /\ loop[g].at = "cleanup"
    BY <1>8 DEF Cleanup, AtLoop
  <2>2. ReadyOf(g) = 0 /\ DoneOf(g) = 0
    BY <2>1 DEF ReadyOf, DoneOf, AtLoop
  <2>3. CASE ~MayClear(g)
    <3>1. UNCHANGED <<endpoint, url>> /\ GoLoop(g, "leave")
      BY <1>8, <2>3 DEF Cleanup
    <3>2. UNCHANGED Shown
      BY <2>1, <3>1 DEF Shown
    <3>3. loop'[g].at = "leave"
      BY <3>1, MediaMoves
    <3> QED
      BY <1>3, <2>1, <3>2, <3>3
  <2>4. CASE MayClear(g)
    <3>1. current = 0 /\ endpoint # 0
      BY <2>1, <2>4 DEF MayClear, OwnerStreams, StreamSteps
    <3>2. endpoint' = 0 /\ url' = 0 /\ CallsBack(g, "onRtspDone", endpoint)
      BY <1>8, <2>4 DEF Cleanup
    <3>3. loop'[g].at = "onRtspDone" /\ loop'[g].media = endpoint
      BY <3>2, MediaCalls
    <3>4. ReadyOf(g)' = 0 /\ RtspDone' = [RtspDone EXCEPT ![g] = endpoint]
      BY <1>1, <3>3 DEF ReadyOf, DoneOf, AtLoop
    <3>5. UNCHANGED RtspReady
      BY <1>2, <2>2, <3>4
    <3> QED
      BY <1>1, <2>1, <2>2, <3>1, <3>2, <3>4, <3>5
         DEF Promise!Withdraw, Promise!SessionsNext
  <2> QED
    BY <2>3, <2>4
<1>9. CASE LoopOnReady(g) \/ LoopOnRTSPDone(g)
  <2>1. UNCHANGED Shown
    BY <1>9 DEF LoopOnReady, LoopOnRTSPDone, Shown
  <2>2. loop'[g].at \in {"streaming", "leave"}
    BY <1>9, MediaMoves DEF LoopOnReady, LoopOnRTSPDone
  <2>3. ReadyOf(g)' = 0 /\ DoneOf(g)' = 0
    BY <2>2 DEF ReadyOf, DoneOf, AtLoop
  <2>4. CASE ReadyOf(g) = 0 /\ DoneOf(g) = 0
    BY <1>2, <2>1, <2>3, <2>4 DEF Promise!svars
  <2>5. CASE ReadyOf(g) # 0
    <3>1. DoneOf(g) = 0
      BY <2>5 DEF ReadyOf, DoneOf, AtLoop
    <3>2. UNCHANGED RtspDone
      BY <1>2, <2>3, <3>1
    <3> QED
      BY <1>1, <2>1, <2>3, <2>5, <3>2
         DEF Shown, Promise!ReadyReturns, Promise!Askers, Promise!SessionsNext
  <2>6. CASE DoneOf(g) # 0
    <3>1. ReadyOf(g) = 0
      BY <2>6 DEF ReadyOf, DoneOf, AtLoop
    <3>2. UNCHANGED RtspReady
      BY <1>2, <2>3, <3>1
    <3> QED
      BY <1>1, <2>1, <2>3, <2>6, <3>2
         DEF Shown, Promise!DoneReturns, Promise!SessionsNext
  <2> QED
    BY <2>4, <2>5, <2>6
<1> QED
  BY <1>4, <1>5, <1>6, <1>7, <1>8, <1>9 DEF LoopStep, Round

(* A step that leaves the rounds alone, and the callbacks of all handlers.  *)
LEMMA QuietStep ==
  ASSUME TypeOK, UNCHANGED loop,
         \A d \in Callers : caller'[d].ready = caller[d].ready
  PROVE  UNCHANGED <<RtspReady, RtspDone>>
BY DEF RtspReady, RtspDone, AtLoop

LEMMA GoKeepsCalls ==
  ASSUME TypeOK, NEW c \in Callers, NEW step, Go(c, step)
  PROVE  \A d \in Callers : caller'[d].ready = caller[d].ready
BY DEF Go, TypeOK, GoroutineType, Calls

LEMMA HandlerRefines ==
  ASSUME IInv, NEW c \in Callers, Handler(c) \/ CallerOnReady(c) \/ TurnOff(c)
  PROVE  [Promise!SessionsNext]_(Promise!svars)
<1> USE DEF IInv
<1>1. CASE TurnOn(c) \/ StartAgain(c)
  <2>1. UNCHANGED Shown
    BY <1>1 DEF TurnOn, StartAgain, Start, Shown
  <2>2. \A d \in Callers : caller'[d].ready = caller[d].ready
    BY <1>1, GoKeepsCalls DEF TurnOn, StartAgain, Start
  <2>3. CASE UNCHANGED loop
    BY <2>1, <2>2, <2>3, QuietStep DEF Shown, Promise!svars
  <2>4. CASE /\ listener < MaxListener
             /\ loop' = [loop EXCEPT ![listener + 1].at = "top"]
    <3>1. listener + 1 \in Listener /\ loop[listener + 1].at = "off"
      BY <2>4 DEF TypeOK, ListenerType, UnstartedIsOff
    <3>2. loop'[listener + 1].at = "top"
      BY <2>4, <3>1 DEF TypeOK, GoroutineType, Rounds
    <3>3. \A g \in Listener \ {listener + 1} : loop'[g] = loop[g]
      BY <2>4, <3>1 DEF TypeOK, GoroutineType
    <3>4. \A g \in Listener : ReadyOf(g)' = ReadyOf(g) /\ DoneOf(g)' = DoneOf(g)
      BY <3>1, <3>2, <3>3 DEF ReadyOf, DoneOf, AtLoop
    <3>5. UNCHANGED <<RtspReady, RtspDone>>
      BY <2>2, <3>4 DEF RtspReady, RtspDone, ReadyOf, DoneOf, AtLoop
    <3> QED
      BY <2>1, <3>5 DEF Shown, Promise!svars
  <2> QED
    BY <1>1, <2>3, <2>4, StartEffect
<1>2. CASE Publish(c)
  <2>1. PICK cont \in BOOLEAN : StartPublishing(c, cont)
    BY <1>2 DEF Publish
  <2>2. UNCHANGED <<Shown, loop>>
    BY <2>1 DEF StartPublishing, Shown
  <2>3. caller[c].ready = 0
    BY <1>2 DEF Publish, Free, Idle, At, BusyCallsNothing
  <2> DEFINE on == current # 0 /\ connected
             again == IF on /\ endpoint # 0 /\ idOf[endpoint] = idOf[current]
                      THEN endpoint ELSE 0
             rec == [at |-> "idle",
                     start |-> IF on /\ ~announced THEN current ELSE 0,
                     ready |-> again]
  <2>4. caller' = [caller EXCEPT ![c] = rec]
    BY <2>1 DEF StartPublishing
  <2>5. caller'[c].ready = again
    BY <2>4 DEF TypeOK, GoroutineType
  <2>6. \A d \in Callers \ {c} : caller'[d] = caller[d]
    BY <2>4 DEF TypeOK, GoroutineType
  <2>7. again # 0 => current # 0 /\ endpoint = current
    BY DEF OwnerStreams, OwnerOffers
  <2> HIDE DEF again, rec
  <2>8. CASE again = 0
    <3>1. \A d \in Callers : caller'[d].ready = caller[d].ready
      BY <2>3, <2>5, <2>6, <2>8
    <3> QED
      BY <2>2, <3>1, QuietStep DEF Shown, Promise!svars
  <2>9. CASE again # 0
    <3>1. \A g \in Listener : ReadyOf(g)' = ReadyOf(g) /\ DoneOf(g)' = DoneOf(g)
      BY <2>2 DEF ReadyOf, DoneOf, AtLoop
    <3>2. /\ RtspReady' = [RtspReady EXCEPT ![c] = again]
          /\ RtspDone' = RtspDone
      BY <2>5, <2>6, <3>1, HandlerCalls
    <3>3. RtspReady[c] = 0 /\ again = endpoint
      BY <2>3, <2>9, CallsOf DEF again
    <3> QED
      BY <2>2, <2>7, <2>9, <3>2, <3>3
         DEF Shown, Promise!OfferAgain, Promise!SessionsNext
  <2> QED
    BY <2>8, <2>9
<1>3. CASE StopNow(c) \/ Restart(c) \/ SetStreamKey(c)
  <2>1. PICK next : Stop(c, next)
    BY <1>3 DEF StopNow, Restart, SetStreamKey
  <2>2. /\ current' = 0 /\ endpoint' = 0 /\ url' = 0
        /\ UNCHANGED <<mediaGen, loop>> /\ Go(c, next)
    BY <2>1 DEF Stop
  <2>3. UNCHANGED <<RtspReady, RtspDone>>
    BY <2>2, GoKeepsCalls, QuietStep
  <2> QED
    BY <2>2, <2>3 DEF Promise!Revoke, Promise!SessionsNext
<1>4. CASE Rekey(c)
  <2>1. /\ current' = 0 /\ url' = 0
        /\ UNCHANGED <<mediaGen, endpoint, loop>> /\ Go(c, "start")
    BY <1>4 DEF Rekey
  <2>2. UNCHANGED <<RtspReady, RtspDone>>
    BY <2>1, GoKeepsCalls, QuietStep
  <2> QED
    BY <2>1, <2>2 DEF Promise!Disconnect, Promise!SessionsNext
<1>5. CASE Disarm(c) \/ CallerOnStart(c) \/ TurnOff(c)
  <2>1. UNCHANGED <<mediaGen, current, endpoint, url, loop>>
    BY <1>5 DEF Disarm, StopContinuous, CallerOnStart, TurnOff
  <2>2. \A d \in Callers : caller'[d].ready = caller[d].ready
    <3>1. CASE Disarm(c) \/ CallerOnStart(c)
      BY <3>1 DEF Disarm, StopContinuous, CallerOnStart, TypeOK, GoroutineType,
         Calls
    <3>2. CASE TurnOff(c)
      BY <3>2, GoKeepsCalls DEF TurnOff
    <3> QED
      BY <1>5, <3>1, <3>2
  <2> QED
    BY <2>1, <2>2, QuietStep DEF Promise!svars
<1>6. CASE CallerOnReady(c)
  <2>1. UNCHANGED <<mediaGen, current, endpoint, url, loop>> /\ caller[c].ready # 0
    BY <1>6 DEF CallerOnReady
  <2>2. /\ caller'[c].ready = 0
        /\ \A d \in Callers \ {c} : caller'[d].ready = caller[d].ready
    BY <1>6 DEF CallerOnReady, TypeOK, GoroutineType, Calls
  <2>3. \A g \in Listener : ReadyOf(g)' = ReadyOf(g) /\ DoneOf(g)' = DoneOf(g)
    BY <2>1 DEF ReadyOf, DoneOf, AtLoop
  <2>4. /\ RtspReady' = [RtspReady EXCEPT ![c] = 0] /\ RtspDone' = RtspDone
    BY <2>2, <2>3, HandlerCalls
  <2> QED
    BY <2>1, <2>4, CallsOf
       DEF Promise!ReadyReturns, Promise!Askers, Promise!SessionsNext
<1> QED
  BY <1>1, <1>2, <1>3, <1>4, <1>5, <1>6 DEF Handler

LEMMA TimerRefines ==
  ASSUME IInv, NEW s \in Media, TimerRuns(s)
  PROVE  UNCHANGED Promise!svars
<1>1. UNCHANGED <<mediaGen, current, endpoint, url, loop>>
  BY DEF TimerRuns
<1>2. \A d \in Callers : caller'[d].ready = caller[d].ready
  BY GoKeepsCalls DEF IInv, TimerRuns, Callers
<1> QED
  BY <1>1, <1>2, QuietStep DEF IInv, Promise!svars

LEMMA PublishURLRefines ==
  ASSUME IInv, NEW s \in Media, PublishURL(s)
  PROVE  Promise!SessionsNext
<1>1. UNCHANGED <<RtspReady, RtspDone>>
  BY DEF PublishURL, RtspReady, RtspDone, AtLoop
<1> QED
  BY <1>1 DEF PublishURL, SetRTSPEndpointURL, Active, Promise!PublishURL,
     Promise!SetRTSPEndpointURL, Promise!Active, Promise!Media,
     Promise!SessionsNext

(* The receiver keeps its promises: every step of it is one that           *)
(* ObsSessions allows, or changes nothing that the server sees.            *)
THEOREM ReceiverKeepsPromise == Spec => KeepsPromise
<1>1. Init => Promise!SessionsInit
  BY DEF Init, Promise!SessionsInit, Promise!Askers, RtspReady, RtspDone, AtLoop,
     Fresh
<1>2. IInv /\ [Next]_vars => [Promise!SessionsNext]_(Promise!svars)
  <2> SUFFICES ASSUME IInv, [Next]_vars
               PROVE  [Promise!SessionsNext]_(Promise!svars)
    OBVIOUS
  <2>1. CASE UNCHANGED vars
    BY <2>1 DEF vars, Promise!svars, RtspReady, RtspDone, AtLoop
  <2> QED
    BY <2>1, RoundRefines, HandlerRefines, TimerRefines, PublishURLRefines
       DEF Next, ReceiverStep, ServerStep, LoopStep
<1> QED
  BY <1>1, <1>2, Invariance, PTL DEF Spec, KeepsPromise, Promise!SessionsSpec

=============================================================================
