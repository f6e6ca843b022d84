----------------------------- MODULE ObsReceiver -----------------------------
(***************************************************************************)
(* The OBS receiver: Manager of internal/obsrtmp/manager.go and the        *)
(* callbacks of internal/server/server.go that turn its sessions into the  *)
(* current item.                                                           *)
(*                                                                         *)
(* Start runs a listener goroutine, named by its listener generation.      *)
(* Stop revokes the generation and cancels, but a restart waits for the    *)
(* goroutine 8 seconds at most: old and new listeners may run side by      *)
(* side.  One round of a listener waits for a stream, which becomes the    *)
(* current media session when it is accepted.  HTTP handlers arm and       *)
(* disarm publishing meanwhile.  Every callback is called after            *)
(* Manager.mu is released, so it may run late.                             *)
(*                                                                         *)
(* A media session is named by its media generation.  Direct AirPlay       *)
(* sessions, which share the Manager, are not modelled here.               *)
(***************************************************************************)
EXTENDS Naturals

CONSTANTS
  Clients,       \* goroutines of the HTTP handlers
  Timeout,       \* the goroutine that a reconnect time-out runs on
  MaxListener,   \* bound on listenerGeneration
  MaxMedia       \* bound on mediaGeneration

ASSUME ObsReceiverAssumption ==
  /\ Timeout \notin Clients
  /\ (Clients \cup {Timeout}) \cap Nat = {}
  /\ MaxListener \in Nat /\ MaxMedia \in Nat

Callers == Clients \cup {Timeout}
Listener == 1..MaxListener
Media == 1..MaxMedia

VARIABLES
  listener,     \* listenerGeneration
  running,
  canceled,     \* the listeners whose context is cancelled
  loop,         \* the goroutine of each listener
  mediaGen,     \* mediaGeneration, and latestMediaGeneration with it
  idOf,         \* the session id of each session: the first session with it
  current,      \* m.current, 0 for nil
  announced,    \* m.current.Published
  connected, publishing, continuous,  \* status.Connected, .Publishing, ...
  endpoint,     \* the session of m.rtspEndpoint, 0 for nil
  url,          \* the session whose public URL is status.RTSPTURL, 0 for ""
  runtime,      \* the listener that installed m.mtx, 0 for nil
  timer,        \* publishDisconnectTimer: the session it was set for, or 0
  due,          \* timer goroutines that may still run
  caller,       \* the goroutines of the HTTP handlers and of the time-out
  shown,        \* Server.obsCallbackGeneration: the session of the OBS item
  phase         \* what the library was last told of that item

sessionVars == <<mediaGen, idOf, current, announced>>
statusVars == <<connected, publishing, continuous, endpoint, url, runtime>>
listenerVars == <<listener, running, canceled>>
timerVars == <<timer, due>>
itemVars == <<shown, phase>>
vars == <<listenerVars, loop, sessionVars, statusVars, timerVars, caller, itemVars>>

LoopSteps == {"off", "top", "setup", "waiting", "onStart", "endpoint", "onReady",
              "streaming", "onDone", "mark", "cleanup", "onRtspDone", "leave",
              "failed", "exited"}
CallSteps == {"idle", "publish", "stop", "restart", "start", "rekey"}
Phases == {"none", "live", "recorded", "converted"}

(* Type correctness: a session that is current was accepted, and a URL or  *)
(* an endpoint never names a session that was not.                         *)
Rounds == [at : LoopSteps, id : 0..MaxMedia, media : 0..MaxMedia,
           armed : BOOLEAN, again : BOOLEAN]
Calls == [at : CallSteps, start : 0..MaxMedia, ready : 0..MaxMedia]

ListenerType ==
  /\ listener \in 0..MaxListener /\ canceled \subseteq 1..listener
  /\ runtime \in 0..MaxListener
GoroutineType == loop \in [Listener -> Rounds] /\ caller \in [Callers -> Calls]
SessionType ==
  /\ mediaGen \in 0..MaxMedia /\ idOf \in [Media -> 0..MaxMedia]
  /\ current \in 0..mediaGen /\ endpoint \in 0..mediaGen /\ url \in 0..mediaGen
  /\ timer \in 0..mediaGen /\ due \subseteq 1..mediaGen
  /\ shown \in 0..mediaGen /\ phase \in Phases
FlagType ==
  /\ running \in BOOLEAN /\ announced \in BOOLEAN /\ connected \in BOOLEAN
  /\ publishing \in BOOLEAN /\ continuous \in BOOLEAN
TypeOK == ListenerType /\ GoroutineType /\ SessionType /\ FlagType

(* The locals of a round that begins.                                      *)
Fresh(step, now) == [at |-> step, id |-> 0, media |-> 0, armed |-> now, again |-> FALSE]

Init ==
  /\ listener = 0 /\ running = FALSE /\ canceled = {}
  /\ loop = [g \in Listener |-> Fresh("off", FALSE)]
  /\ mediaGen = 0 /\ idOf = [s \in Media |-> 0] /\ current = 0 /\ announced = FALSE
  /\ connected = FALSE /\ publishing = FALSE /\ continuous = FALSE
  /\ endpoint = 0 /\ url = 0 /\ runtime = 0 /\ timer = 0 /\ due = {}
  /\ caller = [c \in Callers |-> [at |-> "idle", start |-> 0, ready |-> 0]]
  /\ shown = 0 /\ phase = "none"

-----------------------------------------------------------------------------
(* What the callbacks ask the Manager, and what they do to the library.    *)

Owns(g) == g = listener /\ running
Active(s) == s # 0 /\ current = s
Latest(s) == s = mediaGen /\ (current = 0 \/ current = s \/ idOf[current] = idOf[s])

(* The part under obsCommitMu of handleOBSStreamStart, for a session that  *)
(* may have ended since the callback was called, and its mutant.           *)
CommitStartLate(s) ==
  IF s >= shown THEN shown' = s /\ phase' = "live"
                ELSE UNCHANGED itemVars
CommitStart(s) ==
  IF Active(s) /\ s >= shown
  THEN shown' = s /\ phase' = "live"
  ELSE UNCHANGED itemVars

(* The part under obsCommitMu of handleOBSStreamDone: TRUE if it commits.  *)
DoneCommits(s) == Latest(s) /\ s >= shown
CommitDone(s) == shown' = s /\ phase' = "recorded"

(* timer.Stop: a goroutine that was already started is not called back.    *)
CancelTimer ==
  /\ timer' = 0
  /\ due' \in {due, due \ {timer}}
-----------------------------------------------------------------------------
(* The operations of the HTTP handlers.                                    *)

At(c, step) == caller[c].at = step
Idle(c) == At(c, "idle") /\ caller[c].start = 0 /\ caller[c].ready = 0
Free(c) == c \in Clients /\ Idle(c)
Go(c, step) == caller' = [caller EXCEPT ![c].at = step]

(* Start: nothing if it is running, or while a direct backend has not been *)
(* confirmed gone.                                                         *)
Start(c, next) ==
  /\ \/ /\ ~running /\ listener < MaxListener
        /\ listener' = listener + 1 /\ running' = TRUE
        /\ loop' = [loop EXCEPT ![listener + 1].at = "top"]
     \/ UNCHANGED <<listener, running, loop>>
  /\ Go(c, next)
  /\ UNCHANGED <<canceled, sessionVars, statusVars, timerVars, itemVars>>

(* Stop and StopAndWait: the generation is revoked and everything the old  *)
(* listener installed is forgotten before it is cancelled.  The caller     *)
(* goes on when the listener has ended or after the time-out.              *)
Stop(c, next) ==
  /\ listener < MaxListener
  /\ listener' = listener + 1 /\ running' = FALSE
  /\ canceled' = IF running THEN canceled \cup {listener} ELSE canceled
  /\ CancelTimer
  /\ current' = 0 /\ announced' = FALSE
  /\ connected' = FALSE /\ publishing' = FALSE /\ continuous' = FALSE
  /\ endpoint' = 0 /\ url' = 0 /\ runtime' = 0
  /\ Go(c, next)
  /\ UNCHANGED <<loop, mediaGen, idOf, itemVars>>

(* SetStreamKey, after its StopAndWait and before its Start.               *)
Rekey(c) ==
  /\ At(c, "rekey")
  /\ current' = 0 /\ announced' = FALSE /\ url' = 0 /\ publishing' = FALSE
  /\ Go(c, "start")
  /\ UNCHANGED <<listenerVars, loop, mediaGen, idOf, connected, continuous, endpoint,
                 runtime, timerVars, itemVars>>

(* startPublishing: the stream that is connected is announced, and its     *)
(* endpoint handed out again, by the caller.                               *)
StartPublishing(c, cont) ==
  LET on == current # 0 /\ connected IN
  /\ CancelTimer
  /\ publishing' = TRUE /\ continuous' = cont
  /\ announced' = (announced \/ on)
  /\ caller' = [caller EXCEPT ![c] =
       [at |-> "idle",
        start |-> IF on /\ ~announced THEN current ELSE 0,
        ready |-> IF on /\ endpoint # 0 /\ idOf[endpoint] = idOf[current]
                  THEN endpoint ELSE 0]]
  /\ UNCHANGED <<listenerVars, loop, mediaGen, idOf, current, connected, endpoint, url,
                 runtime, itemVars>>

(* StopContinuousPublishing: ordinary publishing is left alone.            *)
StopContinuous(c) ==
  /\ continuous
  /\ CancelTimer
  /\ continuous' = FALSE /\ publishing' = FALSE
  /\ UNCHANGED <<listenerVars, loop, sessionVars, connected, endpoint, url, runtime,
                 caller, itemVars>>

(* The callbacks that StartPublishing calls: OnStart, then OnRTSPReady.    *)
CallerOnStart(c) ==
  /\ caller[c].start # 0
  /\ CommitStart(caller[c].start)
  /\ caller' = [caller EXCEPT ![c].start = 0]
  /\ UNCHANGED <<listenerVars, loop, sessionVars, statusVars, timerVars>>

CallerOnReady(c) ==
  /\ caller[c].start = 0 /\ caller[c].ready # 0
  /\ caller' = [caller EXCEPT ![c].ready = 0]
  /\ UNCHANGED <<listenerVars, loop, sessionVars, statusVars, timerVars, itemVars>>

(* The handlers: SyncOBSReceiver, the relay configuration, publishing of   *)
(* OBS and of AirPlay, the end of a stream or a new latency, a new key.    *)
TurnOn(c) == Free(c) /\ \E next \in {"idle", "publish"} : Start(c, next)
Publish(c) ==
  \/ Free(c) /\ \E cont \in BOOLEAN : StartPublishing(c, cont)
  \/ At(c, "publish") /\ StartPublishing(c, FALSE)
Disarm(c) == Free(c) /\ StopContinuous(c)
TurnOff(c) ==
  /\ Free(c) /\ Go(c, "stop")
  /\ UNCHANGED <<listenerVars, loop, sessionVars, statusVars, timerVars, itemVars>>
StopNow(c) == At(c, "stop") /\ Stop(c, "idle")
Restart(c) == (Free(c) \/ At(c, "restart")) /\ Stop(c, "start")
StartAgain(c) == At(c, "start") /\ Start(c, "idle")
SetStreamKey(c) == Free(c) /\ Stop(c, "rekey")

Handler(c) ==
  \/ TurnOn(c) \/ Publish(c) \/ Disarm(c) \/ StopNow(c) \/ Restart(c)
  \/ StartAgain(c) \/ SetStreamKey(c) \/ Rekey(c) \/ CallerOnStart(c)

(* The goroutine of the timer set for session t; mutant: any timer counts. *)
ExpiredAny(t) == TRUE
Expired(t) == timer = t
TimerRuns(t) ==
  /\ t \in due /\ Idle(Timeout)
  /\ due' = due \ {t}
  /\ timer' = IF Expired(t) THEN 0 ELSE timer
  /\ IF Expired(t) /\ ~connected /\ publishing /\ continuous
     THEN /\ publishing' = FALSE /\ continuous' = FALSE
          /\ \E next \in {"idle", "restart"} : Go(Timeout, next)
     ELSE UNCHANGED <<publishing, continuous, caller>>
  /\ UNCHANGED <<listenerVars, loop, sessionVars, connected, endpoint, url, runtime,
                 itemVars>>

(* SetRTSPEndpointURL: the server publishes, or withdraws, the URL of s.   *)
SetRTSPEndpointURL(s, u) ==
  url' = IF Active(s) THEN u ELSE url
PublishURL(s) ==
  /\ \E u \in {0, s} : SetRTSPEndpointURL(s, u)
  /\ UNCHANGED <<listenerVars, loop, sessionVars, connected, publishing, continuous,
                 endpoint, runtime, timerVars, caller, itemVars>>
-----------------------------------------------------------------------------
(* The listener goroutine: loop, runOne and runOneWithContract.            *)

AtLoop(g, step) == loop[g].at = step
GoLoop(g, step) == loop' = [loop EXCEPT ![g].at = step, ![g].media = 0]
CallsBack(g, step, s) == loop' = [loop EXCEPT ![g].at = step, ![g].media = s]
NewRound(g, step, now) == loop' = [loop EXCEPT ![g] = Fresh(step, now)]

(* Top of the loop: the end, or a round with a session id of its own and   *)
(* the publishing flag of now; or the tools are not there.                 *)
LoopTop(g) ==
  /\ AtLoop(g, "top")
  /\ IF g \in canceled THEN GoLoop(g, "exited")
     ELSE \/ NewRound(g, "setup", publishing)
          \/ GoLoop(g, "failed")
  /\ UNCHANGED <<listenerVars, sessionVars, statusVars, timerVars, caller, itemVars>>

(* The runtime is installed and the status says listening, unless the      *)
(* generation was revoked or something fails.                              *)
Setup(g) ==
  /\ AtLoop(g, "setup")
  /\ \/ /\ Owns(g)
        /\ runtime' \in {runtime, g} /\ connected' = FALSE
        /\ GoLoop(g, "waiting")
     \/ GoLoop(g, "leave") /\ UNCHANGED <<runtime, connected>>
  /\ UNCHANGED <<listenerVars, sessionVars, publishing, continuous, endpoint, url,
                 timerVars, caller, itemVars>>

(* acceptSession: a revoked listener accepts nothing.                      *)
MayAcceptLate(g) == running
MayAccept(g) == Owns(g)
Accept(g) ==
  /\ AtLoop(g, "waiting") /\ MayAccept(g) /\ mediaGen < MaxMedia
  /\ LET s == mediaGen + 1
         id == IF loop[g].id = 0 THEN s ELSE loop[g].id
     IN /\ mediaGen' = s /\ idOf' = [idOf EXCEPT ![s] = id]
        /\ current' = s /\ announced' = publishing /\ connected' = TRUE
        /\ loop' = [loop EXCEPT ![g].id = id, ![g].media = IF publishing THEN s ELSE 0,
                                ![g].at = IF publishing THEN "onStart" ELSE "endpoint"]
  /\ CancelTimer
  /\ UNCHANGED <<listenerVars, publishing, continuous, endpoint, url, runtime, caller,
                 itemVars>>

(* The context ends, the process ends or the session is not accepted.      *)
WaitEnds(g) ==
  /\ AtLoop(g, "waiting")
  /\ GoLoop(g, "cleanup")
  /\ UNCHANGED <<listenerVars, sessionVars, statusVars, timerVars, caller, itemVars>>

LoopOnStart(g) ==
  /\ AtLoop(g, "onStart")
  /\ CommitStart(loop[g].media)
  /\ GoLoop(g, "endpoint")
  /\ UNCHANGED <<listenerVars, sessionVars, statusVars, timerVars, caller>>

(* setRTSPEndpointForGeneration, when the transport is RTSP.               *)
SetEndpoint(g) ==
  /\ AtLoop(g, "endpoint")
  /\ \/ /\ Owns(g) /\ current # 0 /\ idOf[current] = loop[g].id
        /\ endpoint' = current /\ url' = 0
        /\ IF publishing THEN CallsBack(g, "onReady", current) ELSE GoLoop(g, "streaming")
     \/ GoLoop(g, "streaming") /\ UNCHANGED <<endpoint, url>>
  /\ UNCHANGED <<listenerVars, sessionVars, connected, publishing, continuous, runtime,
                 timerVars, caller, itemVars>>

LoopOnReady(g) ==
  /\ AtLoop(g, "onReady") /\ GoLoop(g, "streaming")
  /\ UNCHANGED <<listenerVars, sessionVars, statusVars, timerVars, caller, itemVars>>

(* The test with which finalizeAcceptedSession, and the cleanup below,     *)
(* keep a listener that was replaced away from its successor; mutant.      *)
MayFinalizeLate(g) == current # 0
MayFinalize(g) == g = listener /\ current # 0 /\ idOf[current] = loop[g].id

(* The stream ends: continuous publishing waits for it to come back, any   *)
(* other ends with it.  The session is done if it was published, or if     *)
(* publishing was on when the round began.                                 *)
Finalize(g) ==
  /\ AtLoop(g, "streaming")
  /\ IF MayFinalize(g)
     THEN /\ connected' = FALSE /\ url' = 0 /\ current' = 0 /\ announced' = FALSE
          /\ IF publishing /\ continuous
             THEN /\ timer' = current
                  /\ due' \in {due \cup {current}, (due \ {timer}) \cup {current}}
                  /\ UNCHANGED <<publishing, continuous>>
             ELSE /\ CancelTimer
                  /\ publishing' = FALSE /\ continuous' = FALSE
          /\ loop' = [loop EXCEPT ![g] =
               IF @.armed \/ announced
               THEN [@ EXCEPT !.at = "onDone", !.media = current, !.armed = FALSE]
               ELSE [@ EXCEPT !.at = "cleanup", !.armed = FALSE]]
     ELSE /\ loop' = [loop EXCEPT ![g].at = "cleanup", ![g].armed = FALSE]
          /\ UNCHANGED <<connected, url, current, announced, publishing, continuous,
                         timerVars>>
  /\ UNCHANGED <<listenerVars, mediaGen, idOf, endpoint, runtime, caller, itemVars>>

LoopOnDone(g) ==
  /\ AtLoop(g, "onDone")
  /\ IF DoneCommits(loop[g].media)
     THEN CommitDone(loop[g].media) /\ CallsBack(g, "mark", loop[g].media)
     ELSE GoLoop(g, "cleanup") /\ UNCHANGED itemVars
  /\ UNCHANGED <<listenerVars, sessionVars, statusVars, timerVars, caller>>

(* The generated files make the item a converted one, if it is the latest. *)
MarkDone(g) ==
  /\ AtLoop(g, "mark")
  /\ phase' \in {phase} \cup (IF Latest(loop[g].media) /\ shown = loop[g].media
                              THEN {"converted"} ELSE {})
  /\ GoLoop(g, "cleanup")
  /\ UNCHANGED <<listenerVars, sessionVars, statusVars, timerVars, caller, shown>>

(* The deferred cleanup: clearRTSPEndpointForGeneration, with its callback *)
(* OnRTSPDone, then the runtime.                                           *)
MayClear(g) == g = listener /\ endpoint # 0 /\ idOf[endpoint] = loop[g].id
Cleanup(g) ==
  /\ AtLoop(g, "cleanup")
  /\ IF MayClear(g)
     THEN /\ endpoint' = 0 /\ url' = 0
          /\ CallsBack(g, "onRtspDone", endpoint)
     ELSE GoLoop(g, "leave") /\ UNCHANGED <<endpoint, url>>
  /\ UNCHANGED <<listenerVars, sessionVars, connected, publishing, continuous, runtime,
                 timerVars, caller, itemVars>>

LoopOnRTSPDone(g) ==
  /\ AtLoop(g, "onRtspDone") /\ GoLoop(g, "leave")
  /\ UNCHANGED <<listenerVars, sessionVars, statusVars, timerVars, caller, itemVars>>

(* The round is over.  After an error of a hardware encoder it is repeated *)
(* once, under the same session id.                                        *)
Leave(g) ==
  /\ AtLoop(g, "leave")
  /\ runtime' = IF Owns(g) /\ runtime = g THEN 0 ELSE runtime
  /\ \/ NewRound(g, "top", FALSE)
     \/ g \notin canceled /\ NewRound(g, "failed", FALSE)
     \/ /\ g \notin canceled /\ ~loop[g].again
        /\ loop' = [loop EXCEPT ![g] = [at |-> "setup", id |-> @.id, media |-> 0,
                                       armed |-> publishing, again |-> TRUE]]
  /\ UNCHANGED <<listenerVars, sessionVars, connected, publishing, continuous, endpoint,
                 url, timerVars, caller, itemVars>>

(* The error goes to the status, if the listener is not revoked.           *)
Failed(g) ==
  /\ AtLoop(g, "failed")
  /\ IF Owns(g) THEN connected' = FALSE /\ url' = 0
               ELSE UNCHANGED <<connected, url>>
  /\ GoLoop(g, "top")
  /\ UNCHANGED <<listenerVars, sessionVars, publishing, continuous, endpoint, runtime,
                 timerVars, caller, itemVars>>

(* The steps of a listener except those that call the server about RTSP.   *)
Round(g) ==
  \/ LoopTop(g) \/ Setup(g) \/ Accept(g) \/ WaitEnds(g) \/ LoopOnStart(g)
  \/ SetEndpoint(g) \/ Finalize(g) \/ LoopOnDone(g) \/ MarkDone(g)
  \/ Cleanup(g) \/ Leave(g) \/ Failed(g)
-----------------------------------------------------------------------------
ReceiverStep ==
  \/ \E c \in Callers : Handler(c)
  \/ \E t \in Media : TimerRuns(t)
  \/ \E g \in Listener : Round(g)

(* The server's part in what concerns RTSP, as the Manager sees it.        *)
ServerStep ==
  \/ \E c \in Callers : CallerOnReady(c) \/ TurnOff(c)
  \/ \E g \in Listener : LoopOnReady(g) \/ LoopOnRTSPDone(g)
  \/ \E s \in Media : PublishURL(s)

Next == ReceiverStep \/ ServerStep

Spec == Init /\ [][Next]_vars
-----------------------------------------------------------------------------
(* Properties.                                                             *)

(* A public URL is shown only for the session that is connected, whatever  *)
(* late publication or late cleanup touches it.                            *)
UrlIsOfCurrent == url # 0 => current = url

(* A listener that was revoked, but has not ended yet, changes nothing of  *)
(* the Manager: neither the state of its successor nor that of a stop.     *)
RevokedLoopIsInert ==
  [][\A g \in Listener :
       loop[g] # loop'[g] /\ loop[g].at # "off" /\ ~Owns(g)
         => UNCHANGED <<listenerVars, sessionVars, statusVars, timerVars>>]_vars

(* The current item moves forward: from a session to a later one, and from *)
(* live to recorded; a callback that comes late never takes it back.       *)
ShownMovesForward ==
  [][/\ shown' >= shown
     /\ shown' = shown /\ phase \in {"recorded", "converted"} => phase' # "live"]_vars

(* A reconnect time-out ends the wait it was set for, never one that began *)
(* later, a publication that was not continuous or a connected stream.     *)
TimeoutIsOwn ==
  [][caller[Timeout].at = "idle" /\ caller'[Timeout].at # "idle"
       => due \ due' = {mediaGen} /\ continuous /\ ~connected]_vars
-----------------------------------------------------------------------------
(* What the receiver promises to the server: the abstract sessions, with   *)
(* the calls about RTSP that its goroutines are making.                    *)
RtspReady ==
  [a \in Callers \cup Listener |->
     IF a \in Callers THEN caller[a].ready
     ELSE IF AtLoop(a, "onReady") THEN loop[a].media ELSE 0]
RtspDone ==
  [g \in Listener |-> IF AtLoop(g, "onRtspDone") THEN loop[g].media ELSE 0]

Promise == INSTANCE ObsSessions
  WITH Handlers <- Callers, Listeners <- Listener, latest <- mediaGen,
       ready <- RtspReady, done <- RtspDone

KeepsPromise == Promise!SessionsSpec
=============================================================================
