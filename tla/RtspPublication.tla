--------------------------- MODULE RtspPublication ---------------------------
(***************************************************************************)
(* The public RTSP address of the OBS stream: what internal/server/        *)
(* server.go does when the receiver says that an endpoint is ready or      *)
(* gone, on top of the receiver's abstract sessions.                       *)
(*                                                                         *)
(* Every OnRTSPReady starts a goroutine that maps the ports of the         *)
(* endpoint on the router through UPnP, which takes seconds, and installs  *)
(* the mapping if the session is still active and no newer OnRTSPReady or  *)
(* close came between.  The router knows ports, not handles: closing a     *)
(* handle deletes the entry of its ports, whoever made it.  A handle is    *)
(* closed after Server.mu is released.  The router may refuse a deletion,  *)
(* or its answer may not come: every caller drops that error and nobody    *)
(* tries again, so the entry stays.                                        *)
(*                                                                         *)
(* Two sessions are given different ports here; the ports of one session   *)
(* are one entry.  The RTSP endpoint of the music radio, which shares the  *)
(* mapping, is not modelled: there is one source.                          *)
(***************************************************************************)
EXTENDS ObsSessions

CONSTANTS
  Publishers,    \* goroutines of publishRTSPReady alive at a time
  Unreliable     \* bound: the sessions for whose ports the router may fail

ASSUME PublishersAssumption == 0 \notin Publishers

VARIABLES
  newest,      \* the goroutine whose number is rtspReadySeq, 0 after a close
  rtspMap,     \* the session of the mapping the server holds, 0 for nil
  publisher,   \* publishRTSPReady, for its session
  closing,     \* the handle each goroutine is about to close, 0 for none
  checked,     \* who found the session of its OnRTSPReady active
  router,      \* the sessions whose ports the router forwards
  stranded,    \* those whose last deletion, or an answer, went wrong
  revoked      \* the newest session when the receiver was last stopped

routerVars == <<router, stranded>>
serverVars == <<newest, rtspMap, publisher, closing, checked, routerVars>>
rtspVars == <<svars, serverVars, revoked>>

Goroutines == Askers \cup Publishers
Steps == {"none", "map", "mapped", "private", "failed", "url"}

(* Type correctness.                                                       *)
RtspTypeOK ==
  /\ newest \in Publishers \cup {0}
  /\ rtspMap \in 0..latest /\ checked \subseteq Askers
  /\ router \subseteq 1..latest /\ stranded \subseteq router
  /\ publisher \in [Publishers -> [at : Steps, media : 0..latest]]
  /\ closing \in [Goroutines -> 0..latest]
  /\ revoked \in 0..latest

RtspInit ==
  /\ SessionsInit
  /\ newest = 0 /\ rtspMap = 0 /\ checked = {} /\ revoked = 0
  /\ router = {} /\ stranded = {}
  /\ publisher = [p \in Publishers |-> [at |-> "none", media |-> 0]]
  /\ closing = [a \in Goroutines |-> 0]
-----------------------------------------------------------------------------
(* The router, as the server finds it.                                     *)

(* The ports of s are forwarded, no longer forwarded, or left forwarded by *)
(* an exchange that the server takes for over.                             *)
Forwarded(s) == router' = router \cup {s} /\ stranded' = stranded \ {s}
Deleted(s) == router' = router \ {s} /\ stranded' = stranded \ {s}
Left(s) ==
  s \in Unreliable /\ router' = router \cup {s} /\ stranded' = stranded \cup {s}
-----------------------------------------------------------------------------
(* Handles.                                                                *)

(* The goroutine a closes its handle, for good; until then it does nothing *)
(* else.                                                                   *)
Busy(a) == closing[a] # 0
CloseHandle(a) ==
  /\ Busy(a)
  /\ Deleted(closing[a]) \/ (closing[a] \in router /\ Left(closing[a]))
  /\ closing' = [closing EXCEPT ![a] = 0]
  /\ UNCHANGED <<svars, newest, rtspMap, publisher, checked, revoked>>

(* closeRTSPMapping: for one endpoint, or, for 0, whatever is there.       *)
CloseMapping(a, s) ==
  IF s # 0 /\ rtspMap # s
  THEN UNCHANGED <<newest, rtspMap, closing>>
  ELSE /\ newest' = 0 /\ rtspMap' = 0
       /\ closing' = [closing EXCEPT ![a] = rtspMap]
-----------------------------------------------------------------------------
(* The callbacks of the receiver and the switch of the user interface.     *)

(* handleRTSPReady looks whether the session is active...                  *)
CheckReady(a) ==
  /\ ready[a] # 0 /\ a \notin checked
  /\ IF Active(ready[a]) THEN checked' = checked \cup {a} /\ UNCHANGED svars
                         ELSE ReadyReturns(a) /\ UNCHANGED checked
  /\ UNCHANGED <<newest, rtspMap, publisher, closing, routerVars, revoked>>

(* ...and takes the next number under Server.mu; the session may have      *)
(* ended in between.                                                       *)
HandleReady(a) ==
  /\ a \in checked /\ checked' = checked \ {a}
  /\ ReadyReturns(a)
  /\ \E p \in Publishers :
       /\ publisher[p].at = "none" /\ ~Busy(p)
       /\ publisher' = [publisher EXCEPT ![p] = [at |-> "map", media |-> ready[a]]]
       /\ newest' = p
  /\ UNCHANGED <<rtspMap, closing, routerVars, revoked>>

(* handleRTSPDone.                                                         *)
HandleDone(g) ==
  /\ DoneReturns(g)
  /\ CloseMapping(g, done[g])
  /\ UNCHANGED <<publisher, checked, routerVars, revoked>>

(* SyncOBSReceiver and StopOBSReceiver close the mapping, and stop the     *)
(* receiver afterwards.                                                    *)
TurnOff(c) ==
  /\ ready[c] = 0 /\ ~Busy(c)
  /\ CloseMapping(c, 0)
  /\ UNCHANGED <<svars, publisher, checked, routerVars, revoked>>

(* A stop or a restart of the receiver; the server only hears of it by the *)
(* callbacks.                                                              *)
StopReceiver ==
  /\ Revoke /\ revoked' = latest
  /\ UNCHANGED serverVars

(* Everything else the receiver does.                                      *)
ReceiverMoves ==
  /\ \/ Disconnect
     \/ \E g \in Listeners : ~Busy(g) /\ (Accept(g) \/ Offer(g) \/ Withdraw(g))
     \/ \E c \in Handlers : ~Busy(c) /\ OfferAgain(c)
  /\ UNCHANGED <<serverVars, revoked>>
-----------------------------------------------------------------------------
(* The goroutine p of publishRTSPReady.                                    *)

Session(p) == publisher[p].media
On(p, step) == publisher[p].at = step /\ ~Busy(p)
Then(p, step) == publisher' = [publisher EXCEPT ![p].at = step]
Ends(p) == publisher' = [publisher EXCEPT ![p] = [at |-> "none", media |-> 0]]

(* A session that has ended is not mapped any more.                        *)
TooLate(p) ==
  /\ On(p, "map") /\ ~Active(Session(p))
  /\ Ends(p)
  /\ UNCHANGED <<svars, newest, rtspMap, closing, checked, routerVars, revoked>>

(* mapRTSPCompatibilityPorts: all ports are mapped, or the first one on an *)
(* address that is not public; or one is not, and those that were mapped   *)
(* are unmapped.  tryMapWithService deletes the entry it cannot make, and  *)
(* one that was made but not confirmed is left.                            *)
MapPorts(p) ==
  /\ On(p, "map")
  /\ \/ Forwarded(Session(p)) /\ (Then(p, "mapped") \/ Then(p, "private"))
     \/ /\ Deleted(Session(p)) \/ Left(Session(p)) \/ UNCHANGED routerVars
        /\ Then(p, "failed")
  /\ UNCHANGED <<svars, newest, rtspMap, closing, checked, revoked>>

(* A mapping that nobody can reach is closed; then, as without a mapping,  *)
(* the URL is withdrawn.                                                   *)
NotPublic(p) ==
  /\ \/ /\ On(p, "private") /\ Then(p, "failed")
        /\ closing' = [closing EXCEPT ![p] = Session(p)] /\ UNCHANGED url
     \/ /\ On(p, "failed") /\ Ends(p)
        /\ SetRTSPEndpointURL(Session(p), 0) /\ UNCHANGED closing
  /\ UNCHANGED <<latest, current, endpoint, ready, done, newest, rtspMap, checked,
                 routerVars, revoked>>

(* The mapping that is replaced is closed; mutant: it is forgotten.        *)
ForgetPrevious(p) == UNCHANGED closing
ClosePrevious(p) == closing' = [closing EXCEPT ![p] = rtspMap]

(* The decision under Server.mu; a mapping that comes too late is closed.  *)
(* Mutant: only a newer OnRTSPReady is too late.                           *)
MayInstallLate(p) == newest = p
MayInstall(p) == newest = p /\ Active(Session(p))
InstallMapping(p) ==
  /\ On(p, "mapped")
  /\ IF MayInstall(p)
     THEN rtspMap' = Session(p) /\ Then(p, "url") /\ ClosePrevious(p)
     ELSE /\ closing' = [closing EXCEPT ![p] = Session(p)] /\ Ends(p)
          /\ UNCHANGED rtspMap
  /\ UNCHANGED <<svars, newest, checked, routerVars, revoked>>

(* The URL is shown, unless the session has ended meanwhile.               *)
ShowURL(p) ==
  /\ On(p, "url")
  /\ SetRTSPEndpointURL(Session(p), Session(p))
  /\ IF Active(Session(p)) THEN UNCHANGED <<newest, rtspMap, closing>>
                           ELSE CloseMapping(p, Session(p))
  /\ Ends(p)
  /\ UNCHANGED <<latest, current, endpoint, ready, done, checked, routerVars, revoked>>

PublishRTSPReady(p) ==
  TooLate(p) \/ MapPorts(p) \/ NotPublic(p) \/ InstallMapping(p) \/ ShowURL(p)
-----------------------------------------------------------------------------
RtspNext ==
  \/ ReceiverMoves \/ StopReceiver
  \/ \E a \in Askers : ~Busy(a) /\ (CheckReady(a) \/ HandleReady(a))
  \/ \E g \in Listeners : ~Busy(g) /\ HandleDone(g)
  \/ \E c \in Handlers : TurnOff(c)
  \/ \E p \in Publishers : PublishRTSPReady(p)
  \/ \E a \in Goroutines : CloseHandle(a)

RtspSpec == RtspInit /\ [][RtspNext]_rtspVars
-----------------------------------------------------------------------------
(* Properties.                                                             *)

Held(s) ==
  \/ rtspMap = s
  \/ \E a \in Goroutines : closing[a] = s
  \/ \E p \in Publishers : publisher[p] \in [at : {"mapped", "private"}, media : {s}]

(* The server loses no handle: the router forwards only ports that the     *)
(* server or a goroutine will still close, and those for which a deletion  *)
(* failed, or an answer was lost, and that were not mapped or deleted      *)
(* since.  Those stay until the ports are mapped again, or until the       *)
(* program ends or starts (CleanupImagePadRTSPMappings).                   *)
MappingHasHolder == \A s \in router : Held(s) \/ s \in stranded

(* The mapping of a session that no stop of the receiver cut off outlives  *)
(* it only until OnRTSPDone has run; no publication that was under way     *)
(* when the stream ended brings it back.                                   *)
MappingEndsWithRound ==
  rtspMap > revoked /\ rtspMap # current
    => endpoint = rtspMap \/ \E g \in Listeners : done[g] = rtspMap
=============================================================================
