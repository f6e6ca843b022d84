----------------------------- MODULE ObsSessions -----------------------------
(***************************************************************************)
(* What the OBS receiver promises to the rest of the server: one session   *)
(* is connected at a time, sessions are numbered upwards, an RTSP endpoint *)
(* and a public URL belong to the connected session, and the callbacks     *)
(* OnRTSPReady and OnRTSPDone are made by goroutines that do nothing else  *)
(* until the callback returns.  It promises nothing about when a callback  *)
(* runs, nor that every session that had OnRTSPReady gets OnRTSPDone:      *)
(* Revoke forgets the session without one.                                 *)
(*                                                                         *)
(* ObsReceiver implements it; RtspPublication is built on it.              *)
(***************************************************************************)
EXTENDS Naturals

CONSTANTS
  Handlers,     \* goroutines of the HTTP handlers
  Listeners,    \* goroutines that listen for a stream
  MaxMedia      \* bound on the number of sessions

ASSUME ObsSessionsAssumption == MaxMedia \in Nat

Askers == Handlers \cup Listeners
Media == 1..MaxMedia

VARIABLES
  latest,       \* the newest session
  current,      \* the session that is connected, 0 for none
  endpoint,     \* the session whose RTSP endpoint is known, 0 for none
  url,          \* the session whose public URL is shown, 0 for none
  ready,        \* the OnRTSPReady each goroutine is to make, 0 for none
  done          \* the OnRTSPDone each listener is to make, 0 for none

svars == <<latest, current, endpoint, url, ready, done>>

SessionsInit ==
  /\ latest = 0 /\ current = 0 /\ endpoint = 0 /\ url = 0
  /\ ready = [a \in Askers |-> 0]
  /\ done = [g \in Listeners |-> 0]

(* IsSessionActive.                                                        *)
Active(s) == s # 0 /\ current = s

(* A stream connects.                                                      *)
Accept(g) ==
  /\ current = 0 /\ endpoint = 0 /\ url = 0
  /\ ready[g] = 0 /\ done[g] = 0
  /\ latest < MaxMedia
  /\ latest' = latest + 1 /\ current' = latest + 1
  /\ UNCHANGED <<endpoint, url, ready, done>>

(* Its endpoint is known, and handed out if publishing is armed.           *)
Offer(g) ==
  /\ current # 0 /\ ready[g] = 0
  /\ endpoint' = current /\ url' = 0
  /\ ready' \in {ready, [ready EXCEPT ![g] = current]}
  /\ UNCHANGED <<latest, current, done>>

(* Publishing is armed, perhaps once more, while the stream is connected.  *)
OfferAgain(c) ==
  /\ current # 0 /\ endpoint = current /\ ready[c] = 0
  /\ ready' = [ready EXCEPT ![c] = endpoint]
  /\ UNCHANGED <<latest, current, endpoint, url, done>>

(* The stream ends, or its public state is forgotten.                      *)
Disconnect ==
  /\ current' = 0 /\ url' = 0
  /\ UNCHANGED <<latest, endpoint, ready, done>>

(* After the end of a stream its endpoint is withdrawn.                    *)
Withdraw(g) ==
  /\ current = 0 /\ endpoint # 0 /\ done[g] = 0
  /\ endpoint' = 0 /\ url' = 0
  /\ done' = [done EXCEPT ![g] = endpoint]
  /\ UNCHANGED <<latest, current, ready>>

(* The receiver is stopped or restarted.                                   *)
Revoke ==
  /\ current' = 0 /\ endpoint' = 0 /\ url' = 0
  /\ UNCHANGED <<latest, ready, done>>

ReadyReturns(a) ==
  /\ ready[a] # 0 /\ ready' = [ready EXCEPT ![a] = 0]
  /\ UNCHANGED <<latest, current, endpoint, url, done>>

DoneReturns(g) ==
  /\ done[g] # 0 /\ done' = [done EXCEPT ![g] = 0]
  /\ UNCHANGED <<latest, current, endpoint, url, ready>>

(* The server publishes or withdraws the URL of s.                         *)
SetRTSPEndpointURL(s, u) == url' = IF Active(s) THEN u ELSE url
PublishURL(s) ==
  /\ \E u \in {0, s} : SetRTSPEndpointURL(s, u)
  /\ UNCHANGED <<latest, current, endpoint, ready, done>>

SessionsNext ==
  \/ Disconnect \/ Revoke
  \/ \E g \in Listeners : Accept(g) \/ Offer(g) \/ Withdraw(g) \/ DoneReturns(g)
  \/ \E c \in Handlers : OfferAgain(c)
  \/ \E a \in Askers : ReadyReturns(a)
  \/ \E s \in Media : PublishURL(s)

SessionsSpec == SessionsInit /\ [][SessionsNext]_svars
=============================================================================
