------------------------ MODULE RtspPublicationProofs ------------------------
(***************************************************************************)
(* Proofs about RtspPublication, for any number of goroutines and of       *)
(* sessions.                                                               *)
(*                                                                         *)
(* That a forwarded port has a holder is nearly inductive: a goroutine     *)
(* that closes a handle does nothing else, so no handle is overwritten,    *)
(* and what a failed deletion leaves is stranded.                          *)
(* That a mapping ends with its stream rests on OfferedIsKnown: whoever    *)
(* still speaks of the connected session does so after its endpoint was    *)
(* known, and the endpoint is withdrawn after the stream only.             *)
(***************************************************************************)
EXTENDS RtspPublication, TLAPS

SessionsTypeOK ==
  /\ latest \in 0..MaxMedia
  /\ current \in 0..latest /\ endpoint \in 0..latest /\ url \in 0..latest
  /\ ready \in [Askers -> 0..latest] /\ done \in [Listeners -> 0..latest]

(* A publisher that has begun has a session.                               *)
PublishersHaveSession ==
  \A p \in Publishers : publisher[p].at # "none" => Session(p) # 0

(* The endpoint that is known is that of the connected session, if there   *)
(* is one.                                                                 *)
EndpointOfCurrent == current # 0 => endpoint \in {0, current}

Mentioned(s) ==
  \/ rtspMap = s
  \/ \E a \in Askers : ready[a] = s
  \/ \E p \in Publishers : Session(p) = s
OfferedIsKnown == current > revoked /\ Mentioned(current) => endpoint = current

IInv ==
  /\ SessionsTypeOK /\ RtspTypeOK /\ PublishersHaveSession
  /\ EndpointOfCurrent /\ OfferedIsKnown
  /\ MappingHasHolder /\ MappingEndsWithRound
-----------------------------------------------------------------------------
USE ObsSessionsAssumption, PublishersAssumption DEF Media

(* What a step may do to the sessions, by kind: the receiver's own steps   *)
(* and the server's.                                                       *)
USE DEF svars, routerVars, serverVars, rtspVars

LEMMA SessionsTypeStep ==
  ASSUME SessionsTypeOK, [RtspNext]_rtspVars
  PROVE  SessionsTypeOK' /\ latest' >= latest
<1> USE DEF SessionsTypeOK
<1>1. CASE ReceiverMoves
  <2>1. CASE Disconnect
    BY <2>1 DEF Disconnect
  <2>2. ASSUME NEW g \in Listeners, Accept(g) \/ Offer(g) \/ Withdraw(g)
        PROVE  SessionsTypeOK' /\ latest' >= latest
    <3>1. CASE Accept(g)
      BY <3>1 DEF Accept
    <3>2. CASE Offer(g)
      BY <3>2 DEF Offer
    <3>3. CASE Withdraw(g)
      BY <3>3 DEF Withdraw
    <3> QED
      BY <2>2, <3>1, <3>2, <3>3
  <2>3. ASSUME NEW c \in Handlers, OfferAgain(c)
        PROVE  SessionsTypeOK' /\ latest' >= latest
    <3>1. ready' = [ready EXCEPT ![c] = endpoint]
      BY <2>3 DEF OfferAgain
    <3>2. ready' \in [Askers -> 0..latest]
      BY <3>1
    <3>3. UNCHANGED <<latest, current, endpoint, url, done>>
      BY <2>3 DEF OfferAgain
    <3> QED
      BY <3>2, <3>3
  <2> QED
    BY <1>1, <2>1, <2>2, <2>3 DEF ReceiverMoves
<1>2. CASE StopReceiver
  BY <1>2 DEF StopReceiver, Revoke
<1>3. ASSUME NEW a \in Askers, CheckReady(a) \/ HandleReady(a)
      PROVE  SessionsTypeOK' /\ latest' >= latest
  BY <1>3 DEF CheckReady, HandleReady, ReadyReturns
<1>4. ASSUME NEW g \in Listeners, HandleDone(g)
      PROVE  SessionsTypeOK' /\ latest' >= latest
  BY <1>4 DEF HandleDone, DoneReturns
<1>5. ASSUME NEW c \in Handlers, TurnOff(c)
      PROVE  SessionsTypeOK' /\ latest' >= latest
  BY <1>5 DEF TurnOff
<1>6. ASSUME NEW p \in Publishers, PublishRTSPReady(p)
      PROVE  SessionsTypeOK' /\ latest' >= latest
  BY <1>6 DEF PublishRTSPReady, TooLate, MapPorts, NotPublic, InstallMapping,
     ShowURL, SetRTSPEndpointURL, Active
<1>7. ASSUME NEW a \in Goroutines, CloseHandle(a)
      PROVE  SessionsTypeOK' /\ latest' >= latest
  BY <1>7 DEF CloseHandle
<1>8. CASE UNCHANGED rtspVars
  BY <1>8
<1> QED
  BY <1>1, <1>2, <1>3, <1>4, <1>5, <1>6, <1>7, <1>8 DEF RtspNext

(* Types only grow with the number of sessions.                            *)
LEMMA Grows ==
  ASSUME NEW m \in Nat, NEW n \in Nat, m <= n
  PROVE  0..m \subseteq 0..n /\ 1..m \subseteq 1..n
OBVIOUS

LEMMA CloseMappingType ==
  ASSUME SessionsTypeOK, RtspTypeOK, NEW a \in Goroutines, NEW s, CloseMapping(a, s)
  PROVE  /\ newest' \in Publishers \cup {0}
         /\ rtspMap' \in 0..latest
         /\ closing' \in [Goroutines -> 0..latest]
<1>1. CASE UNCHANGED <<newest, rtspMap, closing>>
  BY <1>1 DEF RtspTypeOK
<1>2. CASE newest' = 0 /\ rtspMap' = 0 /\ closing' = [closing EXCEPT ![a] = rtspMap]
  <2>1. 0 \in 0..latest
    BY DEF SessionsTypeOK
  <2> QED
    BY <1>2, <2>1 DEF RtspTypeOK
<1> QED
  BY <1>1, <1>2 DEF CloseMapping

(* The types of the server's variables, with the sessions of before.       *)
ServerTypeOK(n) ==
  /\ newest' \in Publishers \cup {0}
  /\ rtspMap' \in 0..n /\ checked' \subseteq Askers
  /\ router' \subseteq 1..n /\ stranded' \subseteq router'
  /\ publisher' \in [Publishers -> [at : Steps, media : 0..n]]
  /\ closing' \in [Goroutines -> 0..n]
  /\ revoked' \in 0..n

LEMMA ServerTypeStep ==
  ASSUME SessionsTypeOK, RtspTypeOK, PublishersHaveSession, [RtspNext]_rtspVars
  PROVE  ServerTypeOK(latest)
<1> USE DEF ServerTypeOK, RtspTypeOK
<1>0. Askers \subseteq Goroutines /\ Handlers \subseteq Askers
      /\ Listeners \subseteq Askers /\ Publishers \subseteq Goroutines
  BY DEF Goroutines, Askers
<1>1. CASE ReceiverMoves
  BY <1>1 DEF ReceiverMoves
<1>2. CASE StopReceiver
  BY <1>2 DEF StopReceiver, SessionsTypeOK
<1>3. ASSUME NEW a \in Askers, HandleReady(a) PROVE ServerTypeOK(latest)
  <2>1. ready[a] \in 0..latest
    BY DEF SessionsTypeOK
  <2> QED
    BY <1>3, <2>1 DEF HandleReady, Steps
<1>4. ASSUME NEW g \in Listeners, HandleDone(g) PROVE ServerTypeOK(latest)
  BY <1>0, <1>4, CloseMappingType DEF HandleDone
<1>5. ASSUME NEW c \in Handlers, TurnOff(c) PROVE ServerTypeOK(latest)
  BY <1>0, <1>5, CloseMappingType DEF TurnOff
<1>6. ASSUME NEW p \in Publishers, PublishRTSPReady(p) PROVE ServerTypeOK(latest)
  <2>1. p \in Goroutines /\ Session(p) \in 0..latest /\ 0 \in 0..latest
    BY <1>0 DEF Session, SessionsTypeOK
  <2>2. ASSUME Ends(p) PROVE publisher' \in [Publishers -> [at : Steps, media : 0..latest]]
    BY <2>1, <2>2 DEF Ends, Steps
  <2>3. ASSUME NEW step \in Steps, Then(p, step)
        PROVE  publisher' \in [Publishers -> [at : Steps, media : 0..latest]]
    BY <2>1, <2>3 DEF Then
  <2>4. CASE TooLate(p)
    BY <2>2, <2>4 DEF TooLate
  <2>5. CASE MapPorts(p)
    <3>1. Session(p) \in 1..latest
      BY <2>1, <2>5 DEF MapPorts, On, PublishersHaveSession, SessionsTypeOK
    <3>2. publisher' \in [Publishers -> [at : Steps, media : 0..latest]]
      BY <2>3, <2>5 DEF MapPorts, Steps
    <3>3. router' \subseteq 1..latest /\ stranded' \subseteq router'
      BY <2>5, <3>1 DEF MapPorts, Forwarded, Deleted, Left
    <3> QED
      BY <2>5, <3>2, <3>3 DEF MapPorts
  <2>6. CASE NotPublic(p)
    <3>1. CASE Then(p, "failed") /\ closing' = [closing EXCEPT ![p] = Session(p)]
      BY <2>1, <2>3, <2>6, <3>1 DEF NotPublic, Steps
    <3>2. CASE Ends(p) /\ UNCHANGED closing
      BY <2>2, <2>6, <3>2 DEF NotPublic
    <3> QED
      BY <2>6, <3>1, <3>2 DEF NotPublic
  <2>7. CASE InstallMapping(p)
    <3>1. CASE MayInstall(p)
      BY <2>1, <2>3, <2>7, <3>1 DEF InstallMapping, ClosePrevious, Steps
    <3>2. CASE ~MayInstall(p)
      BY <2>1, <2>2, <2>7, <3>2 DEF InstallMapping
    <3> QED
      BY <3>1, <3>2
  <2>8. CASE ShowURL(p)
    BY <2>1, <2>2, <2>8, CloseMappingType DEF ShowURL
  <2> QED
    BY <1>6, <2>4, <2>5, <2>6, <2>7, <2>8 DEF PublishRTSPReady
<1>7. ASSUME NEW a \in Goroutines, CloseHandle(a) PROVE ServerTypeOK(latest)
  <2>1. 0 \in 0..latest
    BY DEF SessionsTypeOK
  <2>2. router' \subseteq 1..latest /\ stranded' \subseteq router'
    BY <1>7 DEF CloseHandle, Deleted, Left
  <2> QED
    BY <1>7, <2>1, <2>2 DEF CloseHandle
<1>8. CASE UNCHANGED rtspVars
  BY <1>8
<1>9. ASSUME NEW a \in Askers, CheckReady(a) PROVE ServerTypeOK(latest)
  BY <1>9 DEF CheckReady
<1> QED
  BY <1>1, <1>2, <1>3, <1>4, <1>5, <1>6, <1>7, <1>8, <1>9 DEF RtspNext

LEMMA TypeStep ==
  ASSUME SessionsTypeOK, RtspTypeOK, PublishersHaveSession, [RtspNext]_rtspVars
  PROVE  SessionsTypeOK' /\ RtspTypeOK'
<1>1. SessionsTypeOK' /\ latest' >= latest
  BY SessionsTypeStep
<1>2. 0..latest \subseteq 0..latest' /\ 1..latest \subseteq 1..latest'
  BY <1>1, Grows DEF SessionsTypeOK
<1> QED
  BY <1>1, <1>2, ServerTypeStep DEF ServerTypeOK, RtspTypeOK

LEMMA PublishersStep ==
  ASSUME SessionsTypeOK, RtspTypeOK, PublishersHaveSession, [RtspNext]_rtspVars
  PROVE  PublishersHaveSession'
<1> USE DEF PublishersHaveSession, Session
<1>1. ASSUME UNCHANGED publisher PROVE PublishersHaveSession'
  BY <1>1
<1>2. ASSUME NEW a \in Askers, HandleReady(a) PROVE PublishersHaveSession'
  BY <1>2 DEF HandleReady, ReadyReturns, RtspTypeOK
<1>3. ASSUME NEW p \in Publishers, PublishRTSPReady(p) PROVE PublishersHaveSession'
  <2>1. ASSUME Ends(p) PROVE PublishersHaveSession'
    BY <2>1 DEF Ends, RtspTypeOK
  <2>2. ASSUME NEW step, Then(p, step), publisher[p].at # "none"
        PROVE  PublishersHaveSession'
    BY <2>2 DEF Then, RtspTypeOK
  <2>3. CASE TooLate(p) \/ ShowURL(p)
    BY <2>1, <2>3 DEF TooLate, ShowURL
  <2>4. CASE MapPorts(p) \/ NotPublic(p) \/ InstallMapping(p)
    BY <2>1, <2>2, <2>4 DEF MapPorts, NotPublic, InstallMapping, On
  <2> QED
    BY <1>3, <2>3, <2>4 DEF PublishRTSPReady
<1> QED
  BY <1>1, <1>2, <1>3 DEF RtspNext, ReceiverMoves, StopReceiver, CheckReady,
     HandleDone, TurnOff, CloseHandle

(* One endpoint at a time.                                                 *)
LEMMA EndpointStep ==
  ASSUME SessionsTypeOK, EndpointOfCurrent, [RtspNext]_rtspVars
  PROVE  EndpointOfCurrent'
<1> USE DEF EndpointOfCurrent
<1>1. CASE UNCHANGED <<current, endpoint>>
  BY <1>1
<1>2. CASE Disconnect \/ Revoke
  BY <1>2 DEF Disconnect, Revoke
<1>3. ASSUME NEW g \in Listeners, Accept(g) \/ Offer(g) \/ Withdraw(g)
      PROVE  EndpointOfCurrent'
  BY <1>3 DEF Accept, Offer, Withdraw
<1> QED
  BY <1>1, <1>2, <1>3 DEF RtspNext, ReceiverMoves, StopReceiver, OfferAgain,
     CheckReady, HandleReady, ReadyReturns, HandleDone, DoneReturns, TurnOff, PublishRTSPReady,
     TooLate, MapPorts, NotPublic, InstallMapping, ShowURL, CloseHandle

(* Nobody begins to speak of a session by a step of the server.            *)
LEMMA MentionedStep ==
  ASSUME SessionsTypeOK, RtspTypeOK, NEW s, s # 0, Mentioned(s)',
         \/ \E a \in Askers : CheckReady(a) \/ HandleReady(a)
         \/ \E g \in Listeners : HandleDone(g)
         \/ \E c \in Handlers : TurnOff(c)
         \/ \E p \in Publishers : PublishRTSPReady(p)
         \/ \E a \in Goroutines : CloseHandle(a)
  PROVE  Mentioned(s)
<1> USE DEF Mentioned, Session, SessionsTypeOK, RtspTypeOK
<1>1. ASSUME NEW a \in Askers, CheckReady(a) \/ HandleReady(a) PROVE Mentioned(s)
  BY <1>1 DEF CheckReady, HandleReady, ReadyReturns
<1>2. ASSUME NEW g \in Listeners, HandleDone(g) PROVE Mentioned(s)
  BY <1>2 DEF HandleDone, DoneReturns, CloseMapping
<1>3. ASSUME NEW c \in Handlers, TurnOff(c) PROVE Mentioned(s)
  BY <1>3 DEF TurnOff, CloseMapping
<1>4. ASSUME NEW p \in Publishers, PublishRTSPReady(p) PROVE Mentioned(s)
  <2>1. ASSUME Ends(p) PROVE \A q \in Publishers : publisher'[q].media \in {0, publisher[q].media}
    BY <2>1 DEF Ends
  <2>2. ASSUME NEW step, Then(p, step)
        PROVE  \A q \in Publishers : publisher'[q].media = publisher[q].media
    BY <2>2 DEF Then
  <2>3. \A q \in Publishers : publisher'[q].media \in {0, publisher[q].media}
    BY <1>4, <2>1, <2>2 DEF PublishRTSPReady, TooLate, MapPorts, NotPublic,
       InstallMapping, ShowURL
  <2>4. ready' = ready /\ rtspMap' \in {0, rtspMap, publisher[p].media}
    BY <1>4 DEF PublishRTSPReady, TooLate, MapPorts, NotPublic, InstallMapping,
       ShowURL, CloseMapping
  <2> QED
    BY <2>3, <2>4
<1>5. ASSUME NEW a \in Goroutines, CloseHandle(a) PROVE Mentioned(s)
  BY <1>5 DEF CloseHandle
<1> QED
  BY <1>1, <1>2, <1>3, <1>4, <1>5

LEMMA OfferedStep ==
  ASSUME SessionsTypeOK, RtspTypeOK, RtspTypeOK', OfferedIsKnown, [RtspNext]_rtspVars
  PROVE  OfferedIsKnown'
<1> USE DEF OfferedIsKnown
<1>0. revoked \in Nat /\ revoked' \in Nat /\ latest \in Nat
  BY DEF RtspTypeOK, SessionsTypeOK, RtspNext, ReceiverMoves, StopReceiver
<1>1. ASSUME UNCHANGED <<current, endpoint, revoked>>,
             \A s : s # 0 /\ Mentioned(s)' => Mentioned(s)
      PROVE  OfferedIsKnown'
  BY <1>0, <1>1 DEF Mentioned, Session, SessionsTypeOK
<1>2. CASE Disconnect \/ StopReceiver
  BY <1>0, <1>2 DEF Disconnect, StopReceiver, Revoke
<1>3. ASSUME NEW g \in Listeners, Accept(g), UNCHANGED <<serverVars, revoked>>
      PROVE  OfferedIsKnown'
  <2>1. ~Mentioned(latest + 1)
    BY <1>0 DEF Mentioned, Session, SessionsTypeOK, RtspTypeOK
  <2>2. current' = latest + 1 /\ ready' = ready
    BY <1>3 DEF Accept
  <2> QED
    BY <1>3, <2>1, <2>2 DEF Mentioned, Session
<1>4. ASSUME NEW g \in Listeners, Offer(g) PROVE OfferedIsKnown'
  BY <1>4 DEF Offer
<1>5. ASSUME NEW g \in Listeners, Withdraw(g), UNCHANGED revoked PROVE OfferedIsKnown'
  BY <1>0, <1>5 DEF Withdraw
<1>6. ASSUME NEW c \in Handlers, OfferAgain(c) PROVE OfferedIsKnown'
  BY <1>6 DEF OfferAgain
<1>7. CASE \/ \E a \in Askers : CheckReady(a) \/ HandleReady(a)
           \/ \E g \in Listeners : HandleDone(g)
           \/ \E c \in Handlers : TurnOff(c)
           \/ \E p \in Publishers : PublishRTSPReady(p)
           \/ \E a \in Goroutines : CloseHandle(a)
  <2>1. UNCHANGED <<current, endpoint, revoked>>
    BY <1>7 DEF CheckReady, HandleReady, ReadyReturns, HandleDone, DoneReturns, TurnOff,
       PublishRTSPReady, TooLate, MapPorts, NotPublic, InstallMapping, ShowURL,
       CloseHandle
  <2> QED
    BY <1>1, <1>7, <2>1, MentionedStep
<1>8. CASE UNCHANGED rtspVars
  BY <1>8 DEF Mentioned, Session
<1> QED
  BY <1>2, <1>3, <1>4, <1>5, <1>6, <1>7, <1>8 DEF RtspNext, ReceiverMoves
-----------------------------------------------------------------------------
(* Handles change hands, and are not lost.                                 *)
LEMMA CloseMappingKeepsHolders ==
  ASSUME RtspTypeOK, NEW a \in Goroutines, ~Busy(a), NEW d, CloseMapping(a, d),
         UNCHANGED publisher, NEW s, Held(s)
  PROVE  Held(s)' \/ s = 0
<1>1. CASE UNCHANGED <<newest, rtspMap, closing>>
  BY <1>1 DEF Held
<1>2. CASE closing' = [closing EXCEPT ![a] = rtspMap]
  <2>1. closing'[a] = rtspMap /\ \A b \in Goroutines : b # a => closing'[b] = closing[b]
    BY <1>2 DEF RtspTypeOK
  <2>2. closing[a] = 0
    BY DEF Busy
  <2> QED
    BY <2>1, <2>2 DEF Held
<1> QED
  BY <1>1, <1>2 DEF CloseMapping

LEMMA HolderStep ==
  ASSUME SessionsTypeOK, RtspTypeOK, MappingHasHolder, [RtspNext]_rtspVars
  PROVE  MappingHasHolder'
<1> SUFFICES ASSUME NEW s \in router', s \notin stranded' PROVE Held(s)'
  BY DEF MappingHasHolder
<1>0. Askers \subseteq Goroutines /\ Handlers \subseteq Askers
      /\ Listeners \subseteq Askers /\ Publishers \subseteq Goroutines
  BY DEF Goroutines, Askers
<1>1. s \in router /\ s \notin stranded => Held(s) /\ s # 0
  BY DEF MappingHasHolder, RtspTypeOK
<1>2. CASE UNCHANGED serverVars
  BY <1>1, <1>2 DEF Held
<1>3. ASSUME NEW a \in Askers, HandleReady(a) PROVE Held(s)'
  <2>1. UNCHANGED <<routerVars, rtspMap, closing>>
    BY <1>3 DEF HandleReady
  <2>2. \A p \in Publishers : publisher[p].at # "none" => publisher'[p] = publisher[p]
    BY <1>3 DEF HandleReady, RtspTypeOK
  <2> QED
    BY <1>1, <2>1, <2>2 DEF Held
<1>4. ASSUME NEW a \in Goroutines, ~Busy(a), NEW d, CloseMapping(a, d),
             UNCHANGED <<publisher, routerVars>>
      PROVE  Held(s)'
  BY <1>1, <1>4, CloseMappingKeepsHolders
<1>5. ASSUME NEW p \in Publishers, PublishRTSPReady(p), ~Busy(p) PROVE Held(s)'
  <2>1. \A q \in Publishers : q # p => publisher'[q] = publisher[q]
    <3>1. ASSUME Ends(p) PROVE \A q \in Publishers : q # p => publisher'[q] = publisher[q]
      BY <3>1 DEF Ends
    <3>2. ASSUME NEW step, Then(p, step)
          PROVE  \A q \in Publishers : q # p => publisher'[q] = publisher[q]
      BY <3>2 DEF Then
    <3> QED
      BY <1>5, <3>1, <3>2 DEF PublishRTSPReady, TooLate, MapPorts, NotPublic,
         InstallMapping, ShowURL
  <2>2. closing[p] = 0 /\ p \in Goroutines
    BY <1>0, <1>5 DEF Busy
  <2>3. CASE TooLate(p)
    BY <1>1, <2>1, <2>3 DEF TooLate, On, Held
  <2>4. CASE MapPorts(p)
    <3>1. rtspMap' = rtspMap /\ closing' = closing /\ publisher[p].at = "map"
      BY <2>4 DEF MapPorts, On
    <3>2. s \in router /\ s \notin stranded => Held(s)'
      BY <1>1, <2>1, <3>1 DEF Held
    <3>3. ASSUME s \notin router \/ s \in stranded PROVE Held(s)'
      <4>1. s = Session(p) /\ (Then(p, "mapped") \/ Then(p, "private"))
        BY <2>4, <3>3 DEF MapPorts, Forwarded, Deleted, Left
      <4>2. publisher'[p] \in [at : {"mapped", "private"}, media : {s}]
        BY <4>1 DEF Then, Session, RtspTypeOK
      <4> QED
        BY <4>2 DEF Held
    <3> QED
      BY <3>2, <3>3
  <2>5. CASE NotPublic(p)
    <3>1. UNCHANGED <<routerVars, rtspMap>>
      BY <2>5 DEF NotPublic
    <3>2. CASE On(p, "failed") /\ UNCHANGED closing
      BY <1>1, <2>1, <3>1, <3>2 DEF On, Held
    <3>3. CASE closing' = [closing EXCEPT ![p] = Session(p)]
      <4>1. closing'[p] = publisher[p].media
            /\ \A b \in Goroutines : b # p => closing'[b] = closing[b]
        BY <2>2, <3>3 DEF RtspTypeOK, Session
      <4> QED
        BY <1>1, <2>1, <2>2, <3>1, <4>1 DEF Held
    <3> QED
      BY <2>5, <3>2, <3>3 DEF NotPublic
  <2>6. CASE InstallMapping(p)
    <3>1. UNCHANGED routerVars
      BY <2>6 DEF InstallMapping
    <3>2. CASE MayInstall(p)
      <4>1. rtspMap' = publisher[p].media /\ closing' = [closing EXCEPT ![p] = rtspMap]
        BY <2>6, <3>2 DEF InstallMapping, ClosePrevious, Session
      <4>2. closing'[p] = rtspMap /\ \A b \in Goroutines : b # p => closing'[b] = closing[b]
        BY <2>2, <4>1 DEF RtspTypeOK
      <4> QED
        BY <1>1, <2>1, <2>2, <3>1, <4>1, <4>2 DEF Held
    <3>3. CASE ~MayInstall(p)
      <4>1. rtspMap' = rtspMap /\ closing' = [closing EXCEPT ![p] = publisher[p].media]
        BY <2>6, <3>3 DEF InstallMapping, Session
      <4>2. closing'[p] = publisher[p].media
            /\ \A b \in Goroutines : b # p => closing'[b] = closing[b]
        BY <2>2, <4>1 DEF RtspTypeOK
      <4> QED
        BY <1>1, <2>1, <2>2, <3>1, <4>1, <4>2 DEF Held
    <3> QED
      BY <3>2, <3>3
  <2>7. CASE ShowURL(p)
    <3>1. UNCHANGED routerVars /\ publisher[p].at = "url"
      BY <2>7 DEF ShowURL, On
    <3>2. CASE UNCHANGED <<newest, rtspMap, closing>>
      BY <1>1, <2>1, <3>1, <3>2 DEF Held
    <3>3. CASE closing' = [closing EXCEPT ![p] = rtspMap]
      <4>1. closing'[p] = rtspMap /\ \A b \in Goroutines : b # p => closing'[b] = closing[b]
        BY <2>2, <3>3 DEF RtspTypeOK
      <4> QED
        BY <1>1, <2>1, <2>2, <3>1, <4>1 DEF Held
    <3> QED
      BY <2>7, <3>2, <3>3 DEF ShowURL, CloseMapping
  <2> QED
    BY <1>5, <2>3, <2>4, <2>5, <2>6, <2>7 DEF PublishRTSPReady
<1>6. ASSUME NEW a \in Goroutines, CloseHandle(a) PROVE Held(s)'
  <2>1. /\ s \in router /\ s \notin stranded /\ s # closing[a]
        /\ rtspMap' = rtspMap /\ publisher' = publisher
    BY <1>6 DEF CloseHandle, Deleted, Left
  <2>2. \A b \in Goroutines : b # a => closing'[b] = closing[b]
    BY <1>6 DEF CloseHandle, RtspTypeOK
  <2> QED
    BY <1>1, <2>1, <2>2 DEF Held
<1>7. CASE ReceiverMoves \/ StopReceiver
  BY <1>2, <1>7 DEF ReceiverMoves, StopReceiver
<1>12. ASSUME NEW a \in Askers, CheckReady(a) PROVE Held(s)'
  BY <1>1, <1>12 DEF CheckReady, Held
<1>8. ASSUME NEW g \in Listeners, ~Busy(g), HandleDone(g) PROVE Held(s)'
  BY <1>0, <1>4, <1>8 DEF HandleDone
<1>9. ASSUME NEW c \in Handlers, TurnOff(c) PROVE Held(s)'
  BY <1>0, <1>4, <1>9 DEF TurnOff
<1>10. ASSUME NEW p \in Publishers, PublishRTSPReady(p) PROVE ~Busy(p)
  BY <1>10 DEF PublishRTSPReady, TooLate, MapPorts, NotPublic, InstallMapping,
     ShowURL, On
<1>11. CASE UNCHANGED rtspVars
  BY <1>2, <1>11
<1> QED
  BY <1>3, <1>5, <1>6, <1>7, <1>8, <1>9, <1>10, <1>11, <1>12 DEF RtspNext

(* A mapping whose stream has ended waits for its OnRTSPDone.              *)
LEMMA EndsStep ==
  ASSUME SessionsTypeOK, SessionsTypeOK', RtspTypeOK, RtspTypeOK', EndpointOfCurrent,
         OfferedIsKnown, MappingEndsWithRound, [RtspNext]_rtspVars
  PROVE  MappingEndsWithRound'
<1> USE DEF MappingEndsWithRound
<1>0. revoked \in Nat /\ revoked' \in Nat /\ latest \in Nat /\ rtspMap \in Nat
  BY DEF RtspTypeOK, SessionsTypeOK, RtspNext, ReceiverMoves, StopReceiver
<1>1. ASSUME UNCHANGED <<current, endpoint, done, revoked>>, rtspMap' \in {0, rtspMap, current}
      PROVE  MappingEndsWithRound'
  BY <1>0, <1>1
<1>2. CASE ReceiverMoves
  <2>1. rtspMap' = rtspMap /\ revoked' = revoked
    BY <1>2 DEF ReceiverMoves
  <2>2. CASE Disconnect
    BY <1>0, <2>1, <2>2 DEF Disconnect, OfferedIsKnown, Mentioned
  <2>3. ASSUME NEW g \in Listeners, Accept(g) PROVE MappingEndsWithRound'
    BY <1>0, <2>1, <2>3 DEF Accept
  <2>4. ASSUME NEW g \in Listeners, Offer(g) PROVE MappingEndsWithRound'
    BY <1>0, <2>1, <2>4 DEF Offer, EndpointOfCurrent
  <2>5. ASSUME NEW g \in Listeners, Withdraw(g) PROVE MappingEndsWithRound'
    <3>1. done'[g] = endpoint /\ \A h \in Listeners : h # g => done'[h] = done[h]
      BY <2>5 DEF Withdraw, SessionsTypeOK
    <3> QED
      BY <1>0, <2>1, <2>5, <3>1 DEF Withdraw
  <2>6. ASSUME NEW c \in Handlers, OfferAgain(c) PROVE MappingEndsWithRound'
    BY <1>1, <2>1, <2>6 DEF OfferAgain
  <2> QED
    BY <1>2, <2>2, <2>3, <2>4, <2>5, <2>6 DEF ReceiverMoves
<1>3. CASE StopReceiver
  BY <1>0, <1>3 DEF StopReceiver, RtspTypeOK, SessionsTypeOK
<1>4. ASSUME NEW g \in Listeners, HandleDone(g) PROVE MappingEndsWithRound'
  <2>1. UNCHANGED <<current, endpoint, revoked>>
    BY <1>4 DEF HandleDone, DoneReturns
  <2>2. \A h \in Listeners : h # g => done'[h] = done[h]
    BY <1>4 DEF HandleDone, DoneReturns
  <2>3. CASE rtspMap' = 0
    BY <1>0, <2>1, <2>3
  <2>4. CASE done[g] # 0 /\ rtspMap # done[g] /\ rtspMap' = rtspMap
    BY <2>1, <2>2, <2>4
  <2> QED
    BY <1>4, <2>3, <2>4 DEF HandleDone, CloseMapping
<1>5. ASSUME NEW p \in Publishers, PublishRTSPReady(p) PROVE MappingEndsWithRound'
  <2>1. UNCHANGED <<current, endpoint, done, revoked>>
    BY <1>5 DEF PublishRTSPReady, TooLate, MapPorts, NotPublic, InstallMapping, ShowURL
  <2>2. rtspMap' \in {0, rtspMap, current}
    BY <1>5 DEF PublishRTSPReady, TooLate, MapPorts, NotPublic, InstallMapping,
       ShowURL, CloseMapping, MayInstall, Active
  <2> QED
    BY <1>1, <2>1, <2>2
<1>6. ASSUME NEW a \in Askers, CheckReady(a) \/ HandleReady(a) PROVE MappingEndsWithRound'
  BY <1>1, <1>6 DEF CheckReady, HandleReady, ReadyReturns
<1>7. ASSUME NEW c \in Handlers, TurnOff(c) PROVE MappingEndsWithRound'
  BY <1>1, <1>7 DEF TurnOff, CloseMapping
<1>8. ASSUME NEW a \in Goroutines, CloseHandle(a) PROVE MappingEndsWithRound'
  BY <1>1, <1>8 DEF CloseHandle
<1>9. CASE UNCHANGED rtspVars
  BY <1>1, <1>9
<1> QED
  BY <1>2, <1>3, <1>4, <1>5, <1>6, <1>7, <1>8, <1>9 DEF RtspNext
-----------------------------------------------------------------------------
LEMMA InitInvariant == RtspInit => IInv
<1> SUFFICES ASSUME RtspInit PROVE IInv
  OBVIOUS
<1> USE DEF RtspInit, SessionsInit
<1>1. SessionsTypeOK
  BY DEF SessionsTypeOK
<1>2. RtspTypeOK
  BY DEF RtspTypeOK, Steps
<1>3. PublishersHaveSession /\ EndpointOfCurrent
  BY DEF PublishersHaveSession, EndpointOfCurrent
<1>4. OfferedIsKnown /\ MappingEndsWithRound /\ MappingHasHolder
  BY DEF OfferedIsKnown, MappingEndsWithRound, MappingHasHolder
<1> QED
  BY <1>1, <1>2, <1>3, <1>4 DEF IInv

LEMMA StepInvariant == IInv /\ [RtspNext]_rtspVars => IInv'
<1> SUFFICES ASSUME IInv, [RtspNext]_rtspVars PROVE IInv'
  OBVIOUS
<1> USE DEF IInv
<1>1. SessionsTypeOK' /\ RtspTypeOK' /\ PublishersHaveSession'
  BY TypeStep, PublishersStep
<1>2. EndpointOfCurrent' /\ OfferedIsKnown'
  BY <1>1, EndpointStep, OfferedStep
<1>3. MappingHasHolder' /\ MappingEndsWithRound'
  BY <1>1, HolderStep, EndsStep
<1> QED
  BY <1>1, <1>2, <1>3

LEMMA Invariant == RtspSpec => []IInv
  BY InitInvariant, StepInvariant, PTL DEF RtspSpec

(* Types, for any number of goroutines: whatever is mapped, published or   *)
(* closed is of a session that was accepted.                               *)
THEOREM RtspTypeCorrect == RtspSpec => []RtspTypeOK
<1>1. IInv => RtspTypeOK
  BY DEF IInv
<1> QED
  BY <1>1, Invariant, PTL

(* A port stays open on the router without somebody who will close it only *)
(* because the router failed a deletion or lost an answer: the handle      *)
(* passes from the goroutine that made it to Server.rtspMap and to the     *)
(* goroutine that closes it, whatever OBS and the user do.                 *)
THEOREM HolderCorrect == RtspSpec => []MappingHasHolder
<1>1. IInv => MappingHasHolder
  BY DEF IInv
<1> QED
  BY <1>1, Invariant, PTL

(* A mapping whose stream has ended is taken down by OnRTSPDone, which is  *)
(* still to run: no publication that was under way when OBS disconnected   *)
(* installs it afterwards.                                                 *)
THEOREM EndsCorrect == RtspSpec => []MappingEndsWithRound
<1>1. IInv => MappingEndsWithRound
  BY DEF IInv
<1> QED
  BY <1>1, Invariant, PTL
=============================================================================
