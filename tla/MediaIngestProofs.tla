-------------------------- MODULE MediaIngestProofs --------------------------
(***************************************************************************)
(* Theorems about MediaIngest, for any number of requests of any kinds.    *)
(***************************************************************************)
EXTENDS MediaIngest, TLAPS

(* What the theorems about the slot need of the types: every handler keeps *)
(* to its own steps.                                                       *)
SlotTyped ==
  /\ kind \in [Requests -> Kinds] /\ pc \in [Requests -> Steps] /\ slot \in BOOLEAN
  /\ \A r \in Requests : Planned(kind[r], pc[r])

(* A step of a handler of some kind from a to b that takes the slot from s *)
(* to t: a handler that comes to owe a release has found the slot free,    *)
(* unless it seizes it; one that no longer owes leaves it free; the others *)
(* leave or refresh it.                                                    *)
Permitted(k, a, b, s, t) ==
  /\ Planned(k, b)
  /\ \/ (Owing(k, a) <=> Owing(k, b)) /\ t = s
     \/ Owing(k, a) /\ Owing(k, b) /\ t
     \/ ~Owing(k, a) /\ Owing(k, b) /\ t /\ (~s \/ k = "audio")
     \/ Owing(k, a) /\ ~Owing(k, b) /\ ~t

SlotMove(r) ==
  /\ kind' = kind
  /\ pc' \in [Requests -> Steps] /\ slot' \in BOOLEAN
  /\ \A q \in Requests \ {r} : pc'[q] = pc[q]
  /\ Permitted(kind[r], pc[r], pc'[r], slot, slot')

(* Every step of a handler is such a move.                                 *)
LEMMA StepsMove ==
  ASSUME SlotTyped, NEW r \in Requests, Step(r) \/ Arrive(r) \/ GiveUp(r)
  PROVE  SlotMove(r)
<1>k. /\ kind[r] \in Kinds /\ Planned(kind[r], pc[r])
      /\ pc \in [Requests -> Steps] /\ slot \in BOOLEAN
  BY MediaIngestAssumption DEF SlotTyped
<1> USE <1>k DEF SlotMove, At, Is, Goto, Steps, Permitted, Owing, Planned,
                  Uploads, Claiming, Kinds, TryBegin, Owes
<1>1. CASE Claim(r)
  BY <1>1 DEF Claim
<1>2. CASE Await(r)
  BY <1>2 DEF Await
<1>3. CASE FinishReceive(r)
  BY <1>3 DEF FinishReceive
<1>4. CASE Seize(r)
  BY <1>4 DEF Seize
<1>5. CASE Finish(r)
  BY <1>5 DEF Finish
<1>6. CASE Forget(r)
  BY <1>6 DEF Forget
<1>7. CASE Sweep(r)
  BY <1>7 DEF Sweep
<1>8. CASE Fetch(r)
  BY <1>8 DEF Fetch
<1>9. CASE Displace(r)
  BY <1>9 DEF Displace
<1>10. CASE CopyImage(r)
  BY <1>10 DEF CopyImage
<1>11. CASE SetCurrent(r)
  BY <1>11 DEF SetCurrent
<1>12. CASE SetCurrentInfo(r)
  BY <1>12 DEF SetCurrentInfo
<1>13. CASE AddHistory(r)
  BY <1>13 DEF AddHistory
<1>14. CASE ReadBack(r)
  BY <1>14 DEF ReadBack
<1>15. CASE Analyze(r)
  BY <1>15 DEF Analyze
<1>16. CASE CommitPrepared(r)
  BY <1>16 DEF CommitPrepared
<1>17. CASE ReadSelected(r)
  BY <1>17 DEF ReadSelected
<1>18. CASE QueueItem(r)
  BY <1>18 DEF QueueItem
<1>19. CASE Enqueue(r)
  BY <1>19 DEF Enqueue
<1>20. CASE Receive(r)
  BY <1>20 DEF Receive
<1>21. CASE StartClear(r)
  BY <1>21 DEF StartClear
<1>22. CASE StartWait(r)
  BY <1>22 DEF StartWait
<1>23. CASE Select(r)
  BY <1>23 DEF Select
<1>24. CASE GiveUp(r)
  BY <1>24 DEF GiveUp
<1>25. CASE ReadPrevious(r)
  BY <1>25 DEF ReadPrevious
<1>26. CASE CheckSelected(r)
  BY <1>26 DEF CheckSelected
<1> QED
  BY <1>1, <1>2, <1>3, <1>4, <1>5, <1>6, <1>7, <1>8, <1>9, <1>10, <1>11,
     <1>12, <1>13, <1>14, <1>15, <1>16, <1>17, <1>18, <1>19, <1>20, <1>21,
     <1>22, <1>23, <1>24, <1>25, <1>26
     DEF Step, Arrive

(* Conversions and stuttering leave the handlers and the slot alone.       *)
LEMMA OthersKeep ==
  ASSUME SlotTyped, (\E j \in jobs : Convert(j)) \/ UNCHANGED vars
  PROVE  kind' = kind /\ pc' = pc /\ slot' = slot
  BY DEF Convert, vars

(* At the start no handler is at a step.                                   *)
LEMMA InitTyped == Init => SlotTyped
  BY MediaIngestAssumption DEF Init, SlotTyped, Steps, Planned

(* Every handler keeps to its own steps.                                   *)
LEMMA NextTyped == SlotTyped /\ [Next]_vars => SlotTyped'
<1> SUFFICES ASSUME SlotTyped, [Next]_vars PROVE SlotTyped'
  OBVIOUS
<1>1. CASE \E r \in Requests : Step(r) \/ Arrive(r) \/ GiveUp(r)
  <2>1. PICK r \in Requests : Step(r) \/ Arrive(r) \/ GiveUp(r)
    BY <1>1
  <2>2. SlotMove(r)
    BY <2>1, StepsMove
  <2> QED
    BY <2>2 DEF SlotTyped, SlotMove, Permitted
<1>2. CASE (\E j \in jobs : Convert(j)) \/ UNCHANGED vars
  BY <1>2, OthersKeep DEF SlotTyped
<1> QED
  BY <1>1, <1>2 DEF Next

(* The ingest slot is never left taken by nobody: of any number of         *)
(* uploads, URL requests, selections and exports, failing and rejected     *)
(* ones included, one that will still clear it is under way whenever it is *)
(* active.                                                                 *)
THEOREM SlotIsOwned == Spec => []SlotHasOwner
<1>1. Init => SlotTyped /\ SlotHasOwner
  BY InitTyped DEF Init, SlotHasOwner
<1>2. SlotTyped /\ SlotHasOwner /\ [Next]_vars => (SlotTyped /\ SlotHasOwner)'
  <2> SUFFICES ASSUME SlotTyped, SlotHasOwner, [Next]_vars
               PROVE  SlotHasOwner'
    BY NextTyped
  <2>1. CASE \E r \in Requests : Step(r) \/ Arrive(r) \/ GiveUp(r)
    <3>1. PICK r \in Requests : Step(r) \/ Arrive(r) \/ GiveUp(r)
      BY <2>1
    <3>2. SlotMove(r)
      BY <3>1, StepsMove
    <3>3. \A q \in Requests \ {r} : Owes(q)' <=> Owes(q)
      BY <3>2 DEF SlotMove, Owes
    <3> QED
      BY <3>2, <3>3 DEF SlotMove, Permitted, SlotHasOwner, Owes, SlotTyped
  <2>2. CASE (\E j \in jobs : Convert(j)) \/ UNCHANGED vars
    BY <2>2, OthersKeep DEF SlotHasOwner, Owes
  <2> QED
    BY <2>1, <2>2 DEF Next
<1> QED
  BY <1>1, <1>2, PTL DEF Spec

(* Where nobody seizes the slot, whoever owes a release holds it.          *)
OwnerHolds ==
  (\A r \in Requests : ~Is(r, "audio")) => \A r \in Requests : Owes(r) => slot

(* Without audio uploads, the only handlers that set the slot active       *)
(* without asking, the slot is single for any number of requests.          *)
THEOREM IngestIsExclusive == Spec => []ExclusiveIngest
<1> DEFINE IInv == SlotTyped /\ OwnerHolds /\ ExclusiveIngest
<1>1. Init => IInv
  BY InitTyped DEF Init, OwnerHolds, ExclusiveIngest, Owes, Owing
<1>2. IInv /\ [Next]_vars => IInv'
  <2> SUFFICES ASSUME IInv, [Next]_vars
               PROVE  OwnerHolds' /\ ExclusiveIngest'
    BY NextTyped
  <2>1. CASE \E r \in Requests : Step(r) \/ Arrive(r) \/ GiveUp(r)
    <3>1. PICK r \in Requests : Step(r) \/ Arrive(r) \/ GiveUp(r)
      BY <2>1
    <3>2. SlotMove(r)
      BY <3>1, StepsMove
    <3>3. \A q \in Requests \ {r} : Owes(q)' <=> Owes(q)
      BY <3>2 DEF SlotMove, Owes
    <3> QED
      BY <3>2, <3>3 DEF SlotMove, Permitted, OwnerHolds, ExclusiveIngest, Owes, Is
  <2>2. CASE (\E j \in jobs : Convert(j)) \/ UNCHANGED vars
    BY <2>2, OthersKeep DEF Is, OwnerHolds, ExclusiveIngest, Owes
  <2> QED
    BY <2>1, <2>2 DEF Next
<1> QED
  BY <1>1, <1>2, PTL DEF Spec

(* What a request has read, and what the Store and the queue hold.         *)
DataTyped ==
  /\ item \in [Requests -> Media]
  /\ current \in [id : Maybe, file : Temporary]
  /\ seen \in [Requests -> Entries]
  /\ history \subseteq Media
  /\ files \in [Files -> Maybe]
  /\ jobs \subseteq Entries
  /\ converted \in [Media -> Maybe]

LEMMA NamesAreFiles ==
  /\ \A r \in Requests : Source(r) \in Temporary
  /\ SharedImage \in Temporary /\ SharedVideo \in Temporary
  /\ \A m \in Media : Recorded(m) \in Files
  /\ Temporary \subseteq Files
  /\ Requests \subseteq Media /\ Media \subseteq Maybe /\ NoMedia \in Maybe
BY DEF Temporary, Files, Media, Maybe

LEMMA StepsKeepData ==
  ASSUME DataTyped, NEW r \in Requests, Step(r) \/ Arrive(r) \/ GiveUp(r)
  PROVE  DataTyped'
<1> USE NamesAreFiles DEF DataTyped, Entries, storeVars, queueVars
<1>1. CASE Claim(r)
  BY <1>1 DEF Claim, TryBegin
<1>2. CASE Await(r)
  BY <1>2 DEF Await, TryBegin
<1>3. CASE FinishReceive(r)
  BY <1>3 DEF FinishReceive
<1>4. CASE Seize(r)
  BY <1>4 DEF Seize
<1>5. CASE Finish(r)
  BY <1>5 DEF Finish
<1>6. CASE Forget(r)
  BY <1>6 DEF Forget, Nothing
<1>7. CASE Sweep(r)
  BY <1>7 DEF Sweep
<1>8. CASE Fetch(r)
  BY <1>8 DEF Fetch
<1>9. CASE Displace(r)
  BY <1>9 DEF Displace, CancelConversion
<1>10. CASE CopyImage(r)
  BY <1>10 DEF CopyImage
<1>11. CASE SetCurrent(r)
  BY <1>11 DEF SetCurrent, Record
<1>12. CASE SetCurrentInfo(r)
  BY <1>12 DEF SetCurrentInfo, Record
<1>13. CASE AddHistory(r)
  BY <1>13 DEF AddHistory, Record
<1>14. CASE ReadBack(r)
  BY <1>14 DEF ReadBack
<1>15. CASE Analyze(r)
  BY <1>15 DEF Analyze
<1>16. CASE CommitPrepared(r)
  BY <1>16 DEF CommitPrepared
<1>17. CASE ReadSelected(r)
  BY <1>17 DEF ReadSelected
<1>18. CASE QueueItem(r)
  BY <1>18 DEF QueueItem, SelectItem
<1>19. CASE Enqueue(r)
  BY <1>19 DEF Enqueue
<1>20. CASE Receive(r)
  BY <1>20 DEF Receive, TryBegin
<1>21. CASE StartClear(r)
  BY <1>21 DEF StartClear, CancelConversion
<1>22. CASE StartWait(r)
  BY <1>22 DEF StartWait
<1>23. CASE Select(r)
  BY <1>23 DEF Select, SelectItem
<1>24. CASE GiveUp(r)
  BY <1>24 DEF GiveUp
<1>25. CASE ReadPrevious(r)
  BY <1>25 DEF ReadPrevious
<1>26. CASE CheckSelected(r)
  BY <1>26 DEF CheckSelected
<1> QED
  BY <1>1, <1>2, <1>3, <1>4, <1>5, <1>6, <1>7, <1>8, <1>9, <1>10, <1>11,
     <1>12, <1>13, <1>14, <1>15, <1>16, <1>17, <1>18, <1>19, <1>20,
     <1>21, <1>22, <1>23, <1>24, <1>25, <1>26
     DEF Step, Arrive

LEMMA ConversionsKeepData ==
  ASSUME DataTyped, NEW j \in jobs, Convert(j)
  PROVE  DataTyped'
BY NamesAreFiles DEF DataTyped, Entries, storeVars, Convert, Present

(* What the Store and the queue hold at the start.                         *)
LEMMA InitDataTyped == Init => DataTyped
<1> SUFFICES ASSUME Init PROVE DataTyped
  OBVIOUS
<1>1. current \in [id : Maybe, file : Temporary] /\ seen \in [Requests -> Entries]
  BY NamesAreFiles DEF Init, Nothing, Entries
<1>2. files \in [Files -> Maybe]
  <2>1. \A m \in Stored : Recorded(m)[2] = m /\ m \in Maybe
    BY NamesAreFiles DEF Recorded, Media
  <2> QED
    BY <2>1, NamesAreFiles DEF Init
<1> QED
  BY <1>1, <1>2, NamesAreFiles DEF Init, DataTyped, Media

(* Type correctness, for any requests: every handler keeps to its steps,   *)
(* what it converts or queues has an id and a path of the media directory, *)
(* and the current item is one that clearing forgets.                      *)
THEOREM Typing == Spec => []TypeOK
<1> DEFINE IInv == SlotTyped /\ DataTyped /\ kind \in [Requests -> Asked]
<1>1. Init => IInv
  BY InitTyped, InitDataTyped DEF Init
<1>2. IInv /\ [Next]_vars => IInv'
  <2> SUFFICES ASSUME IInv, [Next]_vars PROVE DataTyped' /\ kind' = kind
    BY NextTyped
  <2>1. CASE \E r \in Requests : Step(r) \/ Arrive(r) \/ GiveUp(r)
    BY <2>1, StepsKeepData, StepsMove DEF SlotMove
  <2>2. CASE \E j \in jobs : Convert(j)
    BY <2>2, ConversionsKeepData, OthersKeep
  <2>3. CASE UNCHANGED vars
    BY <2>3 DEF vars, DataTyped
  <2> QED
    BY <2>1, <2>2, <2>3 DEF Next
<1>3. IInv => TypeOK
  BY DEF SlotTyped, DataTyped, TypeOK
<1> QED
  BY <1>1, <1>2, <1>3, PTL DEF Spec

-----------------------------------------------------------------------------
(* Where no history item is selected or queued, the bytes of a queueing    *)
(* request stay in its own two files, these hold no others, and whatever a *)
(* handler has read or the queue holds pairs its id with its history file. *)
(* No queued item ever becomes current.                                    *)
Queueing == {r \in Requests : Is(r, "queueURL")}
OwnFiles(r) == {Source(r), Recorded(r)}

BytesAreOwn ==
  /\ \A r \in Queueing : \A f \in Files : files[f] = r => f \in OwnFiles(r)
  /\ \A r \in Queueing : files[Recorded(r)] \in {NoMedia, r}
  /\ \A r \in Requests : files[Source(r)] \in {NoMedia, r}

PairIsOwn(e) ==
  /\ e.id \in Queueing => e.file = Recorded(e.id)
  /\ \A r \in Queueing : e.file \in OwnFiles(r) => e.id = r

PairsAreOwn ==
  /\ \A r \in Requests : PairIsOwn(seen[r])
  /\ \A j \in jobs : PairIsOwn(j)
  /\ PairIsOwn(current) /\ current.id \notin Queueing

TreesAreOwn ==
  \A r \in Queueing : /\ converted[r] \in {NoMedia, r}
                      /\ \A m \in Media : converted[m] = r => m = r

NoSelection == \A r \in Requests : kind[r] \notin {"select", "history"}
OwnInv == NoSelection => BytesAreOwn /\ PairsAreOwn /\ TreesAreOwn

(* File names tell what they are of.                                       *)
LEMMA NamesAreTold ==
  /\ \A q, r \in Requests : Source(q) = Source(r) => q = r
  /\ \A m, n \in Media : Recorded(m) = Recorded(n) => m = n
  /\ \A q \in Requests, m \in Media : Source(q) # Recorded(m)
  /\ \A q \in Requests : Source(q) \notin {SharedImage, SharedVideo}
  /\ \A m \in Media : Recorded(m) \notin {SharedImage, SharedVideo}
BY DEF Source, Recorded, SharedImage, SharedVideo

(* Every step of a handler keeps bytes and pairs apart.                    *)
LEMMA StepsKeepOwn ==
  ASSUME SlotTyped, DataTyped, NoSelection,
         BytesAreOwn, PairsAreOwn, TreesAreOwn,
         NEW r \in Requests, Step(r) \/ Arrive(r) \/ GiveUp(r)
  PROVE  BytesAreOwn' /\ PairsAreOwn' /\ TreesAreOwn'
<1>k. kind' = kind /\ Queueing' = Queueing
  BY StepsMove DEF SlotMove, Queueing, Is
<1>p. Planned(kind[r], pc[r]) /\ kind[r] \notin {"select", "history"}
  BY DEF SlotTyped, NoSelection
<1>n. Queueing \subseteq Requests /\ Requests \subseteq Media /\ NoMedia \notin Media
  BY MediaIngestAssumption DEF Queueing, Media
<1>q. r \in Queueing <=> kind[r] = "queueURL"
  BY DEF Queueing, Is
<1> USE <1>k, <1>p, <1>n, <1>q, NamesAreTold, NamesAreFiles DEF DataTyped,
        BytesAreOwn, PairsAreOwn, PairIsOwn, TreesAreOwn, OwnFiles, storeVars, queueVars,
        Is, At, Planned, Uploads, Claiming
<1>1. CASE Claim(r)
  BY <1>1 DEF Claim, TryBegin
<1>2. CASE Await(r)
  BY <1>2 DEF Await, TryBegin
<1>3. CASE FinishReceive(r)
  BY <1>3 DEF FinishReceive
<1>4. CASE Seize(r)
  BY <1>4 DEF Seize
<1>5. CASE Finish(r)
  BY <1>5 DEF Finish
<1>6. CASE Forget(r)
  BY <1>6 DEF Forget, Nothing
<1>7. CASE Sweep(r)
  BY <1>7 DEF Sweep
<1>8. CASE Fetch(r)
  BY <1>8 DEF Fetch
<1>9. CASE Displace(r)
  BY <1>9 DEF Displace, CancelConversion
<1>10. CASE CopyImage(r)
  BY <1>10 DEF CopyImage
<1>11. CASE SetCurrent(r)
  BY <1>11 DEF SetCurrent, Record
<1>12. CASE SetCurrentInfo(r)
  BY <1>12 DEF SetCurrentInfo, Record
<1>13. CASE AddHistory(r)
  BY <1>13 DEF AddHistory, Record
<1>14. CASE ReadBack(r)
  BY <1>14 DEF ReadBack
<1>15. CASE Analyze(r)
  BY <1>15 DEF Analyze
<1>16. CASE CommitPrepared(r)
  <2>1. r \notin Queueing /\ UNCHANGED <<seen, jobs>>
    BY <1>16 DEF CommitPrepared
  <2>2. \/ UNCHANGED <<files, current, converted>>
        \/ /\ files' = [files EXCEPT ![Recorded(r)] = r, ![Source(r)] = r]
           /\ current' = [id |-> r, file |-> Source(r)]
           /\ converted' = [converted EXCEPT ![r] = r]
    BY <1>16 DEF CommitPrepared
  <2>3. BytesAreOwn'
    BY <2>1, <2>2
  <2>4. PairsAreOwn'
    BY <2>1, <2>2
  <2>5. TreesAreOwn'
    BY <2>1, <2>2
  <2> QED
    BY <2>3, <2>4, <2>5
<1>17. CASE ReadSelected(r)
  BY <1>17 DEF ReadSelected
<1>18. CASE QueueItem(r)
  BY <1>18 DEF QueueItem, SelectItem
<1>19. CASE Enqueue(r)
  BY <1>19 DEF Enqueue
<1>20. CASE Receive(r)
  BY <1>20 DEF Receive, TryBegin
<1>21. CASE StartClear(r)
  BY <1>21 DEF StartClear, CancelConversion
<1>22. CASE StartWait(r)
  BY <1>22 DEF StartWait
<1>23. CASE Select(r)
  BY <1>23 DEF Select, SelectItem
<1>24. CASE GiveUp(r)
  BY <1>24 DEF GiveUp
<1>25. CASE ReadPrevious(r)
  BY <1>25 DEF ReadPrevious
<1>26. CASE CheckSelected(r)
  BY <1>26 DEF CheckSelected
<1> QED
  BY <1>1, <1>2, <1>3, <1>4, <1>5, <1>6, <1>7, <1>8, <1>9, <1>10, <1>11,
     <1>12, <1>13, <1>14, <1>15, <1>16, <1>17, <1>18, <1>19, <1>20,
     <1>21, <1>22, <1>23, <1>24, <1>25, <1>26
     DEF Step, Arrive

(* A conversion makes a tree from the bytes of its own id.                 *)
LEMMA ConversionsKeepOwn ==
  ASSUME SlotTyped, DataTyped, NoSelection,
         BytesAreOwn, PairsAreOwn, TreesAreOwn,
         NEW j \in jobs, Convert(j)
  PROVE  BytesAreOwn' /\ PairsAreOwn' /\ TreesAreOwn'
<1>1. UNCHANGED <<kind, pc, seen, storeVars>> /\ Queueing' = Queueing /\ jobs' \subseteq jobs
  BY DEF Convert, Queueing, Is
<1>2. BytesAreOwn' /\ PairsAreOwn'
  BY <1>1 DEF BytesAreOwn, PairsAreOwn, PairIsOwn, storeVars
<1>3. TreesAreOwn'
  BY <1>1, NamesAreFiles DEF Convert, TreesAreOwn, BytesAreOwn, PairsAreOwn, PairIsOwn, OwnFiles,
       DataTyped, Entries, Queueing, Media, Present
<1> QED
  BY <1>2, <1>3

(* A queued URL is converted from its own bytes, under no other id, for    *)
(* any number of requests of every kind but the two that name history      *)
(* items; see ConvertedIsOwn for what these do.                            *)
THEOREM QueuedConvertsOwn == Spec => []QueuedIsOwn
<1> DEFINE Kinded == SlotTyped /\ DataTyped
<1> DEFINE IInv == Kinded /\ OwnInv
<1>1. Init => IInv
  <2> SUFFICES ASSUME Init PROVE IInv
    OBVIOUS
  <2>1. Kinded
    BY InitTyped, InitDataTyped
  <2>2. BytesAreOwn
    BY NamesAreTold, NamesAreFiles, MediaIngestAssumption
       DEF Init, BytesAreOwn, Queueing, Recorded, Source, Media
  <2>3. PairsAreOwn
    BY NamesAreTold, NamesAreFiles, MediaIngestAssumption
       DEF Init, Nothing, PairsAreOwn, PairIsOwn, OwnFiles, Queueing, Media
  <2>4. TreesAreOwn
    BY MediaIngestAssumption DEF Init, TreesAreOwn, Queueing, Media
  <2> QED
    BY <2>1, <2>2, <2>3, <2>4 DEF OwnInv
<1>2. IInv /\ [Next]_vars => IInv'
  <2> SUFFICES ASSUME IInv, [Next]_vars PROVE IInv'
    OBVIOUS
  <2>1. CASE \E r \in Requests : Step(r) \/ Arrive(r) \/ GiveUp(r)
    <3>1. PICK r \in Requests : Step(r) \/ Arrive(r) \/ GiveUp(r)
      BY <2>1
    <3>2. NoSelection' <=> NoSelection
      BY <3>1, StepsMove DEF SlotMove, NoSelection
    <3>3. Kinded'
      BY <3>1, NextTyped, StepsKeepData
    <3>4. NoSelection => BytesAreOwn' /\ PairsAreOwn' /\ TreesAreOwn'
      BY <3>1, StepsKeepOwn DEF OwnInv
    <3> QED
      BY <3>2, <3>3, <3>4 DEF OwnInv
  <2>2. CASE \E j \in jobs : Convert(j)
    <3>1. PICK j \in jobs : Convert(j)
      BY <2>2
    <3>2. NoSelection' <=> NoSelection
      BY <3>1 DEF Convert, NoSelection
    <3>3. Kinded'
      BY <3>1, NextTyped, ConversionsKeepData
    <3>4. NoSelection => BytesAreOwn' /\ PairsAreOwn' /\ TreesAreOwn'
      BY <3>1, ConversionsKeepOwn DEF OwnInv
    <3> QED
      BY <3>2, <3>3, <3>4 DEF OwnInv
  <2>3. CASE UNCHANGED vars
    BY <2>3, NextTyped DEF vars, DataTyped, OwnInv, NoSelection, BytesAreOwn, PairsAreOwn,
       PairIsOwn, TreesAreOwn, Queueing, Is
  <2> QED
    BY <2>1, <2>2, <2>3 DEF Next
<1>3. IInv => QueuedIsOwn
  BY DEF OwnInv, NoSelection, QueuedIsOwn, TreesAreOwn, Queueing
<1> QED
  BY <1>1, <1>2, <1>3, PTL DEF Spec
=============================================================================
