----------------------------- MODULE MediaIngest -----------------------------
(***************************************************************************)
(* The handlers of internal/server that bring media in or put history      *)
(* items back to work: uploads (video, audio, image), URLs (published,     *)
(* queued, commented niconico videos), history selection and queueing, and *)
(* clearing.  Every HTTP request runs in a goroutine of its own; the       *)
(* requests meet at the ingest slot (ingest_status.go), at the current     *)
(* item and the history of the Store, at the conversion queue, and at      *)
(* files of the media directory whose name does not depend on the request. *)
(***************************************************************************)
EXTENDS Naturals, FiniteSets

CONSTANTS
  Requests,   \* HTTP requests, each made at most once; also the id it creates
  Asked,      \* the kinds of requests that are made
  Stored,     \* history items there from the start
  NoMedia     \* the nil current item, the empty id, the absent file

Kinds == {"video", "audio", "image", "url", "queueURL", "nico",
          "select", "history", "clear"}
Uploads == {"video", "audio", "image"}
Claiming == {"url", "queueURL", "history", "select"}

ASSUME MediaIngestAssumption ==
  /\ Asked \subseteq Kinds
  /\ Requests \cap Stored = {} /\ NoMedia \notin Requests \cup Stored

VARIABLES
  kind,       \* the handler of each request, from the start
  pc,         \* where a request is
  slot,       \* ingest.active
  item,       \* the media a request is about
  current,    \* Store.current: id and FileName
  seen,       \* the current item as a request has read it
  history,    \* Store.history
  files,      \* the media whose bytes a file of the media directory holds
  jobs,       \* unfinished conversions: source path and media id
  converted   \* the media whose bytes converted/<id> was made from

vars == <<kind, pc, slot, item, current, seen, history, files, jobs, converted>>
storeVars == <<current, history, files>>
queueVars == <<jobs, converted>>

Media == Requests \cup Stored
Maybe == Media \cup {NoMedia}

(* source-<random>, history-<id>; current<ext>, current-history-video<ext>. *)
Source(r) == <<"source", r>>
Recorded(m) == <<"history", m>>
SharedImage == <<"shared", "image">>
SharedVideo == <<"shared", "video">>
Temporary == {Source(r) : r \in Requests} \cup {SharedImage, SharedVideo}
Files == Temporary \cup {Recorded(m) : m \in Media}

Nothing == [id |-> NoMedia, file |-> SharedVideo]
Entries == [id : Maybe, file : Files]

Steps == {"new", "forget", "sweep", "claim", "receive", "received", "fetch",
          "fetched", "previous", "displaced", "shared", "published", "analyze",
          "chosen", "enqueue", "rendered", "finish", "over"}

(* The steps of each handler.                                              *)
Planned(k, step) ==
  \/ step \in {"new", "over"}
  \/ step \in {"receive", "received"} /\ k \in Uploads
  \/ step \in {"forget", "sweep"} /\ k \in {"url", "clear"}
  \/ step = "claim" /\ k \in {"url", "nico", "select"}
  \/ step = "fetch" /\ k \in {"url", "queueURL", "nico", "audio"}
  \/ step \in {"fetched", "finish"} /\ k # "clear"
  \/ step \in {"previous", "displaced", "published"} /\ k \in Uploads \cup {"url"}
  \/ step = "shared" /\ k = "image"
  \/ step = "analyze" /\ k = "audio"
  \/ step = "rendered" /\ k = "nico"
  \/ step = "chosen" /\ k = "select"
  \/ step = "enqueue" /\ k \notin {"clear", "nico"}

(* Type correctness; the file of the current item is a temporary one, that *)
(* clearing removes.                                                       *)
TypeOK ==
  /\ pc \in [Requests -> Steps]
  /\ kind \in [Requests -> Asked]
  /\ \A r \in Requests : Planned(kind[r], pc[r])
  /\ slot \in BOOLEAN
  /\ item \in [Requests -> Media]
  /\ current \in [id : Maybe, file : Temporary]
  /\ seen \in [Requests -> Entries]
  /\ history \subseteq Media
  /\ files \in [Files -> Maybe]
  /\ jobs \subseteq Entries
  /\ converted \in [Media -> Maybe]

Is(r, k) == kind[r] = k
At(r, step) == pc[r] = step
Goto(r, step) == pc' = [pc EXCEPT ![r] = step] /\ UNCHANGED kind
Present(f) == files[f] # NoMedia

(* A request whose deferred clearIngest (or finishReceive) is still to     *)
(* come.                                                                   *)
Owing(k, step) ==
  \/ step = "receive"
  \/ /\ k \in {"url", "queueURL", "nico", "history", "audio"}
     /\ step \in {"fetch", "fetched", "previous", "displaced", "published",
                  "analyze", "enqueue", "rendered", "finish"}
  \/ k = "select" /\ step \in {"enqueue", "finish"}

Owes(r) == Owing(kind[r], pc[r])

-----------------------------------------------------------------------------
(* The ingest slot.                                                        *)

(* Mutant: the slot is taken whether or not it is free.                    *)
Grab(r) == slot' = TRUE

TryBegin(r) == ~slot /\ slot' = TRUE

(* tryBeginIngest, or 409.                                                 *)
Claim(r) ==
  /\ \/ At(r, "claim")
     \/ At(r, "new") /\ kind[r] \in {"queueURL", "history"}
  /\ kind[r] \in Claiming
  /\ \/ /\ TryBegin(r)
        /\ Goto(r, CASE Is(r, "select") -> "enqueue"
                     [] Is(r, "history") -> "fetched"
                     [] OTHER -> "fetch")
     \/ slot /\ UNCHANGED slot /\ Goto(r, "over")
  /\ IF Is(r, "history") THEN \E m \in history : item' = [item EXCEPT ![r] = m]
                         ELSE UNCHANGED item
  /\ UNCHANGED <<seen, storeVars, queueVars>>

(* waitForNiconicoIngest polls the slot until the client goes away.        *)
Await(r) ==
  /\ At(r, "claim") /\ Is(r, "nico")
  /\ TryBegin(r) /\ Goto(r, "fetch")
  /\ UNCHANGED <<item, seen, storeVars, queueVars>>

GiveUp(r) ==
  /\ At(r, "claim") /\ Is(r, "nico")
  /\ Goto(r, "over")
  /\ UNCHANGED <<slot, item, seen, storeVars, queueVars>>

(* trackUploadReceiveProgress takes the slot when it is free and goes on   *)
(* without it when it is not; only a taken slot is released.               *)
Receive(r) ==
  /\ At(r, "new") /\ kind[r] \in Uploads
  /\ \/ TryBegin(r) /\ Goto(r, "receive")
     \/ slot /\ UNCHANGED slot /\ Goto(r, "received")
  /\ UNCHANGED <<item, seen, storeVars, queueVars>>

(* Mutant: a body that cannot be parsed is answered without the release.   *)
FinishParsed(r) ==
  /\ At(r, "receive")
  /\ \/ slot' = FALSE /\ Goto(r, "received")
     \/ UNCHANGED slot /\ Goto(r, "over")
  /\ UNCHANGED <<item, seen, storeVars, queueVars>>

FinishReceive(r) ==
  /\ At(r, "receive")
  /\ slot' = FALSE
  /\ \E next \in {"received", "over"} : Goto(r, next)
  /\ UNCHANGED <<item, seen, storeVars, queueVars>>

(* An audio upload sets the slot active without asking.                    *)
Seize(r) ==
  /\ At(r, "received") /\ Is(r, "audio")
  /\ slot' = TRUE /\ Goto(r, "fetch")
  /\ UNCHANGED <<item, seen, storeVars, queueVars>>

(* The end of a handler, with its deferred clearIngest.                    *)
Finish(r) ==
  /\ At(r, "finish")
  /\ slot' = (slot /\ ~Owes(r))
  /\ Goto(r, "over")
  /\ UNCHANGED <<item, seen, storeVars, queueVars>>

-----------------------------------------------------------------------------
(* Clearing: clearPublication cancels the conversion of the current item,  *)
(* handleClear does not; Store.Clear forgets the item under the mutex and  *)
(* removes the files after it.                                             *)

CancelConversion(id) == jobs' = {j \in jobs : id = NoMedia \/ j.id # id}

StartClear(r) ==
  /\ At(r, "new") /\ kind[r] \in {"url", "clear"}
  /\ IF Is(r, "url") THEN CancelConversion(current.id) ELSE UNCHANGED jobs
  /\ Goto(r, "forget")
  /\ UNCHANGED <<slot, item, seen, storeVars, converted>>

Forget(r) ==
  /\ At(r, "forget")
  /\ current' = Nothing /\ Goto(r, "sweep")
  /\ UNCHANGED <<slot, item, seen, history, files, queueVars>>

Sweep(r) ==
  /\ At(r, "sweep")
  /\ files' = [f \in Files |-> IF f \in Temporary THEN NoMedia ELSE files[f]]
  /\ Goto(r, IF Is(r, "url") THEN "claim" ELSE "over")
  /\ UNCHANGED <<slot, item, seen, current, history, queueVars>>

StartWait(r) ==
  /\ At(r, "new") /\ Is(r, "nico")
  /\ Goto(r, "claim")
  /\ UNCHANGED <<slot, item, seen, storeVars, queueVars>>

-----------------------------------------------------------------------------
(* Getting the media and putting it into the library.                      *)

(* The upload is stored, or the URL downloaded, under a random name.       *)
Fetch(r) ==
  /\ \/ At(r, "fetch")
     \/ At(r, "received") /\ kind[r] \in {"video", "image"}
  /\ \/ files' = [files EXCEPT ![Source(r)] = r] /\ Goto(r, "fetched")
     \/ UNCHANGED files /\ Goto(r, "finish")
  /\ UNCHANGED <<slot, item, seen, current, history, queueVars>>

(* The id of what is current by now is read, its conversion discarded.     *)
ReadPrevious(r) ==
  /\ At(r, "fetched") /\ kind[r] \in {"url", "video", "audio", "image"}
  /\ seen' = [seen EXCEPT ![r] = current]
  /\ Goto(r, "previous")
  /\ UNCHANGED <<slot, item, storeVars, queueVars>>

Displace(r) ==
  /\ At(r, "previous")
  /\ CancelConversion(seen[r].id)
  /\ Goto(r, "displaced")
  /\ UNCHANGED <<slot, item, seen, storeVars, converted>>

(* SetCurrent writes current<ext> before it takes the mutex.               *)
CopyImage(r) ==
  /\ At(r, "displaced") /\ Is(r, "image")
  /\ \/ Present(Source(r)) /\ Goto(r, "shared")
        /\ files' = [files EXCEPT ![SharedImage] = files[Source(r)]]
     \/ ~Present(Source(r)) /\ Goto(r, "finish") /\ UNCHANGED files
  /\ UNCHANGED <<slot, item, seen, current, history, queueVars>>

(* Under the mutex the file is copied to history-<id>, if it is there, and *)
(* the item becomes current.  A missing image is an error; of a missing    *)
(* video only the history entry is left out.                               *)
Record(r, f) ==
  /\ history' = IF Present(f) THEN history \cup {r} ELSE history
  /\ files' = IF Present(f) THEN [files EXCEPT ![Recorded(r)] = files[f]] ELSE files

SetCurrent(r) ==
  /\ At(r, "shared")
  /\ Record(r, SharedImage)
  /\ IF Present(SharedImage)
       THEN current' = [id |-> r, file |-> SharedImage] /\ Goto(r, "published")
       ELSE UNCHANGED current /\ Goto(r, "finish")
  /\ UNCHANGED <<slot, item, seen, queueVars>>

SetCurrentInfo(r) ==
  /\ At(r, "displaced") /\ kind[r] \in {"url", "video", "audio"}
  /\ Record(r, Source(r))
  /\ current' = [id |-> r, file |-> Source(r)]
  /\ Goto(r, "published")
  /\ UNCHANGED <<slot, item, seen, queueVars>>

(* AddHistory and HistoryPath of the queueing handler.                     *)
AddHistory(r) ==
  /\ At(r, "fetched") /\ Is(r, "queueURL")
  /\ Record(r, Source(r))
  /\ Goto(r, IF Present(Source(r)) THEN "enqueue" ELSE "finish")
  /\ seen' = [seen EXCEPT ![r] = [id |-> r, file |-> Recorded(r)]]
  /\ UNCHANGED <<slot, item, current, queueVars>>

(* The handler asks the Store for the id of what it has just published.    *)
(* An image is converted from the current item's file, if there is one; a  *)
(* video or audio from its own.                                            *)
ReadBack(r) ==
  /\ At(r, "published")
  /\ seen' = [seen EXCEPT ![r] =
                IF Is(r, "image") THEN current ELSE [id |-> current.id, file |-> Source(r)]]
  /\ Goto(r, CASE Is(r, "image") /\ current = Nothing -> "finish"
               [] Is(r, "audio") -> "analyze"
               [] OTHER -> "enqueue")
  /\ UNCHANGED <<slot, item, storeVars, queueVars>>

(* The analysis of audio and the rendering of comments announce themselves *)
(* in the slot again, and fail without the file.                           *)
Analyze(r) ==
  /\ At(r, "analyze") \/ (At(r, "fetched") /\ Is(r, "nico"))
  /\ slot' = TRUE
  /\ \/ Present(Source(r)) /\ Goto(r, IF Is(r, "nico") THEN "rendered" ELSE "enqueue")
     \/ Goto(r, "finish")
  /\ UNCHANGED <<item, seen, storeVars, queueVars>>

(* CommitPreparedNicoMedia: file, converted tree and item together, from   *)
(* the export's own staging directory; or a revision conflict.             *)
CommitPrepared(r) ==
  /\ At(r, "rendered") /\ Goto(r, "finish")
  /\ \/ /\ history' = history \cup {r}
        /\ files' = [files EXCEPT ![Recorded(r)] = r, ![Source(r)] = r]
        /\ current' = [id |-> r, file |-> Source(r)]
        /\ converted' = [converted EXCEPT ![r] = r]
     \/ UNCHANGED <<history, files, current, converted>>
  /\ UNCHANGED <<slot, item, seen, jobs>>

-----------------------------------------------------------------------------
(* History items.                                                          *)

SelectItem(m) ==
  /\ files' = [files EXCEPT ![SharedVideo] = files[Recorded(m)]]
  /\ current' = [id |-> m, file |-> SharedVideo]

(* handleHistorySelect: SetCurrentFromHistory copies the item to a file    *)
(* all selected videos share, before the slot is asked for.                *)
Select(r) ==
  /\ At(r, "new") /\ Is(r, "select")
  /\ \E m \in history : SelectItem(m)
  /\ Goto(r, "fetched")
  /\ UNCHANGED <<slot, item, seen, history, queueVars>>

(* Then the current item is read back, once to see whether it is converted *)
(* and needs nothing more, and once for its path and id.                   *)
CheckSelected(r) ==
  /\ At(r, "fetched") /\ Is(r, "select")
  /\ Goto(r, IF current # Nothing /\ converted[current.id] # NoMedia THEN "over" ELSE "chosen")
  /\ UNCHANGED <<slot, item, seen, storeVars, queueVars>>

ReadSelected(r) ==
  /\ At(r, "chosen")
  /\ seen' = [seen EXCEPT ![r] = current]
  /\ Goto(r, IF current = Nothing THEN "over" ELSE "claim")
  /\ UNCHANGED <<slot, item, storeVars, queueVars>>

(* enqueueHistoryItem.                                                     *)
QueueItem(r) ==
  /\ At(r, "fetched") /\ Is(r, "history")
  /\ IF converted[item[r]] # NoMedia
       THEN SelectItem(item[r]) /\ Goto(r, "finish") /\ UNCHANGED seen
       ELSE /\ seen' = [seen EXCEPT ![r] = [id |-> item[r], file |-> Recorded(item[r])]]
            /\ Goto(r, "enqueue") /\ UNCHANGED <<current, files>>
  /\ UNCHANGED <<slot, item, history, queueVars>>

-----------------------------------------------------------------------------
(* Mutant: the id is that of the current item, on the queueing path too.   *)
EnqueueCurrent(r) ==
  /\ At(r, "enqueue") /\ Goto(r, "finish")
  /\ jobs' = jobs \cup {[id |-> current.id, file |-> seen[r].file]}
  /\ UNCHANGED <<slot, item, seen, storeVars, converted>>

(* enqueueStillConversion, enqueueUploadedConversion, ...: the path and    *)
(* the id read before.                                                     *)
Enqueue(r) ==
  /\ At(r, "enqueue") /\ Goto(r, "finish")
  /\ jobs' = jobs \cup {seen[r]}
  /\ UNCHANGED <<slot, item, seen, storeVars, converted>>

(* A job of the queue runs, newest or preempted, on what its path holds by *)
(* then; MarkConverted knows the items of the history only.                *)
Convert(j) ==
  /\ jobs' = jobs \ {j}
  /\ IF Present(j.file) /\ j.id \in history
       THEN converted' = [converted EXCEPT ![j.id] = files[j.file]]
       ELSE UNCHANGED converted
  /\ UNCHANGED <<kind, pc, slot, item, seen, storeVars>>

Init ==
  /\ kind \in [Requests -> Asked]
  /\ pc = [r \in Requests |-> "new"] /\ slot = FALSE
  /\ item = [r \in Requests |-> r] /\ seen = [r \in Requests |-> Nothing]
  /\ current = Nothing /\ history = Stored
  /\ files = [f \in Files |-> IF f \in {Recorded(m) : m \in Stored} THEN f[2] ELSE NoMedia]
  /\ jobs = {} /\ converted = [m \in Media |-> NoMedia]

Step(r) ==
  \/ Claim(r) \/ Await(r) \/ FinishReceive(r) \/ Seize(r) \/ Finish(r)
  \/ Forget(r) \/ Sweep(r) \/ Fetch(r) \/ ReadPrevious(r) \/ Displace(r)
  \/ CopyImage(r) \/ SetCurrent(r) \/ SetCurrentInfo(r) \/ AddHistory(r) \/ ReadBack(r)
  \/ Analyze(r) \/ CommitPrepared(r) \/ CheckSelected(r) \/ ReadSelected(r)
  \/ QueueItem(r) \/ Enqueue(r)

Arrive(r) == Receive(r) \/ StartClear(r) \/ StartWait(r) \/ Select(r)

Next ==
  \/ \E r \in Requests : Step(r) \/ Arrive(r) \/ GiveUp(r)
  \/ \E j \in jobs : Convert(j)

Spec == Init /\ [][Next]_vars

-----------------------------------------------------------------------------
(* Properties.                                                             *)

(* The slot is never left active without a handler that will clear it:     *)
(* otherwise every later ingest would be rejected as already in progress,  *)
(* until a restart.                                                        *)
SlotHasOwner == slot => \E r \in Requests : Owes(r)

(* The ingest slot is single: two handlers never both go by it, unless one *)
(* of the requests is an audio upload, that does not ask.                  *)
ExclusiveIngest ==
  (\A r \in Requests : ~Is(r, "audio"))
    => \A q, r \in Requests : Owes(q) /\ Owes(r) => q = r

(* What is put to the queue by a queueing handler is converted from its    *)
(* own history file, and under no other id, whatever is uploaded,          *)
(* published, cleared or committed meanwhile; only the selection of a      *)
(* history item, that goes through a file all selections share, can mix    *)
(* it up (ConvertedIsOwn).                                                 *)
QueuedIsOwn ==
  (\A r \in Requests : kind[r] \notin {"select", "history"})
    => \A r \in Requests : Is(r, "queueURL") =>
         /\ converted[r] \in {NoMedia, r}
         /\ \A m \in Media : converted[m] = r => m = r

(* A converted tree is never that of another id.                           *)
ConvertedIsOwn == \A m \in Media : converted[m] \in {NoMedia, m}
=============================================================================
