---------------------------- MODULE MediaLibrary ----------------------------
(***************************************************************************)
(* The media library of internal/library/store.go: the history, what of it *)
(* is published, favorite and converted, and the directories behind it.    *)
(*                                                                         *)
(* media/ and converted/ belong to one run of the program: NewStore wipes  *)
(* them.  favorites/ (files, converted trees and favorites.json) survives. *)
(* A favorite is served from favorites/, everything else from the          *)
(* workspace.  The operations hold the Store mutex while they copy files,  *)
(* so they do not interleave with each other; but the process may die, or  *)
(* a copy fail, between any two file operations.                           *)
(***************************************************************************)
EXTENDS Naturals, FiniteSets

CONSTANTS
  Media,          \* media ids (random, never drawn twice)
  Live,           \* the ids of OBS sessions, which are written repeatedly
  Limit,          \* argument of pruneHistoryLocked
  Faults,         \* whether a copy, a rename or a save may fail
  Repeats,        \* whether SetFavorite(TRUE) and MarkConverted may repeat
  RevisionBound,  \* bound on publishedRevision
  NoMedia         \* the nil current item

ASSUME MediaLibraryAssumption ==
  /\ IsFiniteSet(Media) /\ Live \subseteq Media /\ NoMedia \notin Media
  /\ Limit \in Nat \ {0} /\ RevisionBound \in Nat
  /\ Faults \in BOOLEAN /\ Repeats \in BOOLEAN

VARIABLES
  unused,     \* ids not drawn yet
  sessions,   \* OBS sessions of this run
  history,    \* Store.history
  age,        \* position of an item in the history, 0 for the newest
  published,  \* HistoryItem.Published
  favorite,   \* HistoryItem.Favorite and Persistent: the code keeps them equal
  converted,  \* HistoryItem.Converted
  current,    \* Store.current
  adopted,    \* current.FileName is the item's history file
  revision,   \* Store.publishedRevision
  work,       \* ids with a history-<id> file in media/
  conv,       \* the tree converted/<id>
  favFile,    \* the history file in favorites/
  favConv,    \* the tree favorites/converted/<id>
  json,       \* favorites.json
  pc, arg     \* the step the holder of Store.mu is at, and its id

itemVars == <<unused, sessions, history, age, published, favorite, converted>>
currentVars == <<current, adopted, revision>>
diskVars == <<work, conv, favFile, favConv, json>>
opVars == <<pc, arg>>
vars == <<itemVars, currentVars, diskVars, opVars>>

Trees == {"none", "partial", "whole"}
Steps == {"idle", "favFile", "favTree", "favSave",
          "unfavTree", "unfavSave", "markSwap", "markFav"}

(* Type correctness; the flags of an item go with it when it leaves the    *)
(* history, by pruning, unfavoriting or a restart.                         *)
TypeOK ==
  /\ unused \subseteq Media /\ sessions \subseteq Live
  /\ history \subseteq Media
  /\ age \in [Media -> Nat]
  /\ published \subseteq history
  /\ favorite \subseteq history
  /\ converted \subseteq history
  /\ current \in Media \cup {NoMedia}
  /\ adopted \in BOOLEAN
  /\ revision \in Nat
  /\ work \subseteq Media
  /\ conv \in [Media -> Trees] /\ favConv \in [Media -> Trees]
  /\ favFile \in [Media -> Trees]
  /\ json \in [items : SUBSET Media, published : SUBSET Media,
               converted : SUBSET Media]
  /\ pc \in Steps
  /\ arg \in Media \cup {NoMedia}

Idle == pc = "idle"
Done == pc' = "idle" /\ arg' = NoMedia

(* publishedRevision++                                                     *)
Bump == revision < RevisionBound /\ revision' = revision + 1

-----------------------------------------------------------------------------
(* addHistoryLocked and pruneHistoryLocked.                                *)

(* The new item is the newest; an id already listed keeps its position.    *)
AgeWith(m) ==
  IF m \in history THEN age
  ELSE [k \in Media |-> IF k \in history THEN age[k] + 1 ELSE 0]

(* Mutant: the current recording is pruned like the rest.                  *)
PrunedCurrent(h, a) ==
  {k \in h : \/ k \in favorite
             \/ Cardinality({i \in h \ favorite : a[i] <= a[k]}) <= Limit}

(* Favorites stay, the Limit newest others stay, and so does the current   *)
(* item when it is played from its history file.                           *)
Pruned(h, a) ==
  {k \in h : \/ k \in favorite
             \/ Cardinality({i \in h \ favorite : a[i] <= a[k]}) <= Limit
             \/ adopted /\ current = k}

(* The files of the items that are pruned go with them.                    *)
Prepend(m) ==
  /\ age' = AgeWith(m)
  /\ history' = IF m \in history THEN history
                ELSE Pruned(history \cup {m}, AgeWith(m))
  /\ work' = (work \cup {m}) \ ((history \cup {m}) \ history')
  /\ conv' = [k \in Media |->
                IF k \in (history \cup {m}) \ history' THEN "none" ELSE conv[k]]
  /\ unused' = unused \ {m}

(* An id may be drawn once; an OBS session writes its own again.           *)
MayWrite(m) == m \in unused \/ m \in sessions
Draw(m) == sessions' = IF m \in Live THEN sessions \cup {m} ELSE sessions

(* SetCurrent and SetCurrentInfo..., when the file is there: a fresh item  *)
(* replaces whatever the history holds under the id.                       *)
SetCurrentInfo(m) ==
  /\ Idle /\ MayWrite(m) /\ Bump
  /\ Prepend(m) /\ Draw(m)
  /\ published' = (published \cup {m}) \cap history'
  /\ favorite' = favorite \ {m}
  /\ converted' = (converted \ {m}) \cap history'
  /\ current' = m /\ adopted' = FALSE
  /\ UNCHANGED <<favFile, favConv, json, opVars>>

(* AddHistory, from the queueing handlers: not published, no new revision. *)
AddHistory(m) ==
  /\ Idle /\ m \in unused \ Live
  /\ Prepend(m)
  /\ published' = published \cap history'
  /\ converted' = converted \cap history'
  /\ UNCHANGED <<sessions, favorite, currentVars, favFile, favConv, json, opVars>>

(* SetPendingCurrentInfoWithIDInMemory, and SetCurrentInfo... while the    *)
(* recording does not exist yet.                                           *)
SetPending(m) ==
  /\ Idle /\ m \in Live /\ MayWrite(m) /\ Bump
  /\ Draw(m) /\ unused' = unused \ {m}
  /\ current' = m /\ adopted' = FALSE
  /\ UNCHANGED <<history, age, published, favorite, converted, diskVars, opVars>>

(* CommitHistoryFromPathWithIDInMemory: a verified recording is staged     *)
(* beside its targets and renamed in; a favorite keeps its flags.  One     *)
(* step: a crash between the two renames of a favorite, which leaves its   *)
(* file under the name of the backup only, is not modelled.                *)
CommitRecording(m) ==
  /\ Idle /\ m \in sessions /\ Bump
  /\ Prepend(m)
  /\ published' = (IF m \in history THEN published ELSE published \cup {m}) \cap history'
  /\ converted' = converted \cap history'
  /\ favFile' = IF m \in favorite THEN [favFile EXCEPT ![m] = "whole"] ELSE favFile
  /\ adopted' = IF current = m THEN TRUE ELSE adopted
  /\ UNCHANGED <<sessions, favorite, current, favConv, json, opVars>>

(* CommitPreparedNicoMedia: under the mutex the revision is compared with  *)
(* the one the export started from; the trees are new, item and tree come  *)
(* together.                                                               *)
CommitPrepared(m, expected, select) ==
  /\ Idle /\ m \in unused \ Live
  /\ revision = expected /\ Bump
  /\ age' = AgeWith(m) /\ unused' = unused \ {m}
  /\ history' = Pruned(history \cup {m}, AgeWith(m))
  /\ work' = (work \cup {m}) \ ((history \cup {m}) \ history')
  /\ conv' = [k \in Media |-> IF k = m THEN "whole"
                              ELSE IF k \in history \ history' THEN "none" ELSE conv[k]]
  /\ published' = (published \cup {m}) \cap history'
  /\ converted' = (converted \cup {m}) \cap history'
  /\ IF select THEN current' = m /\ adopted' = FALSE ELSE UNCHANGED <<current, adopted>>
  /\ UNCHANGED <<sessions, favorite, favFile, favConv, json, opVars>>

-----------------------------------------------------------------------------
(* Selection, publication, clearing.                                       *)

Tree(m) == IF m \in favorite THEN favConv[m] ELSE conv[m]

(* SetCurrentFromHistory copies file and tree back to the workspace; a     *)
(* missing tree is an error that leaves the selection alone.               *)
SetCurrentFromHistory(m) ==
  /\ Idle /\ m \in history
  /\ m \in converted => Tree(m) # "none"
  /\ current' = m /\ adopted' = FALSE
  /\ UNCHANGED <<itemVars, revision, diskVars, opVars>>

(* Mutant: favorites that are not published are not saved.                 *)
ListingPublished(fav, pub, con) ==
  [items |-> fav \cap pub, published |-> pub \cap fav, converted |-> con \cap fav]

(* What saveFavoritesLocked writes, through a temporary file and a rename. *)
Listing(fav, pub, con) ==
  [items |-> fav, published |-> pub \cap fav, converted |-> con \cap fav]

(* Mutants: the revision stays; only SetFavorite saves.                    *)
SetPublishedQuietly(m, b) ==
  /\ Idle /\ m \in history
  /\ published' = IF b THEN published \cup {m} ELSE published \ {m}
  /\ json' = IF m \in favorite THEN Listing(favorite, published', converted) ELSE json
  /\ UNCHANGED <<unused, sessions, history, age, favorite, converted,
                 currentVars, work, conv, favFile, favConv, opVars>>

SetPublishedOnly(m, b) ==
  /\ Idle /\ m \in history /\ Bump
  /\ published' = IF b THEN published \cup {m} ELSE published \ {m}
  /\ UNCHANGED <<unused, sessions, history, age, favorite, converted,
                 current, adopted, diskVars, opVars>>

SetPublished(m, b) ==
  /\ Idle /\ m \in history /\ Bump
  /\ published' = IF b THEN published \cup {m} ELSE published \ {m}
  /\ \/ json' = IF m \in favorite THEN Listing(favorite, published', converted) ELSE json
     \/ Faults /\ m \in favorite /\ UNCHANGED json
  /\ UNCHANGED <<unused, sessions, history, age, favorite, converted,
                 current, adopted, work, conv, favFile, favConv, opVars>>

(* Clear removes every workspace file that is not a history file.          *)
Clear ==
  /\ Idle /\ Bump
  /\ current' = NoMedia /\ adopted' = FALSE
  /\ UNCHANGED <<itemVars, diskVars, opVars>>

-----------------------------------------------------------------------------
(* SetFavorite, step by step.                                              *)

Step(p, m) == pc' = p /\ arg' = m

(* TRUE: the file, unless it is in favorites/ already, then the tree, then *)
(* the flags and favorites.json.                                           *)
FavoriteFile(m) ==
  /\ Idle /\ m \in history
  /\ IF m \in favorite THEN Repeats ELSE m \in work
  /\ favFile' = IF m \in favorite THEN favFile ELSE [favFile EXCEPT ![m] = "partial"]
  /\ Step("favFile", m)
  /\ UNCHANGED <<itemVars, currentVars, work, conv, favConv, json>>

FavoriteTree ==
  /\ pc = "favFile"
  /\ favFile' = [favFile EXCEPT ![arg] = "whole"]
  /\ \/ arg \notin converted /\ Step("favSave", arg) /\ UNCHANGED favConv
     \/ /\ arg \in converted /\ conv[arg] # "none"
        /\ favConv' = [favConv EXCEPT ![arg] = "partial"]
        /\ Step("favTree", arg)
     \/ arg \in converted /\ conv[arg] = "none" /\ Done /\ UNCHANGED favConv
  /\ UNCHANGED <<itemVars, currentVars, work, conv, json>>

FavoriteTreeDone ==
  /\ pc = "favTree"
  /\ favConv' = [favConv EXCEPT ![arg] = conv[arg]]
  /\ Step("favSave", arg)
  /\ UNCHANGED <<itemVars, currentVars, work, conv, favFile, json>>

FavoriteSave ==
  /\ pc = "favSave"
  /\ favorite' = favorite \cup {arg}
  /\ \/ json' = Listing(favorite', published, converted)
     \/ Faults /\ UNCHANGED json
  /\ Done
  /\ UNCHANGED <<unused, sessions, history, age, published, converted,
                 currentVars, work, conv, favFile, favConv>>

(* FALSE: the file, the tree, then the flags; an item without a file in    *)
(* the workspace leaves the history.                                       *)
UnfavoriteFile(m) ==
  /\ Idle /\ m \in history
  /\ favFile' = [favFile EXCEPT ![m] = "none"]
  /\ Step("unfavTree", m)
  /\ UNCHANGED <<itemVars, currentVars, work, conv, favConv, json>>

UnfavoriteTree ==
  /\ pc = "unfavTree"
  /\ favConv' = [favConv EXCEPT ![arg] = "none"]
  /\ Step("unfavSave", arg)
  /\ UNCHANGED <<itemVars, currentVars, work, conv, favFile, json>>

(* Mutant: the item stays whether or not its file does.                    *)
KeepListed == history

LeaveOrStay == IF arg \in work THEN history ELSE history \ {arg}

UnfavoriteSave ==
  /\ pc = "unfavSave"
  /\ history' = LeaveOrStay
  /\ favorite' = favorite \ {arg}
  /\ published' = published \cap history'
  /\ converted' = converted \cap history'
  /\ \/ json' = Listing(favorite', published', converted')
     \/ Faults /\ UNCHANGED json
  /\ Done
  /\ UNCHANGED <<unused, sessions, age, currentVars, work, conv, favFile, favConv>>

-----------------------------------------------------------------------------
(* MarkConverted: the tree is staged beside its place and swapped in, the  *)
(* flag is set, and a favorite's copy follows.                             *)

MarkConverted(m) ==
  /\ Idle /\ m \in history
  /\ Repeats \/ m \notin converted
  /\ Step("markSwap", m)
  /\ UNCHANGED <<itemVars, currentVars, diskVars>>

(* Mutant: favorites are saved without their tree.                         *)
MarkFlagOnly ==
  /\ pc = "markSwap"
  /\ conv' = [conv EXCEPT ![arg] = "whole"]
  /\ converted' = converted \cup {arg}
  /\ json' = IF arg \in favorite THEN Listing(favorite, published, converted') ELSE json
  /\ Done
  /\ UNCHANGED <<unused, sessions, history, age, published, favorite,
                 currentVars, work, favFile, favConv>>

MarkFlag ==
  /\ pc = "markSwap"
  /\ conv' = [conv EXCEPT ![arg] = "whole"]
  /\ converted' = converted \cup {arg}
  /\ IF arg \in favorite
       THEN favConv' = [favConv EXCEPT ![arg] = "partial"] /\ Step("markFav", arg)
       ELSE UNCHANGED favConv /\ Done
  /\ UNCHANGED <<unused, sessions, history, age, published, favorite,
                 currentVars, work, favFile, json>>

MarkFavorite ==
  /\ pc = "markFav"
  /\ favConv' = [favConv EXCEPT ![arg] = conv[arg]]
  /\ \/ json' = Listing(favorite, published, converted)
     \/ Faults /\ UNCHANGED json
  /\ Done
  /\ UNCHANGED <<itemVars, currentVars, work, conv, favFile>>

(* RemoveAll succeeds and the rename fails, or a copy fails half-way.      *)
Fail ==
  /\ Faults
  /\ \/ pc \in {"favFile", "favTree", "markFav"} /\ UNCHANGED conv
     \/ /\ pc = "markSwap"
        /\ \E left \in {"none", conv[arg]} : conv' = [conv EXCEPT ![arg] = left]
  /\ Done
  /\ UNCHANGED <<itemVars, currentVars, work, favFile, favConv, json>>

(* The process ends, by a crash or after Store.Reset, and starts again:    *)
(* NewStore wipes the workspace and loadFavorites keeps the listed items   *)
(* whose file exists.                                                      *)
Loaded == {m \in json.items : favFile[m] # "none"}

Restart ==
  /\ history' = Loaded
  /\ favorite' = Loaded
  /\ published' = json.published \cap Loaded
  /\ converted' = json.converted \cap Loaded
  /\ sessions' = {}
  /\ current' = NoMedia /\ adopted' = FALSE /\ revision' = 0
  /\ work' = {} /\ conv' = [m \in Media |-> "none"]
  /\ Done
  /\ UNCHANGED <<unused, age, favFile, favConv, json>>

-----------------------------------------------------------------------------
Init ==
  /\ unused = Media /\ sessions = {}
  /\ history = {} /\ age = [m \in Media |-> 0]
  /\ published = {} /\ favorite = {} /\ converted = {}
  /\ current = NoMedia /\ adopted = FALSE /\ revision = 0
  /\ work = {} /\ conv = [m \in Media |-> "none"]
  /\ favFile = [m \in Media |-> "none"] /\ favConv = [m \in Media |-> "none"]
  /\ json = [items |-> {}, published |-> {}, converted |-> {}]
  /\ pc = "idle" /\ arg = NoMedia

(* The step the holder of the mutex takes next.                            *)
Holder ==
  \/ FavoriteTree \/ FavoriteTreeDone \/ FavoriteSave
  \/ UnfavoriteTree \/ UnfavoriteSave
  \/ MarkFlag \/ MarkFavorite \/ Fail

(* Operations started by a request, an OBS callback or a watcher.          *)
Operation(m) ==
  \/ SetCurrentInfo(m) \/ AddHistory(m) \/ SetPending(m) \/ CommitRecording(m)
  \/ \E select \in BOOLEAN : CommitPrepared(m, revision, select)
  \/ SetCurrentFromHistory(m)
  \/ \E b \in BOOLEAN : SetPublished(m, b)
  \/ FavoriteFile(m) \/ UnfavoriteFile(m) \/ MarkConverted(m)

Next == (\E m \in Media : Operation(m)) \/ Clear \/ Holder \/ Restart

Spec == Init /\ [][Next]_vars

-----------------------------------------------------------------------------
(* Properties.                                                             *)

(* Whenever the mutex is free, every item of the history has its file      *)
(* where historyPath looks for it: pruning, unfavoriting, restarts and     *)
(* failed copies never leave an entry that cannot be served or selected.   *)
HistoryIsServable ==
  Idle => \A m \in history :
            IF m \in favorite THEN favFile[m] = "whole" ELSE m \in work

(* Whenever the mutex is free, a restart would bring every favorite back   *)
(* with the same published and converted flags.                            *)
FavoritesAreDurable ==
  Idle => \A m \in favorite :
            /\ m \in json.items /\ favFile[m] = "whole"
            /\ m \in json.published <=> m \in published
            /\ m \in json.converted <=> m \in converted

(* An item that is marked converted can be restored from the tree that     *)
(* ConvertedPath returns for it, also after a crash between the copies, as *)
(* long as no copy fails and neither SetFavorite(TRUE) nor MarkConverted   *)
(* is repeated (Faults and Repeats FALSE): the copying is done in place.   *)
ConvertedIsWhole ==
  Idle => \A m \in converted : Tree(m) = "whole"

(* The specification: favorites are what a restart restores.  An item      *)
(* stops being a favorite only when it is unfavorited, whatever else       *)
(* happens to it and wherever the process dies.                            *)
OnlyUnfavorited ==
  \A m \in favorite \ favorite' : arg = m /\ pc \in {"unfavTree", "unfavSave"}
FavoriteIsKept == [][OnlyUnfavorited]_vars

(* The recording that is played as the current media from its history file *)
(* is not pruned from under the player.                                    *)
CurrentRecordingIsServable ==
  Idle /\ adopted => current \in work
=============================================================================
