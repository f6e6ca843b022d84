------------------------- MODULE MediaLibraryProofs -------------------------
(***************************************************************************)
(* Theorems about MediaLibrary, for any number of media and any limit,     *)
(* about its composition with browsers and exports (PublishRevision), and  *)
(* about the composition begun in any of the scenes of its run.            *)
(***************************************************************************)
EXTENDS MCPublishRevision, FiniteSetTheorems, WellFoundedInduction, TLAPS

(* Pruning takes items away, and never a favorite.                         *)
LEMMA PruneKeeps ==
  ASSUME NEW h, NEW a
  PROVE  Pruned(h, a) \subseteq h /\ h \cap favorite \subseteq Pruned(h, a)
  BY DEF Pruned

(* An operation that is under way is about an item of the history.         *)
Typed == TypeOK /\ (~Idle => arg \in history)

(* The effect of adding an item to the history.                            *)
LEMMA PrependKeeps ==
  ASSUME TypeOK, NEW m \in Media, Prepend(m)
  PROVE  /\ history' \subseteq history \cup {m} /\ favorite \subseteq history'
         /\ history' \ work' \subseteq history \ work
         /\ age' \in [Media -> Nat] /\ work' \subseteq Media
         /\ conv' \in [Media -> Trees] /\ unused' = unused \ {m}
<1>1. AgeWith(m) \in [Media -> Nat]
  BY DEF AgeWith, TypeOK
<1> QED
  BY <1>1, PruneKeeps DEF Prepend, TypeOK, Trees

Listings == [items : SUBSET Media, published : SUBSET Media, converted : SUBSET Media]

(* What favorites.json is given is well typed.                             *)
LEMMA ListingTyped ==
  ASSUME NEW fav \in SUBSET Media, NEW pub, NEW con
  PROVE  Listing(fav, pub, con) \in Listings /\ Listing(fav, pub, con).items = fav
  BY DEF Listing, Listings

-----------------------------------------------------------------------------
(* The empty library is well typed.                                        *)
LEMMA InitTyped == Init => Typed
<1> SUFFICES ASSUME Init PROVE Typed
  OBVIOUS
<1>1. json \in Listings
  BY DEF Init, Listings
<1> QED
  BY <1>1 DEF Init, Typed, TypeOK, Listings, Trees, Steps, Idle

(* Every operation keeps the types and its item in the history.            *)
LEMMA NextTyped == Typed /\ [Next]_vars => Typed'
<1> SUFFICES ASSUME Typed, [Next]_vars PROVE Typed'
  OBVIOUS
<1> USE MediaLibraryAssumption DEF Typed, TypeOK, Done, Step, Bump, Draw, Idle,
        itemVars, currentVars, diskVars, opVars, Trees, Steps
<1>1. ASSUME NEW m \in Media, SetCurrentInfo(m) PROVE Typed'
  <2>1. /\ sessions' \subseteq Live /\ revision' \in Nat
        /\ published' \subseteq history' /\ converted' \subseteq history'
    BY <1>1 DEF SetCurrentInfo
  <2>2. favorite' \subseteq history' /\ history' \subseteq Media
    BY <1>1, PrependKeeps DEF SetCurrentInfo
  <2> QED
    BY <1>1, <2>1, <2>2, PrependKeeps, ZenonT(60) DEF SetCurrentInfo
<1>2. ASSUME NEW m \in Media, AddHistory(m) PROVE Typed'
  BY <1>2, PrependKeeps DEF AddHistory
<1>3. ASSUME NEW m \in Media, SetPending(m) PROVE Typed'
  <2>1. sessions' \subseteq Live /\ revision' \in Nat
    BY <1>3 DEF SetPending
  <2> QED
    BY <1>3, <2>1 DEF SetPending
<1>4. ASSUME NEW m \in Media, CommitRecording(m) PROVE Typed'
  <2>5. revision' \in Nat
    BY <1>4 DEF CommitRecording
  <2>1. adopted' \in BOOLEAN
    <3>1. CASE current = m
      BY <1>4, <3>1, Zenon DEF CommitRecording
    <3>2. CASE current # m
      BY <1>4, <3>2, Zenon DEF CommitRecording
    <3> QED
      BY <3>1, <3>2
  <2>4. published' \subseteq history' /\ converted' \subseteq history'
    BY <1>4, Zenon DEF CommitRecording
  <2>3. favFile' \in [Media -> Trees]
    BY <1>4 DEF CommitRecording
  <2>2. favorite' \subseteq history' /\ history' \subseteq Media
    BY <1>4, PrependKeeps DEF CommitRecording
  <2> QED
    BY <1>4, <2>1, <2>2, <2>3, <2>4, <2>5, PrependKeeps, ZenonT(60) DEF CommitRecording
<1>5. ASSUME NEW m \in Media, SetCurrentFromHistory(m) PROVE Typed'
  BY <1>5 DEF SetCurrentFromHistory
<1>6. ASSUME NEW m \in Media, FavoriteFile(m) PROVE Typed'
  BY <1>6 DEF FavoriteFile
<1>7. ASSUME NEW m \in Media, UnfavoriteFile(m) PROVE Typed'
  BY <1>7 DEF UnfavoriteFile
<1>8. ASSUME NEW m \in Media, MarkConverted(m) PROVE Typed'
  BY <1>8 DEF MarkConverted
<1>9. CASE FavoriteTree
  BY <1>9 DEF FavoriteTree
<1>10. CASE FavoriteTreeDone
  BY <1>10 DEF FavoriteTreeDone
<1>11. CASE FavoriteSave
  <2>1. favorite' \subseteq history' /\ json' \in Listings
    BY <1>11, ListingTyped DEF FavoriteSave, Listings
  <2> QED
    BY <1>11, <2>1 DEF FavoriteSave, Listings
<1>12. CASE UnfavoriteTree
  BY <1>12 DEF UnfavoriteTree
<1>13. CASE UnfavoriteSave
  <2>1. favorite' \subseteq history' /\ json' \in Listings
    BY <1>13, ListingTyped DEF UnfavoriteSave, LeaveOrStay, Listings
  <2> QED
    BY <1>13, <2>1 DEF UnfavoriteSave, LeaveOrStay, Listings
<1>14. CASE MarkFlag
  BY <1>14 DEF MarkFlag
<1>15. CASE MarkFavorite
  <2>1. favorite' \subseteq history' /\ json' \in Listings
    <3>1. Listing(favorite, published, converted) \in Listings
      BY ListingTyped
    <3> QED
      BY <1>15, <3>1 DEF MarkFavorite, Listings
  <2> QED
    BY <1>15, <2>1 DEF MarkFavorite, Listings
<1>16. CASE Fail
  BY <1>16 DEF Fail
<1>17. CASE Restart
  BY <1>17 DEF Restart, Loaded
<1>18. CASE Clear
  <2>1. revision' \in Nat /\ pc' = pc /\ history' = history
    BY <1>18 DEF Clear
  <2> QED
    BY <1>18, <2>1 DEF Clear
<1>19. ASSUME NEW m \in Media, NEW b \in BOOLEAN, SetPublished(m, b) PROVE Typed'
  <2>1. json' \in Listings
    BY <1>19, ListingTyped DEF SetPublished, Listings
  <2> QED
    BY <1>19, <2>1 DEF SetPublished, Listings
<1>20. ASSUME NEW m \in Media, NEW select \in BOOLEAN, CommitPrepared(m, revision, select)
      PROVE  Typed'
  <2>1. AgeWith(m) \in [Media -> Nat]
    BY DEF AgeWith
  <2> QED
    <3>1. history' \subseteq history \cup {m} /\ favorite \subseteq history'
      BY <1>20, PruneKeeps DEF CommitPrepared
    <3>2. /\ current' \in Media \cup {NoMedia} /\ adopted' \in BOOLEAN
          /\ published' \subseteq history' /\ converted' \subseteq history'
      BY <1>20 DEF CommitPrepared
    <3>3. revision' \in Nat /\ conv' \in [Media -> Trees] /\ age' = AgeWith(m)
      BY <1>20 DEF CommitPrepared
    <3>4. history' \subseteq Media /\ work' \subseteq Media /\ unused' \subseteq Media
      BY <1>20, <3>1 DEF CommitPrepared
    <3>5. UNCHANGED <<sessions, favorite, favFile, favConv, json, opVars>>
      BY <1>20 DEF CommitPrepared
    <3> QED
      BY <1>20, <2>1, <3>1, <3>2, <3>3, <3>4, <3>5 DEF CommitPrepared
<1>21. CASE UNCHANGED vars
  BY <1>21 DEF vars
<1> QED
  BY <1>1, <1>2, <1>3, <1>4, <1>5, <1>6, <1>7, <1>8, <1>9, <1>10,
     <1>11, <1>12, <1>13, <1>14, <1>15, <1>16, <1>17, <1>18, <1>19,
     <1>20, <1>21
     DEF Next, Operation, Holder

(* The type invariant, for every library.                                  *)
THEOREM Typing == Spec => []TypeOK
<1>1. Typed => TypeOK
  BY DEF Typed
<1> QED
  BY <1>1, InitTyped, NextTyped, PTL DEF Spec

-----------------------------------------------------------------------------
(* Why the history can be served when no file operation fails and no id is *)
(* written twice.  Between the steps of an operation a file may be missing *)
(* or half copied, but then its item is the operation's own, and it is     *)
(* either still listed as a favorite, with its copy gone, or not in        *)
(* favorites.json, so that a restart does not bring it back.               *)
NoRewrites == sessions = {} /\ unused \cap history = {}

SavedAreFavorites ==
  /\ json.items \cap history \subseteq favorite
  /\ json.items \cap unused = {}
  /\ \A m \in json.items : favFile[m] \in {"none", "whole"}

HasFile ==
  \A m \in history :
    IF m \in favorite
      THEN favFile[m] = "whole" \/ (m = arg /\ pc \in {"unfavTree", "unfavSave"})
      ELSE m \in work

CopyIsWhole == pc \in {"favSave", "favTree"} => favFile[arg] = "whole"

ServableInv == Typed /\ NoRewrites /\ SavedAreFavorites /\ HasFile /\ CopyIsWhole

(* The media whose items a new one displaces are no favorites; those that  *)
(* stay keep their files.                                                  *)
LEMMA PrependServes ==
  ASSUME TypeOK, HasFile, NEW m \in Media, Prepend(m)
  PROVE  /\ \A k \in history' \ {m} : k \notin favorite => k \in work'
         /\ m \in history' => m \in work'
  BY PruneKeeps DEF Prepend, HasFile, TypeOK

(* The empty library is servable.                                          *)
LEMMA InitServable == Init => ServableInv
<1> SUFFICES ASSUME Init PROVE ServableInv
  OBVIOUS
<1> QED
  BY InitTyped DEF Init, ServableInv, NoRewrites, SavedAreFavorites, HasFile, CopyIsWhole

(* Every operation, each step of it and every restart keep it servable.    *)
LEMMA NextServable ==
  ASSUME Live = {}, Faults = FALSE, ServableInv, [Next]_vars
  PROVE  ServableInv'
<1>t. Typed'
  BY NextTyped DEF ServableInv
<1>i. Typed /\ NoRewrites /\ SavedAreFavorites /\ HasFile /\ CopyIsWhole
  BY DEF ServableInv
<1> DEFINE Rest == NoRewrites /\ SavedAreFavorites /\ HasFile /\ CopyIsWhole
<1> USE <1>t, <1>i DEF Typed, TypeOK, Done, Step, Bump, Draw, Idle, MayWrite,
        itemVars, currentVars, diskVars, opVars, Trees, Steps,
        NoRewrites, SavedAreFavorites, HasFile, CopyIsWhole, Listing
<1>1. ASSUME NEW m \in Media, SetCurrentInfo(m) PROVE Rest'
  BY <1>1, PrependServes, PrependKeeps DEF SetCurrentInfo
<1>2. ASSUME NEW m \in Media, AddHistory(m) PROVE Rest'
  BY <1>2, PrependServes, PrependKeeps DEF AddHistory
<1>3. ASSUME NEW m \in Media, SetPending(m) PROVE Rest'
  BY <1>3 DEF SetPending
<1>4. ASSUME NEW m \in Media, CommitRecording(m) PROVE Rest'
  BY <1>4, PrependServes, PrependKeeps DEF CommitRecording
<1>5. ASSUME NEW m \in Media, SetCurrentFromHistory(m) PROVE Rest'
  BY <1>5 DEF SetCurrentFromHistory
<1>6. ASSUME NEW m \in Media, FavoriteFile(m) PROVE Rest'
  BY <1>6 DEF FavoriteFile
<1>7. ASSUME NEW m \in Media, UnfavoriteFile(m) PROVE Rest'
  BY <1>7 DEF UnfavoriteFile
<1>8. ASSUME NEW m \in Media, MarkConverted(m) PROVE Rest'
  BY <1>8 DEF MarkConverted
<1>9. ASSUME FavoriteTree PROVE Rest'
  BY <1>9 DEF FavoriteTree
<1>10. ASSUME FavoriteTreeDone PROVE Rest'
  BY <1>10 DEF FavoriteTreeDone
<1>11. ASSUME FavoriteSave PROVE Rest'
  BY <1>11 DEF FavoriteSave
<1>12. ASSUME UnfavoriteTree PROVE Rest'
  BY <1>12 DEF UnfavoriteTree
<1>13. ASSUME UnfavoriteSave PROVE Rest'
  BY <1>13 DEF UnfavoriteSave, LeaveOrStay
<1>14. ASSUME MarkFlag PROVE Rest'
  BY <1>14 DEF MarkFlag
<1>15. ASSUME MarkFavorite PROVE Rest'
  BY <1>15 DEF MarkFavorite
<1>16. ASSUME Fail PROVE Rest'
  BY <1>16 DEF Fail
<1>17. ASSUME Restart PROVE Rest'
  BY <1>17 DEF Restart, Loaded
<1>18. ASSUME Clear PROVE Rest'
  BY <1>18 DEF Clear
<1>19. ASSUME NEW m \in Media, NEW b \in BOOLEAN, SetPublished(m, b) PROVE Rest'
  BY <1>19 DEF SetPublished
<1>20. ASSUME NEW m \in Media, NEW select \in BOOLEAN, CommitPrepared(m, revision, select) PROVE Rest'
  BY <1>20, PruneKeeps DEF CommitPrepared
<1>21. ASSUME UNCHANGED vars PROVE Rest'
  BY <1>21 DEF vars
<1>22. Rest'
  BY <1>1, <1>2, <1>3, <1>4, <1>5, <1>6, <1>7, <1>8, <1>9, <1>10,
     <1>11, <1>12, <1>13, <1>14, <1>15, <1>16, <1>17, <1>18, <1>19,
     <1>20, <1>21
     DEF Next, Operation, Holder
<1> QED
  BY <1>22 DEF ServableInv

(* Whenever the mutex is free every item of the history has its file where *)
(* historyPath looks for it, however often the process dies: for libraries *)
(* of any size, when the file operations themselves do not fail.           *)
THEOREM Servable ==
  ASSUME Live = {}, Faults = FALSE
  PROVE  Spec => []HistoryIsServable
<1>1. ServableInv => HistoryIsServable
  BY DEF ServableInv, HasFile, HistoryIsServable, Idle
<1>2. ServableInv /\ [Next]_vars => ServableInv'
  BY NextServable
<1> QED
  BY <1>1, <1>2, InitServable, PTL DEF Spec

-----------------------------------------------------------------------------
(* Why favorites survive.  The steps of an operation about m:              *)
Under(m, steps) == arg = m /\ pc \in steps

(* favorites.json lists every favorite, with its flags: each operation     *)
(* that changes one of the three saves them before it releases the mutex,  *)
(* and a crash before the save takes the flag back with it.  Only          *)
(* MarkConverted sets its flag a step before the save.                     *)
ListedAreSaved ==
  \A m \in favorite :
    /\ m \in json.items
    /\ m \in json.published <=> m \in published
    /\ Under(m, {"markFav"}) \/ (m \in json.converted <=> m \in converted)

(* Every step and every restart keep favorites.json true to the favorites. *)
LEMMA NextListed ==
  ASSUME Live = {}, Faults = FALSE, ServableInv, ListedAreSaved, [Next]_vars
  PROVE  ListedAreSaved'
<1> USE DEF ServableInv, Typed, TypeOK, Done, Step, Bump, Draw, Idle, MayWrite,
        itemVars, currentVars, diskVars, opVars, Steps, NoRewrites, HasFile,
        ListedAreSaved, Under, Listing
<1>1. ASSUME NEW m \in Media, SetCurrentInfo(m) PROVE ListedAreSaved'
  BY <1>1, PrependServes, PrependKeeps DEF SetCurrentInfo
<1>2. ASSUME NEW m \in Media, AddHistory(m) PROVE ListedAreSaved'
  BY <1>2, PrependServes, PrependKeeps DEF AddHistory
<1>3. ASSUME NEW m \in Media, SetPending(m) PROVE ListedAreSaved'
  BY <1>3 DEF SetPending
<1>4. ASSUME NEW m \in Media, CommitRecording(m) PROVE ListedAreSaved'
  BY <1>4, PrependServes, PrependKeeps DEF CommitRecording
<1>5. ASSUME NEW m \in Media, SetCurrentFromHistory(m) PROVE ListedAreSaved'
  BY <1>5 DEF SetCurrentFromHistory
<1>6. ASSUME NEW m \in Media, FavoriteFile(m) PROVE ListedAreSaved'
  BY <1>6 DEF FavoriteFile
<1>7. ASSUME NEW m \in Media, UnfavoriteFile(m) PROVE ListedAreSaved'
  BY <1>7 DEF UnfavoriteFile
<1>8. ASSUME NEW m \in Media, MarkConverted(m) PROVE ListedAreSaved'
  BY <1>8 DEF MarkConverted
<1>9. ASSUME FavoriteTree PROVE ListedAreSaved'
  BY <1>9 DEF FavoriteTree
<1>10. ASSUME FavoriteTreeDone PROVE ListedAreSaved'
  BY <1>10 DEF FavoriteTreeDone
<1>11. ASSUME FavoriteSave PROVE ListedAreSaved'
  BY <1>11 DEF FavoriteSave
<1>12. ASSUME UnfavoriteTree PROVE ListedAreSaved'
  BY <1>12 DEF UnfavoriteTree
<1>13. ASSUME UnfavoriteSave PROVE ListedAreSaved'
  BY <1>13 DEF UnfavoriteSave, LeaveOrStay
<1>14. ASSUME MarkFlag PROVE ListedAreSaved'
  BY <1>14 DEF MarkFlag
<1>15. ASSUME MarkFavorite PROVE ListedAreSaved'
  BY <1>15 DEF MarkFavorite
<1>16. ASSUME Fail PROVE ListedAreSaved'
  BY <1>16 DEF Fail
<1>17. ASSUME Restart PROVE ListedAreSaved'
  BY <1>17 DEF Restart, Loaded
<1>18. ASSUME Clear PROVE ListedAreSaved'
  BY <1>18 DEF Clear
<1>19. ASSUME NEW m \in Media, NEW b \in BOOLEAN, SetPublished(m, b) PROVE ListedAreSaved'
  BY <1>19 DEF SetPublished
<1>20. ASSUME NEW m \in Media, NEW select \in BOOLEAN, CommitPrepared(m, revision, select) PROVE ListedAreSaved'
  BY <1>20, PruneKeeps DEF CommitPrepared
<1>21. ASSUME UNCHANGED vars PROVE ListedAreSaved'
  BY <1>21 DEF vars
<1> QED
  BY <1>1, <1>2, <1>3, <1>4, <1>5, <1>6, <1>7, <1>8, <1>9, <1>10,
     <1>11, <1>12, <1>13, <1>14, <1>15, <1>16, <1>17, <1>18, <1>19,
     <1>20, <1>21
     DEF Next, Operation, Holder

(* A favorite that loses the flag in a restart has lost its file, which    *)
(* only unfavoriting removes.                                              *)
LEMMA NextFavorite ==
  ASSUME Live = {}, Faults = FALSE, ServableInv, ListedAreSaved, [Next]_vars
  PROVE  OnlyUnfavorited
<1> USE DEF ServableInv, Typed, TypeOK, Done, Step, Bump, Draw, Idle, MayWrite,
        itemVars, currentVars, diskVars, opVars, NoRewrites, HasFile,
        ListedAreSaved, Under, OnlyUnfavorited
<1>1. ASSUME NEW m \in Media, SetCurrentInfo(m) PROVE OnlyUnfavorited
  BY <1>1 DEF SetCurrentInfo
<1>2. ASSUME NEW m \in Media, AddHistory(m) PROVE OnlyUnfavorited
  BY <1>2 DEF AddHistory
<1>3. ASSUME NEW m \in Media, SetPending(m) PROVE OnlyUnfavorited
  BY <1>3 DEF SetPending
<1>4. ASSUME NEW m \in Media, CommitRecording(m) PROVE OnlyUnfavorited
  BY <1>4 DEF CommitRecording
<1>5. ASSUME NEW m \in Media, SetCurrentFromHistory(m) PROVE OnlyUnfavorited
  BY <1>5 DEF SetCurrentFromHistory
<1>6. ASSUME NEW m \in Media, FavoriteFile(m) PROVE OnlyUnfavorited
  BY <1>6 DEF FavoriteFile
<1>7. ASSUME NEW m \in Media, UnfavoriteFile(m) PROVE OnlyUnfavorited
  BY <1>7 DEF UnfavoriteFile
<1>8. ASSUME NEW m \in Media, MarkConverted(m) PROVE OnlyUnfavorited
  BY <1>8 DEF MarkConverted
<1>9. ASSUME FavoriteTree PROVE OnlyUnfavorited
  BY <1>9 DEF FavoriteTree
<1>10. ASSUME FavoriteTreeDone PROVE OnlyUnfavorited
  BY <1>10 DEF FavoriteTreeDone
<1>11. ASSUME FavoriteSave PROVE OnlyUnfavorited
  BY <1>11 DEF FavoriteSave
<1>12. ASSUME UnfavoriteTree PROVE OnlyUnfavorited
  BY <1>12 DEF UnfavoriteTree
<1>13. ASSUME UnfavoriteSave PROVE OnlyUnfavorited
  BY <1>13 DEF UnfavoriteSave, LeaveOrStay
<1>14. ASSUME MarkFlag PROVE OnlyUnfavorited
  BY <1>14 DEF MarkFlag
<1>15. ASSUME MarkFavorite PROVE OnlyUnfavorited
  BY <1>15 DEF MarkFavorite
<1>16. ASSUME Fail PROVE OnlyUnfavorited
  BY <1>16 DEF Fail
<1>17. ASSUME Restart PROVE OnlyUnfavorited
  BY <1>17 DEF Restart, Loaded
<1>18. ASSUME Clear PROVE OnlyUnfavorited
  BY <1>18 DEF Clear
<1>19. ASSUME NEW m \in Media, NEW b \in BOOLEAN, SetPublished(m, b) PROVE OnlyUnfavorited
  BY <1>19 DEF SetPublished
<1>20. ASSUME NEW m \in Media, NEW select \in BOOLEAN, CommitPrepared(m, revision, select) PROVE OnlyUnfavorited
  BY <1>20 DEF CommitPrepared
<1>21. ASSUME UNCHANGED vars PROVE OnlyUnfavorited
  BY <1>21 DEF vars
<1> QED
  BY <1>1, <1>2, <1>3, <1>4, <1>5, <1>6, <1>7, <1>8, <1>9, <1>10,
     <1>11, <1>12, <1>13, <1>14, <1>15, <1>16, <1>17, <1>18, <1>19,
     <1>20, <1>21
     DEF Next, Operation, Holder

-----------------------------------------------------------------------------
(* Why what is marked converted can be restored.  When neither SetFavorite *)
(* nor MarkConverted is repeated, a copy is made for an item that is not   *)
(* a favorite yet, or not saved as converted yet: a crash that leaves the  *)
(* copy half made then forgets the item, or its flag.                      *)
CopiesAreNew ==
  /\ pc \in {"favFile", "favTree", "favSave"} => arg \notin favorite
  /\ pc = "markSwap" => arg \notin converted
  /\ pc = "markFav" => arg \notin json.converted

(* The tree in the workspace is the one that is copied, and it is whole.   *)
WorkTreesAreWhole ==
  /\ \A m \in Media : conv[m] # "partial"
  /\ \A m \in converted \cap work : conv[m] = "whole"
  /\ pc \in {"favTree", "markFav"} => conv[arg] = "whole"

(* So is the tree of a favorite, but while it is being unfavorited or      *)
(* copied, and the one of an item that a restart makes a favorite; what is *)
(* being unfavorited has lost its file already.                            *)
FavoriteTreesAreWhole ==
  /\ \A m \in converted \cap favorite :
       favConv[m] = "whole" \/ Under(m, {"unfavSave", "markFav"})
  /\ pc = "favSave" /\ arg \in converted => favConv[arg] = "whole"
  /\ \A m \in json.items \cap json.converted :
       favFile[m] # "none" => favConv[m] = "whole"
  /\ pc \in {"unfavTree", "unfavSave"} => favFile[arg] = "none"

TreeInv == CopiesAreNew /\ WorkTreesAreWhole /\ FavoriteTreesAreWhole

(* No step repeats a copy.                                                 *)
LEMMA NextCopies ==
  ASSUME Live = {}, Faults = FALSE, Repeats = FALSE,
         ServableInv, ListedAreSaved, TreeInv, [Next]_vars
  PROVE  CopiesAreNew'
<1> USE DEF ServableInv, Typed, TypeOK, Done, Step, Bump, Draw, Idle, MayWrite,
        itemVars, currentVars, diskVars, opVars, Steps, NoRewrites,
        ListedAreSaved, Under, Listing, TreeInv, CopiesAreNew
<1>1. ASSUME NEW m \in Media, SetCurrentInfo(m) PROVE CopiesAreNew'
  BY <1>1 DEF SetCurrentInfo
<1>2. ASSUME NEW m \in Media, AddHistory(m) PROVE CopiesAreNew'
  BY <1>2 DEF AddHistory
<1>3. ASSUME NEW m \in Media, SetPending(m) PROVE CopiesAreNew'
  BY <1>3 DEF SetPending
<1>4. ASSUME NEW m \in Media, CommitRecording(m) PROVE CopiesAreNew'
  BY <1>4 DEF CommitRecording
<1>5. ASSUME NEW m \in Media, SetCurrentFromHistory(m) PROVE CopiesAreNew'
  BY <1>5 DEF SetCurrentFromHistory
<1>6. ASSUME NEW m \in Media, FavoriteFile(m) PROVE CopiesAreNew'
  BY <1>6 DEF FavoriteFile
<1>7. ASSUME NEW m \in Media, UnfavoriteFile(m) PROVE CopiesAreNew'
  BY <1>7 DEF UnfavoriteFile
<1>8. ASSUME NEW m \in Media, MarkConverted(m) PROVE CopiesAreNew'
  BY <1>8 DEF MarkConverted
<1>9. ASSUME FavoriteTree PROVE CopiesAreNew'
  BY <1>9 DEF FavoriteTree
<1>10. ASSUME FavoriteTreeDone PROVE CopiesAreNew'
  BY <1>10 DEF FavoriteTreeDone
<1>11. ASSUME FavoriteSave PROVE CopiesAreNew'
  BY <1>11 DEF FavoriteSave
<1>12. ASSUME UnfavoriteTree PROVE CopiesAreNew'
  BY <1>12 DEF UnfavoriteTree
<1>13. ASSUME UnfavoriteSave PROVE CopiesAreNew'
  BY <1>13 DEF UnfavoriteSave, LeaveOrStay
<1>14. ASSUME MarkFlag PROVE CopiesAreNew'
  BY <1>14 DEF MarkFlag
<1>15. ASSUME MarkFavorite PROVE CopiesAreNew'
  BY <1>15 DEF MarkFavorite
<1>16. ASSUME Fail PROVE CopiesAreNew'
  BY <1>16 DEF Fail
<1>17. ASSUME Restart PROVE CopiesAreNew'
  BY <1>17 DEF Restart, Loaded
<1>18. ASSUME Clear PROVE CopiesAreNew'
  BY <1>18 DEF Clear
<1>19. ASSUME NEW m \in Media, NEW b \in BOOLEAN, SetPublished(m, b) PROVE CopiesAreNew'
  BY <1>19 DEF SetPublished
<1>20. ASSUME NEW m \in Media, NEW select \in BOOLEAN, CommitPrepared(m, revision, select) PROVE CopiesAreNew'
  BY <1>20 DEF CommitPrepared
<1>21. ASSUME UNCHANGED vars PROVE CopiesAreNew'
  BY <1>21 DEF vars
<1> QED
  BY <1>1, <1>2, <1>3, <1>4, <1>5, <1>6, <1>7, <1>8, <1>9, <1>10,
     <1>11, <1>12, <1>13, <1>14, <1>15, <1>16, <1>17, <1>18, <1>19,
     <1>20, <1>21
     DEF Next, Operation, Holder

(* Every step keeps the trees of the workspace whole.                      *)
LEMMA NextWorkTrees ==
  ASSUME Live = {}, Faults = FALSE, Repeats = FALSE, ServableInv, TreeInv, [Next]_vars
  PROVE  WorkTreesAreWhole'
<1> USE DEF ServableInv, Typed, TypeOK, Done, Step, Bump, Draw, Idle, MayWrite,
        itemVars, currentVars, diskVars, opVars, Steps, Trees, NoRewrites, HasFile,
        TreeInv, CopiesAreNew, WorkTreesAreWhole, Prepend
<1>1. ASSUME NEW m \in Media, SetCurrentInfo(m) PROVE WorkTreesAreWhole'
  BY <1>1, PrependServes, PrependKeeps DEF SetCurrentInfo
<1>2. ASSUME NEW m \in Media, AddHistory(m) PROVE WorkTreesAreWhole'
  BY <1>2, PrependServes, PrependKeeps DEF AddHistory
<1>3. ASSUME NEW m \in Media, SetPending(m) PROVE WorkTreesAreWhole'
  BY <1>3 DEF SetPending
<1>4. ASSUME NEW m \in Media, CommitRecording(m) PROVE WorkTreesAreWhole'
  BY <1>4, PrependServes, PrependKeeps DEF CommitRecording
<1>5. ASSUME NEW m \in Media, SetCurrentFromHistory(m) PROVE WorkTreesAreWhole'
  BY <1>5 DEF SetCurrentFromHistory
<1>6. ASSUME NEW m \in Media, FavoriteFile(m) PROVE WorkTreesAreWhole'
  BY <1>6 DEF FavoriteFile
<1>7. ASSUME NEW m \in Media, UnfavoriteFile(m) PROVE WorkTreesAreWhole'
  BY <1>7 DEF UnfavoriteFile
<1>8. ASSUME NEW m \in Media, MarkConverted(m) PROVE WorkTreesAreWhole'
  BY <1>8 DEF MarkConverted
<1>9. ASSUME FavoriteTree PROVE WorkTreesAreWhole'
  BY <1>9 DEF FavoriteTree
<1>10. ASSUME FavoriteTreeDone PROVE WorkTreesAreWhole'
  BY <1>10 DEF FavoriteTreeDone
<1>11. ASSUME FavoriteSave PROVE WorkTreesAreWhole'
  BY <1>11 DEF FavoriteSave
<1>12. ASSUME UnfavoriteTree PROVE WorkTreesAreWhole'
  BY <1>12 DEF UnfavoriteTree
<1>13. ASSUME UnfavoriteSave PROVE WorkTreesAreWhole'
  BY <1>13 DEF UnfavoriteSave, LeaveOrStay
<1>14. ASSUME MarkFlag PROVE WorkTreesAreWhole'
  BY <1>14 DEF MarkFlag
<1>15. ASSUME MarkFavorite PROVE WorkTreesAreWhole'
  BY <1>15 DEF MarkFavorite
<1>16. ASSUME Fail PROVE WorkTreesAreWhole'
  BY <1>16 DEF Fail
<1>17. ASSUME Restart PROVE WorkTreesAreWhole'
  BY <1>17 DEF Restart, Loaded
<1>18. ASSUME Clear PROVE WorkTreesAreWhole'
  BY <1>18 DEF Clear
<1>19. ASSUME NEW m \in Media, NEW b \in BOOLEAN, SetPublished(m, b) PROVE WorkTreesAreWhole'
  BY <1>19 DEF SetPublished
<1>20. ASSUME NEW m \in Media, NEW select \in BOOLEAN, CommitPrepared(m, revision, select) PROVE WorkTreesAreWhole'
  BY <1>20, PruneKeeps DEF CommitPrepared
<1>21. ASSUME UNCHANGED vars PROVE WorkTreesAreWhole'
  BY <1>21 DEF vars
<1> QED
  BY <1>1, <1>2, <1>3, <1>4, <1>5, <1>6, <1>7, <1>8, <1>9, <1>10,
     <1>11, <1>12, <1>13, <1>14, <1>15, <1>16, <1>17, <1>18, <1>19,
     <1>20, <1>21
     DEF Next, Operation, Holder

(* Every step keeps the trees of the favorites whole.                      *)
LEMMA NextFavoriteTrees ==
  ASSUME Live = {}, Faults = FALSE, Repeats = FALSE,
         ServableInv, ListedAreSaved, TreeInv, [Next]_vars
  PROVE  FavoriteTreesAreWhole'
<1> USE DEF ServableInv, Typed, TypeOK, Done, Step, Bump, Draw, Idle, MayWrite,
        itemVars, currentVars, diskVars, opVars, Steps, Trees, NoRewrites, HasFile,
        SavedAreFavorites, ListedAreSaved, Under, Listing,
        TreeInv, CopiesAreNew, WorkTreesAreWhole, FavoriteTreesAreWhole
<1>1. ASSUME NEW m \in Media, SetCurrentInfo(m) PROVE FavoriteTreesAreWhole'
  BY <1>1, PrependServes, PrependKeeps DEF SetCurrentInfo
<1>2. ASSUME NEW m \in Media, AddHistory(m) PROVE FavoriteTreesAreWhole'
  BY <1>2, PrependServes, PrependKeeps DEF AddHistory
<1>3. ASSUME NEW m \in Media, SetPending(m) PROVE FavoriteTreesAreWhole'
  BY <1>3 DEF SetPending
<1>4. ASSUME NEW m \in Media, CommitRecording(m) PROVE FavoriteTreesAreWhole'
  BY <1>4, PrependServes, PrependKeeps DEF CommitRecording
<1>5. ASSUME NEW m \in Media, SetCurrentFromHistory(m) PROVE FavoriteTreesAreWhole'
  BY <1>5 DEF SetCurrentFromHistory
<1>6. ASSUME NEW m \in Media, FavoriteFile(m) PROVE FavoriteTreesAreWhole'
  BY <1>6 DEF FavoriteFile
<1>7. ASSUME NEW m \in Media, UnfavoriteFile(m) PROVE FavoriteTreesAreWhole'
  BY <1>7 DEF UnfavoriteFile
<1>8. ASSUME NEW m \in Media, MarkConverted(m) PROVE FavoriteTreesAreWhole'
  BY <1>8 DEF MarkConverted
<1>9. ASSUME FavoriteTree PROVE FavoriteTreesAreWhole'
  BY <1>9 DEF FavoriteTree
<1>10. ASSUME FavoriteTreeDone PROVE FavoriteTreesAreWhole'
  BY <1>10 DEF FavoriteTreeDone
<1>11. ASSUME FavoriteSave PROVE FavoriteTreesAreWhole'
  BY <1>11 DEF FavoriteSave
<1>12. ASSUME UnfavoriteTree PROVE FavoriteTreesAreWhole'
  BY <1>12 DEF UnfavoriteTree
<1>13. ASSUME UnfavoriteSave PROVE FavoriteTreesAreWhole'
  BY <1>13 DEF UnfavoriteSave, LeaveOrStay
<1>14. ASSUME MarkFlag PROVE FavoriteTreesAreWhole'
  BY <1>14 DEF MarkFlag
<1>15. ASSUME MarkFavorite PROVE FavoriteTreesAreWhole'
  BY <1>15 DEF MarkFavorite
<1>16. ASSUME Fail PROVE FavoriteTreesAreWhole'
  BY <1>16 DEF Fail
<1>17. ASSUME Restart PROVE FavoriteTreesAreWhole'
  BY <1>17 DEF Restart, Loaded
<1>18. ASSUME Clear PROVE FavoriteTreesAreWhole'
  BY <1>18 DEF Clear
<1>19. ASSUME NEW m \in Media, NEW b \in BOOLEAN, SetPublished(m, b) PROVE FavoriteTreesAreWhole'
  BY <1>19 DEF SetPublished
<1>20. ASSUME NEW m \in Media, NEW select \in BOOLEAN, CommitPrepared(m, revision, select) PROVE FavoriteTreesAreWhole'
  BY <1>20, PruneKeeps DEF CommitPrepared
<1>21. ASSUME UNCHANGED vars PROVE FavoriteTreesAreWhole'
  BY <1>21 DEF vars
<1> QED
  BY <1>1, <1>2, <1>3, <1>4, <1>5, <1>6, <1>7, <1>8, <1>9, <1>10,
     <1>11, <1>12, <1>13, <1>14, <1>15, <1>16, <1>17, <1>18, <1>19,
     <1>20, <1>21
     DEF Next, Operation, Holder

(* Before anything is converted or favorite the trees are whole.           *)
LEMMA InitSaved == Init => ListedAreSaved /\ TreeInv
BY DEF Init, ListedAreSaved, TreeInv, CopiesAreNew, WorkTreesAreWhole,
       FavoriteTreesAreWhole

(* What the invariants say when the mutex is free.                         *)
LEMMA InvariantsSuffice ==
  /\ ServableInv => HistoryIsServable
  /\ ServableInv /\ ListedAreSaved => FavoritesAreDurable
  /\ ServableInv /\ TreeInv => ConvertedIsWhole
<1>1. ServableInv => HistoryIsServable
  BY DEF ServableInv, HasFile, HistoryIsServable, Idle
<1>2. ServableInv /\ ListedAreSaved => FavoritesAreDurable
  BY DEF ServableInv, Typed, TypeOK, HasFile, ListedAreSaved, Under,
         FavoritesAreDurable, Idle
<1>3. ServableInv /\ TreeInv => ConvertedIsWhole
  BY DEF ServableInv, Typed, TypeOK, HasFile, TreeInv, WorkTreesAreWhole,
         FavoriteTreesAreWhole, Under, ConvertedIsWhole, Tree, Idle
<1> QED
  BY <1>1, <1>2, <1>3

(* Every step keeps the trees whole.                                       *)
LEMMA NextTrees ==
  ASSUME Live = {}, Faults = FALSE, Repeats = FALSE,
         ServableInv, ListedAreSaved, TreeInv, [Next]_vars
  PROVE  TreeInv'
<1>1. CopiesAreNew'
  BY NextCopies
<1>2. WorkTreesAreWhole'
  BY NextWorkTrees
<1>3. FavoriteTreesAreWhole'
  BY NextFavoriteTrees
<1> QED
  BY <1>1, <1>2, <1>3 DEF TreeInv

(* A restart, wherever the process dies, brings every favorite back with   *)
(* the flags it had: for libraries of any size whose ids are written once, *)
(* as long as the file operations themselves do not fail.                  *)
THEOREM FavoritesSurvive ==
  ASSUME Live = {}, Faults = FALSE
  PROVE  Spec => []FavoritesAreDurable
<1> DEFINE IInv == ServableInv /\ ListedAreSaved
<1>1. Init => IInv
  BY InitServable, InitSaved
<1>2. IInv /\ [Next]_vars => IInv'
  BY NextServable, NextListed
<1>3. IInv => FavoritesAreDurable
  BY InvariantsSuffice
<1> QED
  BY <1>1, <1>2, <1>3, PTL DEF Spec

(* Nothing but unfavoriting ends a favorite: no overwriting, pruning or    *)
(* crash does.                                                             *)
THEOREM FavoritesEndByUnfavoriting ==
  ASSUME Live = {}, Faults = FALSE
  PROVE  Spec => FavoriteIsKept
<1> DEFINE IInv == ServableInv /\ ListedAreSaved
<1>1. Init => IInv
  BY InitServable, InitSaved
<1>2. IInv /\ [Next]_vars => IInv'
  BY NextServable, NextListed
<1>3. IInv /\ [Next]_vars => [OnlyUnfavorited]_vars
  BY NextFavorite
<1> QED
  BY <1>1, <1>2, <1>3, PTL DEF Spec, FavoriteIsKept

(* An item that is marked converted has a whole tree where ConvertedPath   *)
(* looks for it, also after a crash between two copies, when moreover      *)
(* nothing is favorited or marked converted twice.                         *)
THEOREM ConvertedRestores ==
  ASSUME Live = {}, Faults = FALSE, Repeats = FALSE
  PROVE  Spec => []ConvertedIsWhole
<1> DEFINE IInv == ServableInv /\ ListedAreSaved /\ TreeInv
<1>1. Init => IInv
  BY InitServable, InitSaved
<1>2. IInv /\ [Next]_vars => IInv'
  BY NextServable, NextListed, NextTrees
<1>3. IInv => ConvertedIsWhole
  BY InvariantsSuffice
<1> QED
  BY <1>1, <1>2, <1>3, PTL DEF Spec

-----------------------------------------------------------------------------
(* The recording that is played from its history file: whatever fails, and *)
(* however often sessions rewrite their ids, it stays in the history with  *)
(* its file.                                                               *)
AdoptedInv == Typed /\ (adopted => current \in history \cap work)

(* A new item is the newest of all, so that the limit spares it.           *)
LEMMA NewestIsKept ==
  ASSUME TypeOK, NEW m \in Media \ history
  PROVE  m \in Pruned(history \cup {m}, AgeWith(m))
<1> DEFINE Newer == {i \in (history \cup {m}) \ favorite : AgeWith(m)[i] <= AgeWith(m)[m]}
<1>1. Newer \subseteq {m}
  BY DEF TypeOK, AgeWith
<1>2. Cardinality(Newer) <= 1
  <2>1. IsFiniteSet({m}) /\ Cardinality({m}) = 1
    BY FS_Singleton
  <2> QED
    BY <1>1, <2>1, FS_Subset
<1>3. 1 <= Limit /\ Limit \in Nat
  BY MediaLibraryAssumption
<1>4. Cardinality(Newer) \in Nat
  BY <1>1, FS_Singleton, FS_Subset, FS_CardinalityType
<1> QED
  BY <1>2, <1>3, <1>4 DEF Pruned

(* Adding an item keeps the adopted one and its file, and the item itself. *)
LEMMA PrependSpares ==
  ASSUME AdoptedInv, NEW m \in Media, Prepend(m)
  PROVE  m \in history' \cap work' /\ (adopted => current \in history' \cap work')
<1>1. m \in history'
  BY NewestIsKept DEF Prepend, AdoptedInv, Typed
<1>2. m \in work'
  BY <1>1 DEF Prepend
<1>3. adopted => current \in history' \cap work'
  BY DEF AdoptedInv, Prepend, Pruned
<1> QED
  BY <1>1, <1>2, <1>3

(* Every step keeps the recording that is played.                          *)
LEMMA NextAdopted == AdoptedInv /\ [Next]_vars => AdoptedInv'
<1> SUFFICES ASSUME AdoptedInv, [Next]_vars PROVE (adopted => current \in history \cap work)'
  BY NextTyped DEF AdoptedInv
<1> DEFINE Rest == adopted => current \in history \cap work
<1> USE DEF AdoptedInv, Typed, TypeOK, Done, Step, Idle, itemVars, currentVars,
        diskVars, opVars
<1>1. ASSUME NEW m \in Media, SetCurrentInfo(m) PROVE Rest'
  BY <1>1, PrependSpares DEF SetCurrentInfo
<1>2. ASSUME NEW m \in Media, AddHistory(m) PROVE Rest'
  BY <1>2, PrependSpares DEF AddHistory
<1>3. ASSUME NEW m \in Media, SetPending(m) PROVE Rest'
  BY <1>3 DEF SetPending
<1>4. ASSUME NEW m \in Media, CommitRecording(m) PROVE Rest'
  BY <1>4, PrependSpares DEF CommitRecording
<1>5. ASSUME NEW m \in Media, SetCurrentFromHistory(m) PROVE Rest'
  BY <1>5 DEF SetCurrentFromHistory
<1>6. ASSUME NEW m \in Media, FavoriteFile(m) PROVE Rest'
  BY <1>6 DEF FavoriteFile
<1>7. ASSUME NEW m \in Media, UnfavoriteFile(m) PROVE Rest'
  BY <1>7 DEF UnfavoriteFile
<1>8. ASSUME NEW m \in Media, MarkConverted(m) PROVE Rest'
  BY <1>8 DEF MarkConverted
<1>9. ASSUME FavoriteTree PROVE Rest'
  BY <1>9 DEF FavoriteTree
<1>10. ASSUME FavoriteTreeDone PROVE Rest'
  BY <1>10 DEF FavoriteTreeDone
<1>11. ASSUME FavoriteSave PROVE Rest'
  BY <1>11 DEF FavoriteSave
<1>12. ASSUME UnfavoriteTree PROVE Rest'
  BY <1>12 DEF UnfavoriteTree
<1>13. ASSUME UnfavoriteSave PROVE Rest'
  BY <1>13 DEF UnfavoriteSave, LeaveOrStay
<1>14. ASSUME MarkFlag PROVE Rest'
  BY <1>14 DEF MarkFlag
<1>15. ASSUME MarkFavorite PROVE Rest'
  BY <1>15 DEF MarkFavorite
<1>16. ASSUME Fail PROVE Rest'
  BY <1>16 DEF Fail
<1>17. ASSUME Restart PROVE Rest'
  BY <1>17 DEF Restart, Loaded
<1>18. ASSUME Clear PROVE Rest'
  BY <1>18 DEF Clear
<1>19. ASSUME NEW m \in Media, NEW b \in BOOLEAN, SetPublished(m, b) PROVE Rest'
  BY <1>19 DEF SetPublished
<1>20. ASSUME NEW m \in Media, NEW select \in BOOLEAN, CommitPrepared(m, revision, select) PROVE Rest'
  BY <1>20 DEF CommitPrepared, Pruned
<1>21. ASSUME UNCHANGED vars PROVE Rest'
  BY <1>21 DEF vars
<1> QED
  BY <1>1, <1>2, <1>3, <1>4, <1>5, <1>6, <1>7, <1>8, <1>9, <1>10,
     <1>11, <1>12, <1>13, <1>14, <1>15, <1>16, <1>17, <1>18, <1>19,
     <1>20, <1>21
     DEF Next, Operation, Holder

(* The current recording is never pruned from under the player, whatever   *)
(* fails and whatever is recorded, uploaded, unfavorited meanwhile.        *)
THEOREM RecordingStays == Spec => []CurrentRecordingIsServable
<1>1. Init => AdoptedInv
  BY InitTyped DEF Init, AdoptedInv
<1>2. AdoptedInv /\ [Next]_vars => AdoptedInv'
  BY NextAdopted
<1>3. AdoptedInv => CurrentRecordingIsServable
  BY DEF AdoptedInv, CurrentRecordingIsServable
<1> QED
  BY <1>1, <1>2, <1>3, PTL DEF Spec

-----------------------------------------------------------------------------
(* How long the history gets.  Pruning counts the items that are neither   *)
(* favorites nor the recording that is played; the place of one is the     *)
(* number of items up to it, from the newest.                              *)
Counted(h) == h \ (favorite \cup IF adopted THEN {current} ELSE {})

Upto(h, a, k) == {i \in h \ favorite : a[i] <= a[k]}

(* Who is at least as old has at least as many items up to it.             *)
LEMMA PlacesGrow ==
  ASSUME NEW h \in SUBSET Media, NEW a \in [Media -> Nat],
         NEW i \in h \ favorite, NEW k \in h \ favorite
  PROVE  /\ Cardinality(Upto(h, a, k)) \in Nat
         /\ a[k] <= a[i] => Cardinality(Upto(h, a, k)) <= Cardinality(Upto(h, a, i))
         /\ a[k] < a[i] => Cardinality(Upto(h, a, k)) # Cardinality(Upto(h, a, i))
<1>1. \A j \in h \ favorite :
        IsFiniteSet(Upto(h, a, j)) /\ Cardinality(Upto(h, a, j)) \in Nat
  <2> TAKE j \in h \ favorite
  <2>1. Upto(h, a, j) \in SUBSET Media
    BY DEF Upto
  <2> QED
    BY <2>1, FS_Subset, FS_CardinalityType, MediaLibraryAssumption
<1>2. a[k] <= a[i] => Upto(h, a, k) \in SUBSET Upto(h, a, i)
  BY DEF Upto
<1>3. a[k] < a[i] => i \in Upto(h, a, i) /\ i \notin Upto(h, a, k)
  BY DEF Upto
<1>4. a[k] <= a[i] => Cardinality(Upto(h, a, k)) <= Cardinality(Upto(h, a, i))
  BY <1>1, <1>2, FS_Subset
<1>5. a[k] < a[i] => Cardinality(Upto(h, a, k)) # Cardinality(Upto(h, a, i))
  <2> SUFFICES ASSUME a[k] < a[i] PROVE Cardinality(Upto(h, a, k)) # Cardinality(Upto(h, a, i))
    OBVIOUS
  <2>1. Upto(h, a, k) # Upto(h, a, i) /\ Upto(h, a, k) \in SUBSET Upto(h, a, i)
    BY <1>2, <1>3
  <2> QED
    BY <1>1, <2>1, FS_Subset
<1> QED
  BY <1>1, <1>4, <1>5

(* Pruning leaves at most Limit counted items, and drops none but these,   *)
(* the oldest ones.                                                        *)
LEMMA PrunedIsShort ==
  ASSUME NEW h \in SUBSET Media, NEW a \in [Media -> Nat]
  PROVE  /\ Cardinality(Counted(Pruned(h, a))) <= Limit
         /\ \A j \in h \ Pruned(h, a), k \in Counted(Pruned(h, a)) : a[k] < a[j]
<1> USE MediaLibraryAssumption
<1> DEFINE K == Counted(Pruned(h, a))
<1>1. \A k \in K : k \in h \ favorite /\ Cardinality(Upto(h, a, k)) <= Limit
  BY DEF Counted, Pruned, Upto
<1>2. \A j \in h \ Pruned(h, a) : j \in h \ favorite /\ ~(Cardinality(Upto(h, a, j)) <= Limit)
  BY DEF Pruned, Upto
<1>3. Cardinality(K) <= Limit
  <2>1. CASE K = {}
    BY <2>1, FS_EmptySet
  <2>2. CASE K # {}
    <3> DEFINE T == {Limit - Cardinality(Upto(h, a, k)) : k \in K}
    <3>1. T \subseteq Nat /\ T # {}
      BY <1>1, <2>2, PlacesGrow
    <3>2. PICK x \in T : \A y \in T : ~(<<y, x>> \in OpToRel(<, Nat))
      <4> HIDE DEF T
      <4> QED
        BY <3>1, NatLessThanWellFounded, WFMin
    <3>3. \A y \in T : ~(y < x)
      BY <3>1, <3>2 DEF OpToRel
    <3>4. PICK k \in K : x = Limit - Cardinality(Upto(h, a, k))
      OBVIOUS
    <3>5. K \subseteq Upto(h, a, k)
      <4> SUFFICES ASSUME NEW i \in K PROVE i \in Upto(h, a, k)
        OBVIOUS
      <4>1. ~(Limit - Cardinality(Upto(h, a, i)) < Limit - Cardinality(Upto(h, a, k)))
        BY <3>3, <3>4
      <4>2. ~(a[k] < a[i])
        BY <1>1, <4>1, PlacesGrow
      <4>3. i \in h \ favorite /\ k \in h \ favorite
        BY <1>1
      <4>4. a[i] \in Nat /\ a[k] \in Nat /\ a[i] <= a[k]
        BY <4>2, <4>3
      <4> QED
        BY <4>3, <4>4 DEF Upto
    <3>6. IsFiniteSet(Upto(h, a, k)) /\ IsFiniteSet(K)
      <4>1. Upto(h, a, k) \in SUBSET Media
        BY DEF Upto
      <4> QED
        BY <3>5, <4>1, FS_Subset
    <3>7. Cardinality(K) <= Cardinality(Upto(h, a, k)) /\ Cardinality(K) \in Nat
      BY <3>5, <3>6, FS_Subset, FS_CardinalityType
    <3> QED
      BY <1>1, <3>7, PlacesGrow
  <2> QED
    BY <2>1, <2>2
<1>4. ASSUME NEW j \in h \ Pruned(h, a), NEW k \in K PROVE a[k] < a[j]
  <2>1. j \in h \ favorite /\ k \in h \ favorite
    BY <1>1, <1>2
  <2>2. ~(Cardinality(Upto(h, a, j)) <= Cardinality(Upto(h, a, k)))
    BY <1>1, <1>2, <2>1, PlacesGrow
  <2>3. ~(a[j] <= a[k])
    BY <2>1, <2>2, PlacesGrow
  <2> QED
    BY <2>1, <2>3
<1> QED
  BY <1>3, <1>4

(* A step that adds an item leaves at most Limit items that are neither    *)
(* favorites nor played as a recording, and what it drops to that end is   *)
(* older than all of these.                                                *)
HistoryIsTrimmed ==
  history' \ history # {} =>
    LET counted == history' \ (favorite' \cup IF adopted THEN {current} ELSE {})
    IN  /\ Cardinality(counted) <= Limit
        /\ \A j \in history \ history', k \in counted : age'[k] < age'[j]

(* The history of any library stays short, whatever fails.                 *)
THEOREM HistoryStaysShort == Spec => [][HistoryIsTrimmed]_vars
<1>1. Typed /\ [Next]_vars => [HistoryIsTrimmed]_vars
  <2> SUFFICES ASSUME Typed, Next, history' \ history # {} PROVE HistoryIsTrimmed
    BY DEF HistoryIsTrimmed
  <2>1. ASSUME NEW m \in Media, m \notin history, history' = Pruned(history \cup {m}, AgeWith(m)),
               age' = AgeWith(m), favorite' = favorite
        PROVE  HistoryIsTrimmed
    <3>1. history \cup {m} \in SUBSET Media /\ AgeWith(m) \in [Media -> Nat]
      BY DEF Typed, TypeOK, AgeWith
    <3>2. history \ history' \subseteq (history \cup {m}) \ Pruned(history \cup {m}, AgeWith(m))
      BY <2>1
    <3> QED
      BY <2>1, <3>1, <3>2, PrunedIsShort DEF HistoryIsTrimmed, Counted
  <2>2. ASSUME NEW m \in Media, SetCurrentInfo(m) PROVE HistoryIsTrimmed
    BY <2>1, <2>2 DEF SetCurrentInfo, Prepend, Typed, TypeOK
  <2>3. ASSUME NEW m \in Media, AddHistory(m) PROVE HistoryIsTrimmed
    BY <2>1, <2>3 DEF AddHistory, Prepend
  <2>4. ASSUME NEW m \in Media, CommitRecording(m) PROVE HistoryIsTrimmed
    BY <2>1, <2>4 DEF CommitRecording, Prepend
  <2>5. ASSUME NEW m \in Media, NEW select \in BOOLEAN, CommitPrepared(m, revision, select)
        PROVE  HistoryIsTrimmed
    <3>1. m \notin history
      BY <2>5, PruneKeeps DEF CommitPrepared
    <3> QED
      BY <2>1, <2>5, <3>1 DEF CommitPrepared
  <2>6. CASE Restart
    <3>1. history' \ (favorite' \cup IF adopted THEN {current} ELSE {}) = {}
      BY <2>6 DEF Restart
    <3>2. Cardinality({}) = 0
      BY FS_EmptySet
    <3> QED
      BY <3>1, <3>2, MediaLibraryAssumption DEF HistoryIsTrimmed
  <2>7. ASSUME NEW m \in Media,
               \/ SetPending(m) \/ SetCurrentFromHistory(m)
               \/ \E b \in BOOLEAN : SetPublished(m, b)
               \/ FavoriteFile(m) \/ UnfavoriteFile(m) \/ MarkConverted(m)
        PROVE  FALSE
    BY <2>7 DEF SetPending, SetCurrentFromHistory, SetPublished, FavoriteFile, UnfavoriteFile,
                MarkConverted, itemVars
  <2>8. ASSUME Holder \/ Clear PROVE FALSE
    BY <2>8 DEF Holder, FavoriteTree, FavoriteTreeDone, FavoriteSave, UnfavoriteTree,
                UnfavoriteSave, LeaveOrStay, MarkFlag, MarkFavorite, Fail, Clear, itemVars
  <2> QED
    BY <2>2, <2>3, <2>4, <2>5, <2>6, <2>7, <2>8 DEF Next, Operation
<1> QED
  BY <1>1, InitTyped, NextTyped, PTL DEF Spec

-----------------------------------------------------------------------------
(* The library among its browsers and exports.  A browser writes a toggle  *)
(* it has asked for, so that each of its steps is one of the library, or   *)
(* leaves the library alone.                                               *)
Toggles == Media \X BOOLEAN

WantTyped ==
  /\ cpc \in [Clients -> {"idle", "polled", "accepted", "written", "listed"}]
  /\ want \in [Clients -> Toggles \cup {Nothing}]
  /\ \A c \in Clients : cpc[c] = "accepted" => want[c] \in Toggles

(* A browser's write is a step of the library.                             *)
LEMMA WriteIsOfLibrary ==
  ASSUME WantTyped, NEW c \in Clients, Write(c)
  PROVE  Library \/ UNCHANGED vars
<1>1. want[c] \in Toggles
  BY DEF WantTyped, Write
<1>2. want[c][1] \in Media /\ want[c][2] \in BOOLEAN
  BY <1>1 DEF Toggles
<1> QED
  BY <1>2 DEF Write, Library, Operation

(* So is every step of the composition, and the browsers keep their types. *)
LEMMA RevStep ==
  ASSUME WantTyped, RevNext \/ UNCHANGED allVars
  PROVE  [Next]_vars /\ WantTyped'
<1> USE DEF WantTyped, To, clientVars, exportVars, KeepLibrary
<1>1. CASE Library /\ UNCHANGED <<clientVars, exportVars>>
  BY <1>1 DEF Library, Next
<1>2. ASSUME NEW c \in Clients, Client(c) PROVE [Next]_vars /\ WantTyped'
  <2>1. CASE PollRevision(c) \/ PollHistory(c)
    BY <2>1 DEF PollRevision, PollHistory
  <2>2. ASSUME NEW m \in Media, NEW b \in BOOLEAN, Accept(c, m, b)
        PROVE  [Next]_vars /\ WantTyped'
    BY <2>2 DEF Accept, Toggles
  <2>3. CASE Write(c)
    <3>1. WantTyped'
      BY <2>3 DEF Write
    <3> QED
      BY <2>3, <3>1, WriteIsOfLibrary DEF Library, Next
  <2>4. CASE ReplyHistory(c) \/ ReplyRevision(c)
    BY <2>4 DEF ReplyHistory, ReplyRevision
  <2> QED
    BY <1>2, <2>1, <2>2, <2>3, <2>4 DEF Client
<1>3. ASSUME NEW e \in Exports, Export(e) PROVE [Next]_vars /\ WantTyped'
  <2>1. CASE ExportStart(e) \/ ExportCheck(e) \/ ExportConflict(e)
    BY <2>1 DEF ExportStart, ExportCheck, ExportConflict, ExportEnds
  <2>2. ASSUME NEW m \in Media, NEW select \in BOOLEAN, ExportCommit(e, m, select)
        PROVE  [Next]_vars /\ WantTyped'
    <3>1. CommitPrepared(m, revision, select)
      BY <2>2 DEF ExportCommit, CommitPrepared
    <3> QED
      BY <2>2, <3>1 DEF ExportCommit, Next, Operation
  <2> QED
    BY <1>3, <2>1, <2>2 DEF Export
<1>4. CASE Reload
  BY <1>4 DEF Reload, Next
<1>5. CASE UNCHANGED allVars
  BY <1>5 DEF allVars, vars
<1> QED
  BY <1>1, <1>2, <1>3, <1>4, <1>5 DEF RevNext

(* Nobody is typing yet.                                                   *)
LEMMA RevInitTyped == RevInit => WantTyped
BY DEF RevInit, WantTyped

(* The library keeps its specification in the composition, and with it     *)
(* every theorem above.                                                    *)
THEOREM CompositionIsOfLibrary == RevSpec => Spec
<1>1. RevInit => Init /\ WantTyped
  BY RevInitTyped DEF RevInit
<1>2. WantTyped /\ [RevNext]_allVars => [Next]_vars /\ WantTyped'
  BY RevStep
<1> QED
  BY <1>1, <1>2, PTL DEF RevSpec, Spec


-----------------------------------------------------------------------------
(* What the revision vouches for.  Ids are not drawn twice: an unused one  *)
(* is in no history, and in no favorites.json that a restart may load.     *)
FreshInv == unused \cap (history \cup json.items) = {}

(* A step that keeps the revision keeps the flags: what it adds is new and *)
(* not published, what it takes away it takes from both.                   *)
FlagsStay ==
  /\ published' = published \cap history'
  /\ history' \ history \subseteq unused

(* Every step of the library bumps the revision or keeps the flags.        *)
LEMMA StepsVouch ==
  ASSUME Typed, FreshInv, Library \/ UNCHANGED vars
  PROVE  /\ FreshInv' /\ unused' \subseteq unused
         /\ revision' = revision + 1 \/ (revision' = revision /\ FlagsStay)
<1> DEFINE Goal == /\ FreshInv' /\ unused' \subseteq unused
                   /\ \/ revision' = revision + 1
                      \/ revision' = revision /\ FlagsStay
<1> USE DEF Typed, TypeOK, FreshInv, FlagsStay, Done, Step, Bump, Idle,
        itemVars, currentVars, diskVars, opVars, Listing
<1>1. ASSUME NEW m \in Media, SetCurrentInfo(m) PROVE Goal
  BY <1>1, PrependKeeps DEF SetCurrentInfo
<1>2. ASSUME NEW m \in Media, AddHistory(m) PROVE Goal
  BY <1>2, PrependKeeps DEF AddHistory
<1>3. ASSUME NEW m \in Media, SetPending(m) PROVE Goal
  BY <1>3 DEF SetPending
<1>4. ASSUME NEW m \in Media, CommitRecording(m) PROVE Goal
  BY <1>4, PrependKeeps DEF CommitRecording
<1>5. ASSUME NEW m \in Media, SetCurrentFromHistory(m) PROVE Goal
  BY <1>5 DEF SetCurrentFromHistory
<1>6. ASSUME NEW m \in Media, FavoriteFile(m) PROVE Goal
  BY <1>6 DEF FavoriteFile
<1>7. ASSUME NEW m \in Media, UnfavoriteFile(m) PROVE Goal
  BY <1>7 DEF UnfavoriteFile
<1>8. ASSUME NEW m \in Media, MarkConverted(m) PROVE Goal
  BY <1>8 DEF MarkConverted
<1>9. ASSUME FavoriteTree PROVE Goal
  BY <1>9 DEF FavoriteTree
<1>10. ASSUME FavoriteTreeDone PROVE Goal
  BY <1>10 DEF FavoriteTreeDone
<1>11. ASSUME FavoriteSave PROVE Goal
  BY <1>11 DEF FavoriteSave
<1>12. ASSUME UnfavoriteTree PROVE Goal
  BY <1>12 DEF UnfavoriteTree
<1>13. ASSUME UnfavoriteSave PROVE Goal
  BY <1>13 DEF UnfavoriteSave, LeaveOrStay
<1>14. ASSUME MarkFlag PROVE Goal
  BY <1>14 DEF MarkFlag
<1>15. ASSUME MarkFavorite PROVE Goal
  BY <1>15 DEF MarkFavorite
<1>16. ASSUME Fail PROVE Goal
  BY <1>16 DEF Fail
<1>18. ASSUME Clear PROVE Goal
  BY <1>18 DEF Clear
<1>19. ASSUME NEW m \in Media, NEW b \in BOOLEAN, SetPublished(m, b) PROVE Goal
  BY <1>19 DEF SetPublished
<1>20. ASSUME NEW m \in Media, NEW select \in BOOLEAN, CommitPrepared(m, revision, select) PROVE Goal
  BY <1>20, PruneKeeps DEF CommitPrepared
<1>21. ASSUME UNCHANGED vars PROVE Goal
  BY <1>21 DEF vars
<1> QED
  BY <1>1, <1>2, <1>3, <1>4, <1>5, <1>6, <1>7, <1>8, <1>9, <1>10,
     <1>11, <1>12, <1>13, <1>14, <1>15, <1>16, <1>18, <1>19,
     <1>20, <1>21
     DEF Library, Operation, Holder

(* A browser that has polled and not toggled since shows what is published *)
(* as long as its revision stands, once it has the history too.  An export *)
(* remembers the published set its revision stands for.                    *)
Followed(S, rev) == rev <= revision /\ (rev = revision => S \cap history = published)

Viewed ==
  /\ seen \in [Clients -> Nat] /\ view \in [Clients -> SUBSET Media]
  /\ polled \subseteq Clients
  /\ \A c \in Clients : view[c] \cap unused = {}
  /\ \A c \in polled : /\ cpc[c] \notin {"written", "listed"}
                       /\ seen[c] <= revision
                       /\ cpc[c] # "polled" => Followed(view[c], seen[c])

Exported ==
  /\ epc \in [Exports -> {"off", "render", "stage", "over"}]
  /\ expected \in [Exports -> Nat] /\ basis \in [Exports -> SUBSET Media]
  /\ \A e \in Exports : basis[e] \cap unused = {}
  /\ \A e \in Exports : epc[e] \in {"render", "stage"} => Followed(basis[e], expected[e])

RevInv == Typed /\ WantTyped /\ FreshInv /\ Viewed /\ Exported

(* What a step of the library does to a view.                              *)
LEMMA FollowedStays ==
  ASSUME Typed, FreshInv, Library \/ UNCHANGED vars,
         NEW S, S \cap unused = {}, NEW rev \in Nat
  PROVE  /\ S \cap unused' = {}
         /\ rev <= revision => rev <= revision'
         /\ Followed(S, rev) => Followed(S, rev)'
<1>1. revision \in Nat /\ published \subseteq history
  BY DEF Typed, TypeOK
<1>2. \/ revision' = revision + 1
      \/ revision' = revision /\ FlagsStay
  BY StepsVouch
<1>3. unused' \subseteq unused
  BY StepsVouch
<1> QED
  BY <1>1, <1>2, <1>3 DEF Followed, FlagsStay

(* A step of the library that leaves the browsers and exports alone.       *)
LEMMA LibraryFollows ==
  ASSUME RevInv, Library
  PROVE  /\ UNCHANGED clientVars => Viewed'
         /\ UNCHANGED exportVars => Exported'
<1>1. ASSUME UNCHANGED clientVars PROVE Viewed'
  <2>1. \A c \in Clients : view[c] \cap unused' = {}
    BY FollowedStays DEF RevInv, Viewed
  <2>2. \A c \in polled : seen[c] <= revision'
    BY FollowedStays DEF RevInv, Viewed
  <2>3. \A c \in polled : cpc[c] # "polled" => Followed(view[c], seen[c])'
    BY <1>1, FollowedStays DEF RevInv, Viewed, clientVars, Followed
  <2> QED
    BY <1>1, <2>1, <2>2, <2>3 DEF RevInv, Viewed, clientVars
<1>2. ASSUME UNCHANGED exportVars PROVE Exported'
  <2>1. \A e \in Exports : basis[e] \cap unused' = {}
    BY FollowedStays DEF RevInv, Exported
  <2>2. \A e \in Exports : epc[e] \in {"render", "stage"} => Followed(basis[e], expected[e])'
    BY <1>2, FollowedStays DEF RevInv, Exported, exportVars, Followed
  <2> QED
    BY <1>2, <2>1, <2>2 DEF RevInv, Exported, exportVars
<1> QED
  BY <1>1, <1>2

(* Nothing has been read yet.                                              *)
LEMMA RevInitFollows == RevInit => RevInv
<1> SUFFICES ASSUME RevInit PROVE RevInv
  OBVIOUS
<1>1. Typed /\ WantTyped
  BY InitTyped, RevInitTyped DEF RevInit
<1>2. FreshInv
  BY DEF RevInit, Init, FreshInv
<1>3. Viewed
  BY DEF RevInit, Viewed
<1>4. Exported
  BY DEF RevInit, Exported
<1> QED
  BY <1>1, <1>2, <1>3, <1>4 DEF RevInv

(* The steps of a browser.                                                 *)
LEMMA ClientFollows ==
  ASSUME RevInv, NEW c \in Clients, Client(c)
  PROVE  Viewed' /\ Exported'
<1> USE DEF To
<1>1. CASE KeepLibrary
  <2>1. Exported'
    BY <1>1 DEF KeepLibrary, vars, itemVars, currentVars, exportVars, RevInv, Exported, Followed
  <2>2. /\ revision \in Nat /\ published \subseteq history /\ history \subseteq Media
        /\ history \cap unused = {}
    BY DEF RevInv, Typed, TypeOK, FreshInv
  <2>3. Viewed'
    <3> USE <1>1, <2>2 DEF KeepLibrary, vars, itemVars, currentVars, RevInv, Viewed, Followed, WantTyped
    <3>1. CASE PollRevision(c)
      BY <3>1 DEF PollRevision, ReadRevision
    <3>2. CASE PollHistory(c)
      BY <3>2 DEF PollHistory, ReadHistory
    <3>3. ASSUME NEW m \in Media, NEW b \in BOOLEAN, Accept(c, m, b) PROVE Viewed'
      BY <3>3 DEF Accept
    <3>4. CASE Write(c)
      BY <3>4 DEF Write
    <3>5. CASE ReplyHistory(c)
      BY <3>5 DEF ReplyHistory, ReadHistory
    <3>6. CASE ReplyRevision(c)
      BY <3>6 DEF ReplyRevision, ReadRevision
    <3> QED
      BY <3>1, <3>2, <3>3, <3>4, <3>5, <3>6 DEF Client
  <2> QED
    BY <2>1, <2>3
<1>2. CASE ~KeepLibrary
  <2>1. Write(c) /\ UNCHANGED exportVars
    BY <1>2 DEF Client, PollRevision, PollHistory, Accept, Write, ReplyHistory, ReplyRevision
  <2>2. want[c][1] \in Media /\ SetPublished(want[c][1], want[c][2])
    BY <1>2, <2>1 DEF Write, RevInv, WantTyped, Toggles, KeepLibrary
  <2>3. Library
    BY <2>2 DEF Library, Operation, SetPublished
  <2>4. Exported'
    BY <2>1, <2>3, LibraryFollows
  <2>5. Viewed'
    <3>1. /\ cpc' = [cpc EXCEPT ![c] = "written"] /\ polled' = polled \ {c}
          /\ UNCHANGED <<seen, view>>
      BY <1>2, <2>1 DEF Write, KeepLibrary
    <3>2. \A d \in Clients : view[d] \cap unused' = {}
      BY <2>3, FollowedStays DEF RevInv, Viewed
    <3>3. \A d \in polled : seen[d] <= revision'
      BY <2>3, FollowedStays DEF RevInv, Viewed
    <3>4. ASSUME NEW d \in polled' PROVE cpc'[d] # "polled" => Followed(view[d], seen[d])'
      <4>1. d # c /\ cpc'[d] = cpc[d] /\ view'[d] = view[d] /\ seen'[d] = seen[d]
        BY <3>1, <3>4 DEF RevInv, Viewed, WantTyped
      <4>2. view[d] \cap unused = {} /\ seen[d] \in Nat
        BY <3>1, <3>4 DEF RevInv, Viewed
      <4>3. cpc[d] # "polled" => Followed(view[d], seen[d])
        BY <3>1, <3>4 DEF RevInv, Viewed
      <4>4. cpc[d] # "polled" => Followed(view[d], seen[d])'
        BY <4>1, <4>2, <4>3, <2>3, FollowedStays DEF Followed, RevInv
      <4> QED
        BY <4>1, <4>4
    <3> QED
      BY <3>1, <3>2, <3>3, <3>4 DEF RevInv, Viewed, WantTyped
  <2> QED
    BY <2>4, <2>5
<1> QED
  BY <1>1, <1>2

(* The steps of an export.                                                 *)
LEMMA ExportFollows ==
  ASSUME RevInv, NEW e \in Exports, Export(e)
  PROVE  Viewed' /\ Exported'
<1> USE DEF ExportTo, ExportEnds
<1>1. ASSUME UNCHANGED <<vars, clientVars>>,
             ExportStart(e) \/ ExportCheck(e) \/ ExportConflict(e)
      PROVE  Viewed' /\ Exported'
  <2>1. Viewed'
    BY <1>1 DEF vars, itemVars, currentVars, clientVars, RevInv, Viewed, Followed
  <2>2. /\ revision \in Nat /\ published \subseteq history /\ history \subseteq Media
        /\ history \cap unused = {}
    BY DEF RevInv, Typed, TypeOK, FreshInv
  <2>3. Exported'
    <3> USE <1>1, <2>2 DEF vars, itemVars, currentVars, RevInv, Exported, Followed
    <3>1. CASE ExportStart(e)
      BY <3>1 DEF ExportStart
    <3>2. CASE ExportCheck(e)
      BY <3>2 DEF ExportCheck
    <3>3. CASE ExportConflict(e)
      BY <3>3 DEF ExportConflict
    <3> QED
      BY <1>1, <3>1, <3>2, <3>3
  <2> QED
    BY <2>1, <2>3
<1>2. ASSUME NEW m \in Media, NEW select \in BOOLEAN, ExportCommit(e, m, select)
      PROVE  Viewed' /\ Exported'
  <2>1. Library
    <3>1. CommitPrepared(m, revision, select)
      BY <1>2 DEF ExportCommit, CommitPrepared
    <3> QED
      BY <3>1 DEF Library, Operation
  <2>2. Viewed'
    BY <1>2, <2>1, LibraryFollows DEF ExportCommit
  <2>3. /\ epc' = [epc EXCEPT ![e] = "over"] /\ expected' = [expected EXCEPT ![e] = 0]
        /\ basis' = [basis EXCEPT ![e] = {}]
    BY <1>2 DEF ExportCommit
  <2>4. \A d \in Exports : basis[d] \cap unused' = {}
    BY <2>1, FollowedStays DEF RevInv, Exported
  <2>5. ASSUME NEW d \in Exports, epc'[d] \in {"render", "stage"}
        PROVE  Followed(basis[d], expected[d])'
    <3>1. epc'[d] = epc[d] /\ basis'[d] = basis[d] /\ expected'[d] = expected[d]
      BY <2>3, <2>5 DEF RevInv, Exported
    <3>2. /\ basis[d] \cap unused = {} /\ expected[d] \in Nat
          /\ Followed(basis[d], expected[d])
      BY <3>1, <2>5 DEF RevInv, Exported
    <3> QED
      BY <3>1, <3>2, <2>1, FollowedStays DEF Followed, RevInv
  <2>6. Exported'
    BY <2>3, <2>4, <2>5 DEF RevInv, Exported
  <2> QED
    BY <2>2, <2>6
<1> QED
  BY <1>1, <1>2 DEF Export, ExportStart, ExportCheck, ExportConflict

(* Every step keeps what the revision vouches for; a restart leaves no     *)
(* polled view and no export behind.                                       *)
LEMMA RevFollows == RevInv /\ [RevNext]_allVars => RevInv'
<1> SUFFICES ASSUME RevInv, [RevNext]_allVars PROVE RevInv'
  OBVIOUS
<1>1. [Next]_vars /\ WantTyped'
  BY RevStep DEF RevInv
<1>2. Typed'
  BY <1>1, NextTyped DEF RevInv
<1>3. FreshInv' /\ unused' \subseteq unused
  <2>1. CASE Reload
    BY <2>1 DEF Reload, Restart, Loaded, Done, RevInv, FreshInv
  <2>2. CASE Library \/ UNCHANGED vars
    BY <2>2, StepsVouch DEF RevInv
  <2>3. ASSUME NEW c \in Clients, Client(c) PROVE Library \/ UNCHANGED vars
    BY <2>3, WriteIsOfLibrary DEF RevInv, Client, PollRevision, PollHistory, Accept,
       ReplyHistory, ReplyRevision, KeepLibrary, vars
  <2>4. ASSUME NEW e \in Exports, Export(e) PROVE Library \/ UNCHANGED vars
    BY <2>4 DEF Export, ExportStart, ExportCheck, ExportConflict, ExportCommit,
       CommitPrepared, Library, Operation, vars
  <2> QED
    BY <2>1, <2>2, <2>3, <2>4 DEF RevNext, allVars, vars
<1>4. CASE Reload
  <2>1. Viewed'
    BY <1>4, <1>3 DEF Reload, RevInv, Viewed
  <2>2. Exported'
    BY <1>4 DEF Reload, RevInv, Exported
  <2> QED
    BY <1>1, <1>2, <1>3, <2>1, <2>2 DEF RevInv
<1>5. CASE Library /\ UNCHANGED <<clientVars, exportVars>>
  BY <1>1, <1>2, <1>3, <1>5, LibraryFollows DEF RevInv
<1>6. ASSUME NEW c \in Clients, Client(c) PROVE RevInv'
  BY <1>1, <1>2, <1>3, <1>6, ClientFollows DEF RevInv
<1>7. ASSUME NEW e \in Exports, Export(e) PROVE RevInv'
  BY <1>1, <1>2, <1>3, <1>7, ExportFollows DEF RevInv
<1>8. CASE UNCHANGED allVars
  <2>1. Viewed' /\ Exported'
    BY <1>8 DEF allVars, vars, itemVars, currentVars, clientVars, exportVars,
       RevInv, Viewed, Exported, Followed
  <2> QED
    BY <1>1, <1>2, <1>3, <2>1 DEF RevInv
<1> QED
  BY <1>4, <1>5, <1>6, <1>7, <1>8 DEF RevNext

(* A browser that has polled can rely on its revision, for any number of   *)
(* browsers and exports, whatever fails in the library.                    *)
THEOREM PolledIsCurrent == RevSpec => []PolledViewIsCurrent
<1>1. RevInv => PolledViewIsCurrent
  BY DEF RevInv, Viewed, Followed, PolledViewIsCurrent, ViewIsCurrent
<1> QED
  BY <1>1, RevInitFollows, RevFollows, PTL DEF RevSpec

(* An export never publishes over a set it has not seen.                   *)
THEOREM ExportsAreUnraced == RevSpec => ExportIsUnraced
<1> DEFINE Unraced == \A e \in Exports :
             epc[e] = "stage" /\ epc'[e] = "over" /\ unused' # unused =>
               basis[e] \cap history = published
<1>1. RevInv /\ [RevNext]_allVars => [Unraced]_allVars
  <2> SUFFICES ASSUME RevInv, RevNext, NEW e \in Exports,
                      epc[e] = "stage", epc'[e] = "over", unused' # unused
               PROVE  basis[e] \cap history = published
    OBVIOUS
  <2>1. PICK d \in Exports, m \in Media, select \in BOOLEAN : ExportCommit(d, m, select)
    BY DEF RevNext, Client, PollRevision, PollHistory, Accept, Write, ReplyHistory,
       ReplyRevision, KeepLibrary, exportVars, Export, ExportStart, ExportCheck,
       ExportConflict, vars, itemVars, Reload, Restart
  <2>2. d = e
    BY <2>1 DEF ExportCommit, ExportEnds, ExportTo, RevInv, Exported
  <2>3. revision = expected[e]
    BY <2>1, <2>2 DEF ExportCommit, CommitPrepared
  <2> QED
    BY <2>3 DEF RevInv, Exported, Followed
<1> QED
  BY <1>1, RevInitFollows, RevFollows, PTL DEF RevSpec, ExportIsUnraced

-----------------------------------------------------------------------------
(* The instance that a run checks, in which a second scene has recordings, *)
(* failures and repetitions: its shared scene is the composition above.    *)
SharedInv == Shared => ServableInv /\ ListedAreSaved

(* The other scene leaves the browsers alone and is no shared one.         *)
LEMMA SceneStep ==
  ASSUME WantTyped, [SceneNext]_<<scene, allVars>>
  PROVE  WantTyped' /\ Shared' = Shared /\ (Shared => [Next]_vars)
<1>1. CASE UNCHANGED <<scene, allVars>>
  BY <1>1, RevStep DEF Shared, allVars
<1>2. CASE SceneNext /\ Shared
  <2>1. RevNext /\ UNCHANGED scene
    BY <1>2, MediaLibraryAssumption DEF SceneNext, Shared
  <2> QED
    BY <1>2, <2>1, RevStep DEF Shared
<1>3. CASE SceneNext /\ ~Shared
  BY <1>3 DEF SceneNext, Shared, WantTyped, clientVars
<1> QED
  BY <1>1, <1>2, <1>3

LEMMA SceneStarts ==
  SceneInit => /\ WantTyped /\ Init
               /\ SharedInv
BY RevInitTyped, InitServable, InitSaved DEF SceneInit, RevInit, SharedInv

LEMMA SceneKeeps ==
  ASSUME Live = {}, Faults = FALSE,
         WantTyped, SharedInv, [SceneNext]_<<scene, allVars>>
  PROVE  WantTyped' /\ SharedInv'
<1>1. WantTyped' /\ Shared' = Shared
  BY SceneStep
<1>2. CASE Shared
  <2>1. ServableInv /\ ListedAreSaved /\ [Next]_vars
    BY <1>2, SceneStep DEF SharedInv
  <2>2. ServableInv' /\ ListedAreSaved'
    BY <2>1, NextServable, NextListed
  <2> QED
    BY <1>1, <2>2 DEF SharedInv
<1>3. CASE ~Shared
  BY <1>1, <1>3 DEF SharedInv
<1> QED
  BY <1>2, <1>3

(* The history of the shared scene can be served.                          *)
THEOREM SharedServable ==
  ASSUME Live = {}, Faults = FALSE
  PROVE  SceneSpec => []SharedHistoryIsServable
<1>1. SharedInv => SharedHistoryIsServable
  BY InvariantsSuffice DEF SharedInv, SharedHistoryIsServable
<1>2. WantTyped /\ SharedInv /\ [SceneNext]_<<scene, allVars>> => (WantTyped /\ SharedInv)'
  BY SceneKeeps
<1> QED
  BY <1>1, <1>2, SceneStarts, PTL DEF SceneSpec

(* Its favorites survive a restart with their flags.                       *)
THEOREM SharedFavoritesSurvive ==
  ASSUME Live = {}, Faults = FALSE
  PROVE  SceneSpec => []SharedFavoritesAreDurable
<1>1. SharedInv => SharedFavoritesAreDurable
  BY InvariantsSuffice DEF SharedInv, SharedFavoritesAreDurable
<1>2. WantTyped /\ SharedInv /\ [SceneNext]_<<scene, allVars>> => (WantTyped /\ SharedInv)'
  BY SceneKeeps
<1> QED
  BY <1>1, <1>2, SceneStarts, PTL DEF SceneSpec

(* A favorite of it ends by being unfavorited only.                        *)
THEOREM SharedFavoritesEnd ==
  ASSUME Live = {}, Faults = FALSE
  PROVE  SceneSpec => SharedFavoriteIsKept
<1> DEFINE Kept == Shared => OnlyUnfavorited
<1>1. WantTyped /\ SharedInv /\ [SceneNext]_<<scene, allVars>> => [Kept]_vars
  BY SceneStep, NextFavorite DEF SharedInv
<1>2. WantTyped /\ SharedInv /\ [SceneNext]_<<scene, allVars>> => (WantTyped /\ SharedInv)'
  BY SceneKeeps
<1> QED
  BY <1>1, <1>2, SceneStarts, PTL DEF SceneSpec, SharedFavoriteIsKept

(* What it marks converted can be restored whole.                          *)
THEOREM SharedConvertedRestores ==
  ASSUME Live = {}, Faults = FALSE, Repeats = FALSE
  PROVE  SceneSpec => []SharedConvertedIsWhole
<1> DEFINE IInv == WantTyped /\ SharedInv /\ (Shared => TreeInv)
<1>1. SceneInit => IInv
  BY SceneStarts, InitSaved
<1>2. IInv /\ [SceneNext]_<<scene, allVars>> => IInv'
  <2> SUFFICES ASSUME IInv, [SceneNext]_<<scene, allVars>> PROVE IInv'
    OBVIOUS
  <2>1. WantTyped' /\ SharedInv'
    BY SceneKeeps
  <2>2. Shared' => TreeInv'
    BY SceneStep, NextTrees DEF SharedInv
  <2> QED
    BY <2>1, <2>2
<1>3. IInv => SharedConvertedIsWhole
  BY InvariantsSuffice DEF SharedInv, SharedConvertedIsWhole
<1> QED
  BY <1>1, <1>2, <1>3, PTL DEF SceneSpec
=============================================================================
