-------------------------- MODULE MCPublishRevision --------------------------
(***************************************************************************)
(* Two scenes of the library on two media, one per behaviour:              *)
(*   - shared: a browser and an export against every other operation, the  *)
(*     file operations succeed (the constants of the configuration);       *)
(*   - a recording: one of the media is the recording of an OBS session,   *)
(*     copies, renames and saves may fail, and favorites are repeated.     *)
(***************************************************************************)
EXTENDS PublishRevision, TLC

VARIABLE
  scene    \* NoMedia when shared, else the id of the recording

Recording(m) == INSTANCE MediaLibrary WITH Live <- {m}, Faults <- TRUE, Repeats <- TRUE

Shared == scene = NoMedia

SceneInit == RevInit /\ scene \in Media \cup {NoMedia}

SceneNext ==
  /\ UNCHANGED scene
  /\ \/ Shared /\ RevNext
     \/ /\ \E m \in Media : scene = m /\ Recording(m)!Next
        /\ UNCHANGED <<clientVars, exportVars>>

SceneSpec == SceneInit /\ [][SceneNext]_<<scene, allVars>>

(* Ids are random: they are interchangeable.                               *)
MediaSymmetry == Permutations(Media)

(* Without OBS sessions and failing file operations, an item of the        *)
(* history has its file where it is looked for.                            *)
SharedHistoryIsServable == Shared => HistoryIsServable

(* While file operations succeed, favorites survive a restart with their   *)
(* flags.  (MediaLibrary states it; a save that fails is reported.)        *)
SharedFavoritesAreDurable == Shared => FavoritesAreDurable

(* While file operations succeed, and neither SetFavorite(TRUE) nor        *)
(* MarkConverted is repeated for an item, what is marked converted can be  *)
(* restored whole, also after a crash between two copies.                  *)
SharedConvertedIsWhole == Shared => ConvertedIsWhole

(* While file operations succeed, a favorite ends by being unfavorited     *)
(* only, wherever the process dies.                                        *)
SharedFavoriteIsKept == [][Shared => OnlyUnfavorited]_vars
=============================================================================
