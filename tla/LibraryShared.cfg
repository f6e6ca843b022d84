SPECIFICATION SceneSpec
CONSTANTS
  Media = {m1, m2}
  Live = {}
  Limit = 1
  Faults = FALSE
  Repeats = FALSE
  RevisionBound = 2
  NoMedia = NoMedia
  Clients = {c1}
  Exports = {e1}
INVARIANTS SharedHistoryIsServable SharedFavoritesAreDurable SharedConvertedIsWhole PolledViewIsCurrent CurrentRecordingIsServable
PROPERTIES SharedFavoriteIsKept ExportIsUnraced
SYMMETRY MediaSymmetry
CHECK_DEADLOCK FALSE
