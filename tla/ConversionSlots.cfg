SPECIFICATION UsedSpec
CONSTANTS
  j1 = j1
  j2 = j2
  j3 = j3
  m1 = m1
  m2 = m2
  m3 = m3
  Jobs = {j1, j2, j3}
  Media = {m1, m2, m3}
  MediaOf <- OneToOne
  Replaced = {}
  Workers = {w1, w2}
  Streams = {s1, s2}
  Limit = 1
  Resets = TRUE
  Cleared = {m1, m2}
  NoJob = NoJob
SYMMETRY UsedSymmetry
INVARIANTS SingleWorker UnfinishedIsListed SlotNamesLiveOwner DoneMeansComplete
CHECK_DEADLOCK FALSE
