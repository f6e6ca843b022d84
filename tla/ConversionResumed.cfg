SPECIFICATION PubSpec
CONSTANTS
  j1 = j1
  j2 = j2
  j3 = j3
  m1 = m1
  m2 = m2
  m3 = m3
  Jobs = {j1, j2}
  Media = {m1, m2}
  MediaOf <- OneToOne
  Replaced = {m1, m2}
  Workers = {w1, w2}
  Streams = {}
  Limit = 2
  Resets = FALSE
  Cleared = {}
  NoJob = NoJob
PROPERTIES CanceledNeverResumed
CHECK_DEADLOCK FALSE
