SPECIFICATION Spec
CONSTANTS
  j1 = j1
  j2 = j2
  t1 = t1
  t2 = t2
  t3 = t3
  w1 = w1
  w2 = w2
  Jobs = {j1, j2}
  Tasks = {t1, t2, t3}
  Workers = {w1, w2}
  JobOf <- MCJobOf
  Rank <- MCRank
  Name <- MCName
  Ugoira = {}
  WithMeta = {}
  MediaExt <- MCMediaExt
  Zip = "zip"
  BootSender = "boot"
  User = "user"
  None = "none"
  MaxRetries = 0
  QSize = 2
  MaxSuffix = 2
  MaxCrashes = 0
  MaxStops = 0
  MaxEdits = 0
  Cancellable = {j1}
  Removable = {}
INVARIANTS NoStaleRunning
