SPECIFICATION Spec
CONSTANTS
  j1 = j1
  j2 = j2
  t1 = t1
  t2 = t2
  w1 = w1
  w2 = w2
  Jobs = {j1, j2}
  Tasks = {t1, t2}
  Workers = {w1, w2}
  JobOf <- MCJobOf
  Rank <- MCRank
  Name <- MCName
  Ugoira = {j1}
  WithMeta = {j1}
  MediaExt <- MCMediaExt
  Zip = "zip"
  BootSender = "boot"
  User = "user"
  None = "none"
  MaxRetries = 0
  QSize = 1
  MaxSuffix = 2
  MaxCrashes = 1
  MaxStops = 1
  MaxEdits = 0
  Cancellable = {j1}
  Removable = {}
INVARIANTS NoStrandedTask CancelDurable
PROPERTIES StoredSettledForever
