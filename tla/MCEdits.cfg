SPECIFICATION FairSpec
CONSTANTS
  j1 = j1
  t1 = t1
  w1 = w1
  Jobs = {j1}
  Tasks = {t1}
  Workers = {w1}
  JobOf <- MCJobOf
  Rank <- MCRank
  Name <- MCName
  Ugoira = {j1}
  WithMeta = {j1}
  MediaExt <- MCMediaExt
  Zip = "zip"
  BootSender = "boot"
  User = "user"
  None = "none"
  MaxRetries = 1
  QSize = 1
  MaxSuffix = 2
  MaxCrashes = 0
  MaxStops = 1
  MaxEdits = 2
  Cancellable = {j1}
  Removable = {j1}
PROPERTIES ForeignSidecarKept JobsSettle
