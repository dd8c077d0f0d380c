SPECIFICATION FairWSpec
CONSTANTS
  OldLevels = {0, 3}
  NJobs = 2
  MaxNow = 0
  MaxResync = 0
  MaxSession = 1
  i1 = i1
  i2 = i2
  i3 = i3
  Illusts <- MCIllusts
  Shown <- MCShown
  Lists = {l1, l2}
  Workers = 2
  MaxBatch = 0
  TagSets = {"", "t", "u"}
  NoTags = ""
  MaxAct = 0
  NPages = 3
  MaxMove = 1
  MaxChange = 0
  Dangling = TRUE
  MaxNews = 0
  Sources = {"", "a", "b", "c"}
  NoSource = ""
  Versions <- MCVersions
  MaxTurn = 0
  Places <- MCPlaces
  PathOf <- MCPath
  SectionAt <- MCSection
  Sections <- MCSections
  NoSection = ""
  Personal = {"self", "bookmark"}
  Landing <- MCLanding
  Redirects = {"gone"}
  MaxKept = 2
  IdleTtl = 1
  GcTime = 2
  MaxTime = 0
  MaxGo = 0
PROPERTY WalkSettles
CHECK_DEADLOCK FALSE
