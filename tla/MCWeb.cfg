SPECIFICATION WSpec
CONSTANTS
  OldLevels = {0, 3}
  NJobs = 2
  MaxNow = 2
  MaxResync = 1
  MaxSession = 3
  i1 = i1
  i2 = i2
  i3 = i3
  Illusts <- MCIllusts
  Shown <- MCShown
  Lists = {l1, l2}
  Workers = 2
  MaxBatch = 2
  TagSets = {"", "t", "u"}
  NoTags = ""
  MaxAct = 4
  NPages = 3
  MaxMove = 2
  MaxChange = 1
  Dangling = FALSE
  MaxNews = 8
  Sources = {"", "a", "b", "c"}
  NoSource = ""
  Versions <- MCVersions
  MaxTurn = 4
  Places <- MCPlaces
  PathOf <- MCPath
  SectionAt <- MCSection
  Sections <- MCSections
  NoSection = ""
  Personal = {"self", "bookmark"}
  Landing <- MCLanding
  Redirects = {"gone"}
  MaxKept = 2
  IdleTtl = 1
  GcTime = 2
  MaxTime = 3
  MaxGo = 3
INVARIANTS SessionScoped PageFollows CacheConverges LastChoiceWins LockHeld PagerHonest PanelFollows StageHonest KeptAsLeft
PROPERTY ModeStaysLeft
CHECK_DEADLOCK FALSE
