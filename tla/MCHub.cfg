SPECIFICATION SvcSpec
CONSTANTS
  c1 = c1
  s1 = s1
  s2 = s2
  p1 = p1
  p2 = p2
  Publishers = {p1, p2}
  Clients = {c1}
  Streams = {s1, s2}
  ClientOf <- MCClientOf
  Topics = {"download", "auth"}
  Wants <- MCWants
  Cap = 2
  Buf = 1
  MaxEvents = 3
  MaxRestarts = 1
  Accounts = {"a", "b"}
  Nobody = "nobody"
  Callers = {"request"}
  MaxIssued = 4
  MaxReloads = 1
  MaxBoots = 1
  Images = {"big", "small"}
  Requests = {"r1", "r2"}
  Img <- MCImg
  Tmp <- MCTmp
  Files <- MCFiles
  Bytes <- MCBytes
  Caps = {0, 2}
  Never = "never"
  MaxResizes = 1
  MaxFailures = 2
  Keys = {"channel", "proxy", "sni", "port"}
  Values = {"plain", "other", "bad"}
  Channel = "channel"
  Pinned = {"sni", "port"}
  Internal = {"port"}
  Hidden = {"sni"}
  Allowed <- MCAllowed
  Base <- MCBase
  Builds = {"stable", "beta"}
  DefaultChannel <- MCChannels
  Environments <- MCProxied
  Invalid <- MCInvalid
  Services = 2
  Fallible = {1}
  MaxChanges = 2
  MaxStarts = 1
  Versions = {1, 2, 3, 4}
  Rank <- MCRank
  Channels = {"stable", "beta"}
  Floor <- MCFloor
  Installable = {1, 2, 3}
  Checkers = {"loop"}
  Appliers = {"r1", "r2"}
  None = None
  MaxReleases = 1
  MaxSwitches = 1
  MaxStops = 1
INVARIANTS LiveExactlyOnce ReplayExact NoDeadSubscriber NoStreamHoldsTheDrain RetriesAsSelf SessionInStep
INVARIANTS CapWatched SettingsHold
PROPERTIES AccountHeld NeverOlder
SYMMETRY MCSymmetry
