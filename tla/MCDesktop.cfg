SPECIFICATION FairDSpec
CONSTANTS
  p1 = p1
  p2 = p2
  Pids <- MCPids
  NoPid = NoPid
INVARIANTS InstallerRunsAlone ShownIsTrue SnapshotBacked
PROPERTIES OneCoreLease QuitSettles LaunchSettles
