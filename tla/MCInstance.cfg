CONSTANTS
  Launches = {l1, l2}
  Programs <- MCPrograms
  OpenMax = 6
  SweepMax = 4
SPECIFICATION FairSpec
INVARIANTS
  SingleInstance
  BelieverOwnsLock
  NeverRefusedAlone
  OneServes
  DaemonDetached
PROPERTIES
  LaunchSettles
CHECK_DEADLOCK FALSE
