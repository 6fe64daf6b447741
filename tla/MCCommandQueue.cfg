SPECIFICATION FairSpec
CONSTANTS
  Commands = {c1, c2}
  Threads = {t1, t2, t3}
  MaxPush = 4
INVARIANTS
  NoLostWakeup
  FirstInFirstOut
PROPERTIES
  NothingAfterStop
  StopReleases
  CommandsAreTaken
CHECK_DEADLOCK FALSE
