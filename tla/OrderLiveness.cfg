SPECIFICATION FairSpec
CONSTANTS
  o1 = o1
  o2 = o2
  o3 = o3
  e1 = e1
  e2 = e2
  Orders <- PairOrders
  Epics = {e1, e2}
  Directions = {"BUY"}
  EpicOf <- PairEpicOf
  DirOf <- PairDirOf
  Risk <- PairRisk
  NoEntry = NoEntry
  NoPending = NoPending
  NoStash = NoStash
  NoJob = NoJob
  AgeCap = 3
  EntryTimeout = 1
  PendingTimeout = 1
  OpenGrace = 1
  ReaperTimeout = 1
  HardExpiry = 2
  MaxConcurrent = 3
  MaxDaily = 4
  Usable = 9
  SoftPause = 1
  HardStop = 1
  MaxPerDirection = 2
  HeatCap = 0
  MaxAttempts = 1
  FractionalLots = FALSE
  Actors = {"reconciler", "orphan"}
  Faults = {"refused", "transport", "apiDown"}
PROPERTIES
  WorkersFinish
  RejectedGivesBack
  PendingClears
