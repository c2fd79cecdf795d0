SPECIFICATION RestartSpec
CONSTANTS
  o1 = o1
  o2 = o2
  o3 = o3
  e1 = e1
  e2 = e2
  Orders <- LoneOrders
  Epics = {e1}
  Directions = {"BUY"}
  EpicOf <- LoneEpicOf
  DirOf <- LoneDirOf
  Risk <- LoneRisk
  NoEntry = NoEntry
  NoPending = NoPending
  NoStash = NoStash
  NoJob = NoJob
  AgeCap = 3
  EntryTimeout = 1
  PendingTimeout = 1
  OpenGrace = 1
  ReaperTimeout = 1
  HardExpiry = 2
  MaxConcurrent = 3
  MaxDaily = 4
  Usable = 9
  SoftPause = 1
  HardStop = 1
  MaxPerDirection = 2
  HeatCap = 0
  MaxAttempts = 2
  FractionalLots = FALSE
  Actors = {}
  Faults = {}
  MaxDay = 0
INVARIANTS
  OpenTradesCounted
