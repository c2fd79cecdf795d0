SPECIFICATION DaySpec
CONSTANTS
  o1 = o1
  o2 = o2
  o3 = o3
  e1 = e1
  e2 = e2
  Orders <- SmallOrders
  Epics = {e1}
  Directions = {"BUY"}
  EpicOf <- SmallEpicOf
  DirOf <- SmallDirOf
  Risk <- SmallRisk
  NoEntry = NoEntry
  NoPending = NoPending
  NoStash = NoStash
  NoJob = NoJob
  AgeCap = 3
  EntryTimeout = 1
  PendingTimeout = 1
  OpenGrace = 1
  ReaperTimeout = 1
  HardExpiry = 2
  MaxConcurrent = 3
  MaxDaily = 4
  Usable = 9
  SoftPause = 1
  HardStop = 1
  MaxPerDirection = 2
  HeatCap = 2
  MaxAttempts = 2
  FractionalLots = TRUE
  Actors = {"reconciler", "market", "sync"}
  Faults = {"refused", "apiDown", "slowBroker", "slowActor"}
  MaxDay = 1
INVARIANTS
  
  UsedIsHeld
PROPERTIES
  ImplementsContract
