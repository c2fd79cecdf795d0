SPECIFICATION Spec
CONSTANTS
  o1 = o1
  o2 = o2
  o3 = o3
  e1 = e1
  e2 = e2
  Orders <- TrioOrders
  Epics = {e1}
  Directions = {"BUY"}
  EpicOf <- TrioEpicOf
  DirOf <- TrioDirOf
  Risk <- TrioRisk
  NoEntry = NoEntry
  NoPending = NoPending
  NoStash = NoStash
  NoJob = NoJob
  AgeCap = 6
  EntryTimeout = 2
  PendingTimeout = 2
  OpenGrace = 3
  ReaperTimeout = 4
  HardExpiry = 5
  MaxConcurrent = 3
  MaxDaily = 4
  Usable = 9
  SoftPause = 1
  HardStop = 1
  MaxPerDirection = 2
  HeatCap = 0
  MaxAttempts = 1
  FractionalLots = FALSE
  Actors = {"reconciler", "market", "reaper", "closer"}
  Faults = {"refused", "transport", "apiDown", "stopFail"}
INVARIANTS
  StashBacked
PROPERTIES
  ReservationSurvivesWork
