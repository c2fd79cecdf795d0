SPECIFICATION Spec
CONSTANTS
  o1 = o1
  o2 = o2
  o3 = o3
  e1 = e1
  e2 = e2
  Orders <- SmallOrders
  Epics = {e1}
  Directions = {"BUY"}
  EpicOf <- SmallEpicOf
  DirOf <- SmallDirOf
  Risk <- SmallRisk
  NoEntry = NoEntry
  NoPending = NoPending
  NoStash = NoStash
  NoJob = NoJob
  AgeCap = 2
  EntryTimeout = 1
  PendingTimeout = 1
  OpenGrace = 1
  ReaperTimeout = 1
  HardExpiry = 1
  MaxConcurrent = 3
  MaxDaily = 4
  Usable = 9
  SoftPause = 1
  HardStop = 1
  MaxPerDirection = 1
  HeatCap = 0
  MaxAttempts = 2
  FractionalLots = FALSE
  Actors = {"reconciler", "closer"}
  Faults = {"startFail", "refused", "transport", "lostReply", "confirmFail", "apiDown", "stopFail", "recordFail", "slowBroker", "slowWorker", "slowActor", "slowGate", "fastReconciler"}
INVARIANTS
  SlotLedger
  ConfirmedWithinCap
PROPERTIES
  NoRepostOnceReferenced
