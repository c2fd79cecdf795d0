SPECIFICATION FairSpec
CONSTANTS
  quotes = quotes
  history = history
  confirms = confirms
  Callers <- AllThreads
  Category <- Categories3
  Urgent = {confirms}
  Interval = 1
  Window = 1
  HardCap = 2
  WarnCount = 2
  Readings = 1
  PauseUnit = 1
  PauseMax = 1
  DemoThroughput = FALSE
  RestCooldown = 1
  MaxCooldown = 2
  StreamCooldown = 1
  MaxStage = 2
  MaxRetries = 2
  AwaitMax = 1
  MaxFlights = 1
  Exemptions = {}
  Events = {"quota", "orders", "restart"}
INVARIANTS
  TypeOK
  OnlyEarlySend
PROPERTIES
  StageCountsCooldowns
  CooldownKept
  AwaitEnds
  CooldownEnds
